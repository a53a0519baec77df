---------------------------- MODULE PbRightProofs ----------------------------
(***************************************************************************)
(* The generated code computes what the program means: LabelCoherent is an *)
(* invariant of PbLabels.                                                  *)
(*                                                                         *)
(* PbGenProofs says where the generator believes every byte to be; here    *)
(* that belief is compared with the machine.  Right(V, D, o, w) are the    *)
(* states in the middle of an instruction that began in o whose machine    *)
(* holds the meaning w of every byte that may still be read, unless a      *)
(* hazard was met.  A load, a spill or an instruction on one byte takes    *)
(* Right of one meaning to Right of the meaning that byte step gives it;   *)
(* each loop follows byte by byte, and each handler from its loops.        *)
(* Between instructions RightInv adds what the iTemp of the literals and a *)
(* jump that is still open rely on.                                        *)
(*                                                                         *)
(* Names, as in PbGenProofs: XKeeps, X goes from Kept to Kept; XRight,     *)
(* from Right of a meaning to Right of the one X gives; XTakes, what one   *)
(* byte of X reads and writes; XFirst, XNext, the meaning after no and     *)
(* after one more round of a loop; XReach, the states after each round;    *)
(* XMarked, what X does of which a hazard is always or already marked.     *)
(***************************************************************************)
EXTENDS PbGenProofs

(* What the machine holds is what the program means.  At(h, b) is where    *)
(* the machine finds byte b, Means(h, w) that it finds the meaning w of    *)
(* every byte that may still be read, and Right the states of Kept where   *)
(* that holds unless a hazard was hit.                                     *)
At(h, b) == IF h.home[b] # None THEN h.reg[h.home[b]]
            ELSE IF h.at[b[1]] # None THEN h.ram[h.at[b[1]] + b[2]] ELSE Junk
Means(h, w) == \A b \in AllBytes : h.liveTo[b[1]] >= h.seq /\ w[b] # Junk => At(h, b) = w[b]
Right(V, D, o, w) == {h \in Kept(V, D, o) : h.hit = {} => Means(h, w)}

(* The symbols whose homes are backed are at least those that are live.    *)
Covers(D, o) == \A x \in Syms : o.liveTo[x] >= o.seq => x \in D

LEMMA CoversAll == ASSUME NEW o PROVE Covers(Syms, o)
BY DEF Covers

(* The meaning w where byte b has value u.                                 *)
With(w, b, u) == [c \in AllBytes |-> IF c = b THEN u ELSE w[c]]

(* The meaning w claims no more than v of what may still be read.          *)
Within(o, w, v) == \A b \in AllBytes : o.liveTo[b[1]] >= o.seq /\ w[b] # Junk => w[b] = v[b]

LEMMA RightWeak ==
  ASSUME NEW V, NEW D, NEW o, NEW v, NEW w, NEW h \in Right(V, D, o, v),
         h.hit = {} => Within(o, w, v)
  PROVE  h \in Right(V, D, o, w)
<1>1. h \in Kept(V, D, o) /\ h.liveTo = o.liveTo /\ h.seq = o.seq /\ (h.hit = {} => Means(h, v))
  BY DEF Right, Kept, Onward
<1>2. ASSUME h.hit = {} PROVE Means(h, w)
  BY <1>1, <1>2 DEF Means, Within
<1> QED BY <1>1, <1>2 DEF Right

(* A step that was marked needs nothing.                                   *)
LEMMA RightHit ==
  ASSUME NEW V, NEW D, NEW o, NEW w, NEW h \in Kept(V, D, o), h.hit # {}
  PROVE  h \in Right(V, D, o, w)
BY DEF Right

LEMMA RightIs ==
  ASSUME NEW V, NEW D, NEW o, NEW w, NEW h \in Right(V, D, o, w)
  PROVE  /\ h \in Kept(V, D, o) /\ h \in Gens(V) /\ Framed(h) /\ Backed(h, D)
         /\ h.liveTo = o.liveTo /\ h.seq = o.seq
         /\ \A x \in Syms : o.at[x] # None => h.at[x] = o.at[x]
         /\ (h.hit = {} => Means(h, w))
BY DEF Right, Kept, Onward

(* What the machine holds of the bytes of w in k is as in h.               *)
Still(o, w, h, k) ==
  \A b \in AllBytes : o.liveTo[b[1]] >= o.seq /\ w[b] # Junk /\ At(h, b) = w[b] => At(k, b) = w[b]

LEMMA RightSame ==
  ASSUME NEW V, NEW D, NEW o, NEW w, NEW h \in Right(V, D, o, w), NEW k \in Kept(V, D, o),
         k.hit = {} => h.hit = {} /\ Still(o, w, h, k)
  PROVE  k \in Right(V, D, o, w)
<1>1. h.liveTo = o.liveTo /\ h.seq = o.seq /\ (h.hit = {} => Means(h, w))
  BY RightIs
<1>2. k.liveTo = o.liveTo /\ k.seq = o.seq
  BY DEF Kept, Onward
<1>3. ASSUME k.hit = {} PROVE Means(k, w)
  BY <1>1, <1>2, <1>3 DEF Means, Still
<1> QED BY <1>3 DEF Right

LEMMA RightFrame ==
  ASSUME NEW V, NEW D, NEW o, NEW w, NEW h \in Right(V, D, o, w), NEW k \in Kept(V, D, o),
         k.home = h.home, k.reg = h.reg, k.at = h.at, k.ram = h.ram, k.hit = h.hit
  PROVE  k \in Right(V, D, o, w)
<1>1. Still(o, w, h, k)
  BY DEF Still, At
<1> QED BY <1>1, RightSame

(* No two bytes have the same cell.                                        *)
LEMMA CellsApart ==
  ASSUME NEW V, NEW h \in Gens(V), Framed(h), NEW b \in AllBytes, NEW c \in AllBytes, b # c,
         h.at[b[1]] # None, h.at[c[1]] # None
  PROVE  h.at[b[1]] + b[2] # h.at[c[1]] + c[2]
<1>1. /\ b[1] \in Syms /\ b[2] \in 0 .. SizeOf[b[1]] - 1 /\ b = <<b[1], b[2]>>
      /\ c[1] \in Syms /\ c[2] \in 0 .. SizeOf[c[1]] - 1 /\ c = <<c[1], c[2]>>
  BY BytesArePlaces DEF Bytes
<1>2. h.at[b[1]] \in Nat /\ h.at[c[1]] \in Nat
  BY <1>1, AllBytesFinite, RegsAssumption DEF Gens, Cells
<1>3. SizeOf[b[1]] \in Nat /\ SizeOf[c[1]] \in Nat
  BY <1>1, RegsAssumption
<1>4. CASE b[1] = c[1]
  BY <1>1, <1>2, <1>4
<1>5. CASE b[1] # c[1]
  <2>1. \/ h.at[b[1]] + SizeOf[b[1]] <= h.at[c[1]]
        \/ h.at[c[1]] + SizeOf[c[1]] <= h.at[b[1]]
    BY <1>1, <1>5 DEF Framed, Apart
  <2> QED BY <1>1, <1>2, <1>3, <2>1
<1> QED BY <1>4, <1>5

(* No other byte that may be read is in the register of a byte.            *)
LEMMA HomesApart ==
  ASSUME NEW V, NEW D, NEW o, NEW h \in Kept(V, D, o), NEW b \in Places, NEW c \in Places,
         b[1] \in D, c[1] \in D, b # c, h.home[b] # None
  PROVE  h.home[b] # h.home[c]
BY DEF Kept, Backed

-----------------------------------------------------------------------------
LEMMA MoveSPRight ==
  ASSUME NEW V, NEW D, NEW o, NEW w, NEW h \in Right(V, D, o, w), NEW c \in Cells, NEW e \in BOOLEAN,
         NEW k, k = MoveSP(h, c, e)
  PROVE  k \in Right(V, D, o, w)
<1>1. h \in Kept(V, D, o)
  BY RightIs
<1>2. /\ k \in Kept(V, D, o) /\ k.home = h.home /\ k.reg = h.reg /\ k.at = h.at /\ k.ram = h.ram
      /\ k.hit = h.hit
  BY <1>1, MoveSPKeeps
<1> QED BY <1>2, RightFrame

LEMMA CarryRight ==
  ASSUME NEW V, NEW D, NEW o, NEW w, NEW h \in Right(V, D, o, w), NEW c \in {0, 1},
         NEW k, k = [h EXCEPT !.carry = c]
  PROVE  k \in Right(V, D, o, w)
<1>1. h \in Kept(V, D, o) /\ h \in Gens(V)
  BY RightIs
<1>2. k \in Kept(V, D, o)
  BY <1>1, CarryKeeps
<1>3. k.home = h.home /\ k.reg = h.reg /\ k.at = h.at /\ k.ram = h.ram /\ k.hit = h.hit
  BY <1>1 DEF Gens
<1> QED BY <1>2, <1>3, RightFrame

(* A mark changes nothing but what is marked.                              *)
LEMMA NoteRight ==
  ASSUME NEW V, NEW D, NEW o, NEW w, NEW h \in Right(V, D, o, w), NEW reason \in Reasons,
         NEW k, k = [h EXCEPT !.hit = h.hit \cup {reason}]
  PROVE  k \in Right(V, D, o, w) /\ k \in Kept(V, D, o) /\ k.hit # {}
<1> DEFINE H == h.hit \cup {reason}
<1>1. h \in Kept(V, D, o) /\ h \in Gens(V)
  BY RightIs
<1>2. H \in Noted /\ H # {}
  BY <1>1 DEF Gens, Noted
<1> HIDE DEF H
<1>3. k = [h EXCEPT !.hit = H]
  BY DEF H
<1>4. k \in Kept(V, D, o)
  BY <1>1, <1>2, <1>3, HitKeeps, Zenon
<1>5. k.hit = H
  BY <1>1, <1>3 DEF Gens
<1> QED BY <1>2, <1>4, <1>5, RightHit

LEMMA MarkedRight ==
  ASSUME NEW V, NEW D, NEW o, NEW w, NEW h \in Kept(V, D, o), NEW reason \in Reasons,
         NEW k, k = [h EXCEPT !.hit = h.hit \cup {reason}]
  PROVE  k \in Right(V, D, o, w)
<1> DEFINE H == h.hit \cup {reason}
<1>1. H \in Noted /\ H # {}
  BY DEF Kept, Gens, Noted
<1>2. k = [h EXCEPT !.hit = H]
  OBVIOUS
<1> HIDE DEF H
<1>3. k \in Kept(V, D, o)
  BY <1>1, <1>2, HitKeeps, Zenon
<1>4. k.hit = H
  BY <1>2 DEF Kept, Gens
<1> QED BY <1>1, <1>3, <1>4, RightHit

LEMMA MarkRight ==
  ASSUME NEW V, NEW D, NEW o, NEW w, NEW h \in Right(V, D, o, w), NEW reason \in Reasons, NEW when
  PROVE  /\ Hit(h, reason, when) \in Right(V, D, o, w)
         /\ Hit(h, reason, when) = h \/ Hit(h, reason, when).hit # {}
         /\ when => Hit(h, reason, when).hit # {}
<1> DEFINE k == [h EXCEPT !.hit = h.hit \cup {reason}]
<1>1. k \in Right(V, D, o, w) /\ k.hit # {}
  BY NoteRight
<1>2. Hit(h, reason, when) = IF when THEN k ELSE h
  BY DEF Hit
<1> HIDE DEF k
<1> QED BY <1>1, <1>2

(* What byte b may mean when its register has value v.                     *)
Says(o, h, b, u, v) ==
  b \in AllBytes /\ h.hit = {} /\ o.liveTo[b[1]] >= o.seq => u \in {v, Junk}

(* A byte in its register is overwritten.                                  *)
LEMMA RegRight ==
  ASSUME NEW V, NEW D, NEW o, Covers(D, o), NEW w, NEW h \in Right(V, D, o, w),
         NEW b \in Places, b[1] \in D, h.home[b] # None,
         NEW v \in V \cup {Junk}, NEW u,
         Says(o, h, b, u, v),
         NEW k, k = [h EXCEPT !.reg[h.home[b]] = v]
  PROVE  k \in Right(V, D, o, With(w, b, u))
<1> DEFINE r == h.home[b]
<1>1. h \in Kept(V, D, o) /\ h \in Gens(V) /\ h.liveTo = o.liveTo /\ h.seq = o.seq
      /\ (h.hit = {} => Means(h, w))
  BY RightIs
<1>2. r \in Regs
  BY <1>1 DEF Gens
<1>3. k = [h EXCEPT !.reg[r] = v]
  OBVIOUS
<1> HIDE DEF r
<1>4. k \in Kept(V, D, o) /\ k.home = h.home /\ k.at = h.at
  BY <1>1, <1>2, <1>3, RegKeeps
<1>5. k.ram = h.ram /\ k.hit = h.hit /\ k.liveTo = h.liveTo /\ k.seq = h.seq /\ k.reg = [h.reg EXCEPT ![r] = v]
  BY <1>1, <1>3 DEF Gens
<1>6. ASSUME k.hit = {}, NEW c \in AllBytes, k.liveTo[c[1]] >= k.seq, With(w, b, u)[c] # Junk
      PROVE  At(k, c) = With(w, b, u)[c]
  <2>1. c \in Places /\ c[1] \in D
    BY <1>1, <1>5, <1>6, BytesArePlaces DEF Covers
  <2>2. CASE c = b
    <3>1. At(k, c) = v
      BY <1>1, <1>2, <1>4, <1>5, <2>2 DEF At, r, Gens
    <3> QED BY <1>1, <1>5, <1>6, <2>2, <3>1 DEF With, Says
  <2>3. CASE c # b
    <3>1. h.home[c] # r
      BY <1>1, <2>1, <2>3, HomesApart DEF r
    <3>2. At(k, c) = At(h, c)
      BY <1>1, <1>2, <1>4, <1>5, <2>1, <3>1 DEF At, Gens
    <3>3. With(w, b, u)[c] = w[c]
      BY <2>3 DEF With
    <3> QED BY <1>1, <1>5, <1>6, <3>2, <3>3 DEF Means
  <2> QED BY <2>2, <2>3
<1>7. k.hit = {} => Means(k, With(w, b, u))
  BY <1>6 DEF Means
<1> QED BY <1>4, <1>7 DEF Right

(* Cells for a symbol that has none.                                       *)
LEMMA ReserveRight ==
  ASSUME NEW V, NEW D, NEW o, NEW w, NEW h \in Right(V, D, o, w), NEW x \in Syms,
         NEW k, k = Reserve(h, x)
  PROVE  k \in Right(V, D, o, w)
<1>1. h \in Kept(V, D, o)
  BY RightIs
<1>2. /\ k \in Kept(V, D, o) /\ k.home = h.home /\ k.reg = h.reg /\ k.ram = h.ram /\ k.hit = h.hit
      /\ \A y \in Syms : h.at[y] # None => k.at[y] = h.at[y]
  BY <1>1, ReserveKeeps
<1>3. Still(o, w, h, k)
  BY <1>2, BytesArePlaces DEF Still, At
<1> QED BY <1>2, <1>3, RightSame

(* What a spill writes: the cell of byte i of x, and nothing else.         *)
Spilled(h, k, b, v) ==
  /\ k.hit = h.hit /\ b \in AllBytes
  /\ k.at[b[1]] # None /\ k.ram[k.at[b[1]] + b[2]] = v
  /\ \A c \in AllBytes : c # b /\ h.at[c[1]] # None =>
       k.at[c[1]] = h.at[c[1]] /\ k.ram[k.at[c[1]] + c[2]] = h.ram[h.at[c[1]] + c[2]]

LEMMA PushSpills ==
  ASSUME NEW V, NEW D, NEW o, NEW h \in Kept(V, D, o),
         NEW x \in Syms, NEW i \in 0 .. MaxSize - 1, NEW r \in Regs,
         NEW k, k = pushVariable(h, x, i, r), k.hit = {}
  PROVE  Spilled(h, k, <<x, i>>, h.reg[r])
<1> DEFINE m == Reserve(h, x)
           c == m.at[x] + i
           e == c # h.offset
           n == MoveSP(m, c, e)
           q == [n EXCEPT !.ram[c] = h.reg[r]]
           H == IF i \in Bytes(x) THEN n.hit ELSE n.hit \cup {"byte beyond type"}
<1>0. k = [q EXCEPT !.hit = H]
  BY DEF pushVariable
<1>1. /\ m \in Kept(V, D, o) /\ m.at[x] # None /\ m.ram = h.ram /\ m.hit = h.hit
      /\ \A y \in Syms : h.at[y] # None => m.at[y] = h.at[y]
  BY ReserveKeeps
<1>2. c \in Cells
  <2> HIDE DEF m
  <2> QED BY <1>1, CellIn DEF Kept
<1>e. e \in BOOLEAN
  OBVIOUS
<1>w. c = m.at[x] + i
  OBVIOUS
<1> HIDE DEF m, c, e
<1>3. n \in Kept(V, D, o) /\ n.at = m.at /\ n.ram = m.ram /\ n.hit = m.hit
  BY <1>1, <1>2, <1>e, MoveSPKeeps
<1>4. H = h.hit /\ i \in Bytes(x)
  <2>1. k.hit = H
    <3>1. q.hit = n.hit /\ n \in Gens(V)
      BY <1>3 DEF Kept, Gens
    <3> HIDE DEF H, n
    <3>2. DOMAIN q = DOMAIN n /\ "hit" \in DOMAIN n
      BY <3>1 DEF Gens
    <3> HIDE DEF q
    <3> QED BY <1>0, <3>2
  <2> HIDE DEF n
  <2> QED BY <1>1, <1>3, <2>1
<1> HIDE DEF n
<1>5. n.ram \in [Cells -> V \cup {Junk}] /\ n \in Gens(V) /\ m \in Gens(V) /\ Framed(m)
  BY <1>1, <1>3 DEF Kept, Gens
<1>6. k.at = m.at /\ k.ram = [h.ram EXCEPT ![c] = h.reg[r]] /\ k.hit = h.hit
  <2>1. q.at = m.at /\ q.ram = [n.ram EXCEPT ![c] = h.reg[r]] /\ k.hit = H /\ k.at = q.at /\ k.ram = q.ram
    <3>1. q.at = n.at /\ q.ram = [n.ram EXCEPT ![c] = h.reg[r]] /\ DOMAIN q = DOMAIN n
      BY <1>5 DEF Gens
    <3>2. "hit" \in DOMAIN n
      BY <1>5 DEF Gens
    <3> HIDE DEF q, H
    <3> QED BY <1>0, <1>3, <3>1, <3>2
  <2> QED BY <1>1, <1>3, <1>4, <2>1
<1>7. <<x, i>> \in AllBytes /\ k.at[x] # None /\ k.ram[k.at[x] + i] = h.reg[r]
  BY <1>1, <1>2, <1>3, <1>4, <1>5, <1>6, <1>w, BytesArePlaces
<1>8. ASSUME NEW d \in AllBytes, d # <<x, i>>, h.at[d[1]] # None
      PROVE  k.at[d[1]] = h.at[d[1]] /\ k.ram[k.at[d[1]] + d[2]] = h.ram[h.at[d[1]] + d[2]]
  <2>1. d[1] \in Syms /\ d[2] \in 0 .. MaxSize - 1 /\ m.at[d[1]] = h.at[d[1]]
    BY <1>1, <1>8, BytesArePlaces
  <2>2. m.at[d[1]] + d[2] # c
    <3> DEFINE b == <<x, i>>
    <3>1. b \in AllBytes /\ b[1] = x /\ b[2] = i /\ d # b
      BY <1>7, <1>8
    <3> HIDE DEF b
    <3> QED BY <1>1, <1>5, <1>8, <1>w, <2>1, <3>1, CellsApart
  <2>3. m.at[d[1]] + d[2] \in Cells
    BY <1>1, <1>5, <1>8, <2>1, CellIn
  <2> QED BY <1>1, <1>3, <1>5, <1>6, <2>1, <2>2, <2>3
<1> QED BY <1>6, <1>7, <1>8 DEF Spilled
(* A byte that leaves its register has its value on the stack, or is dead. *)
LEMMA ClearRight ==
  ASSUME NEW V, NEW D, NEW o, NEW w, NEW h \in Right(V, D, o, w), NEW r \in Regs,
         NEW k, k = clear(h, r)
  PROVE  k \in Right(V, D, o, w) /\ (k.hit = {} => h.hit = {})
<1> DEFINE b == h.bank[r]
           m == IF h.liveTo[b[1]] >= h.seq THEN pushVariable(h, b[1], b[2], r) ELSE h
           n == [m EXCEPT !.home[b] = None]
<1>0. h \in Kept(V, D, o) /\ h \in Gens(V) /\ h.liveTo = o.liveTo /\ h.seq = o.seq
  BY RightIs
<1>1. CASE b = None \/ h.home[b] # r
  <2>1. k = h
    BY <1>1 DEF clear
  <2> QED BY <2>1
<1>2. CASE b # None /\ h.home[b] = r
  <2>1. b \in Places /\ b[1] \in Syms /\ b[2] \in 0 .. MaxSize - 1 /\ b = <<b[1], b[2]>>
    <3>1. b \in Places
      BY <1>0, <1>2 DEF Gens
    <3> QED BY <3>1, BytesArePlaces
  <2>2. m \in Kept(V, D, o) /\ m.home = h.home /\ m.reg = h.reg
    <3>1. CASE h.liveTo[b[1]] >= h.seq
      <4> HIDE DEF b
      <4> QED BY <1>0, <2>1, <3>1, PushKeeps
    <3>2. CASE ~(h.liveTo[b[1]] >= h.seq)
      BY <1>0, <3>2
    <3> QED BY <3>1, <3>2
  <2>3. k = [n EXCEPT !.bank[r] = None]
    BY <1>2 DEF clear
  <2>4. CASE h.liveTo[b[1]] >= h.seq
    <3>1. m = pushVariable(h, b[1], b[2], r)
      BY <2>4
    <3> HIDE DEF m, b
    <3>2. m.hit = {} => Spilled(h, m, b, h.reg[r])
      BY <1>0, <2>1, <3>1, PushSpills
    <3>3. k \in Kept(V, D, o)
      BY <1>0, ClearKeeps
    <3>4. /\ n.home = [h.home EXCEPT ![b] = None] /\ n.reg = h.reg /\ n.at = m.at /\ n.ram = m.ram
          /\ n.hit = m.hit /\ n \in Gens(V)
      BY <2>1, <2>2 DEF Kept, Gens
    <3> HIDE DEF n
    <3>5. k.home = [h.home EXCEPT ![b] = None] /\ k.reg = h.reg /\ k.at = m.at /\ k.ram = m.ram /\ k.hit = m.hit
      BY <2>3, <3>4 DEF Gens
    <3>6. ASSUME k.hit = {}, NEW c \in AllBytes, w[c] # Junk, At(h, c) = w[c]
          PROVE  At(k, c) = w[c]
      <4>1. Spilled(h, m, b, h.reg[r]) /\ c \in Places /\ h.home \in [Places -> Regs \cup {None}]
        BY <1>0, <3>2, <3>5, <3>6, BytesArePlaces DEF Gens
      <4>2. CASE c = b
        <5>1. k.home[c] = None
          BY <3>5, <4>1, <4>2
        <5>2. r # None
          BY RegsAssumption DEF Regs
        <5>3. At(h, c) = h.reg[r]
          BY <1>2, <4>2, <5>2 DEF At
        <5> QED BY <3>5, <3>6, <4>1, <4>2, <5>1, <5>3 DEF At, Spilled
      <4>3. CASE c # b
        <5>1. k.home[c] = h.home[c]
          BY <3>5, <4>1, <4>3
        <5>2. CASE h.home[c] # None
          BY <3>5, <3>6, <5>1, <5>2 DEF At
        <5>3. CASE h.home[c] = None
          <6>1. h.at[c[1]] # None
            BY <3>6, <5>3 DEF At
          <6> QED BY <3>5, <3>6, <4>1, <4>3, <5>1, <5>3, <6>1 DEF At, Spilled
        <5> QED BY <5>2, <5>3
      <4> QED BY <4>2, <4>3
    <3>7. k.hit = {} => h.hit = {} /\ Still(o, w, h, k)
      BY <3>2, <3>5, <3>6 DEF Still, Spilled
    <3> QED BY <3>3, <3>7, RightSame
  <2>5. CASE ~(h.liveTo[b[1]] >= h.seq)
    <3>1. m = h
      BY <2>5
    <3> HIDE DEF m, b
    <3>3. k \in Kept(V, D, o)
      BY <1>0, ClearKeeps
    <3>4. /\ n.home = [h.home EXCEPT ![b] = None] /\ n.reg = h.reg /\ n.at = h.at /\ n.ram = h.ram
          /\ n.hit = h.hit /\ n \in Gens(V)
      BY <1>0, <2>1, <3>1 DEF Gens
    <3> HIDE DEF n
    <3>5. k.home = [h.home EXCEPT ![b] = None] /\ k.reg = h.reg /\ k.at = h.at /\ k.ram = h.ram /\ k.hit = h.hit
      BY <2>3, <3>4 DEF Gens
    <3>6. ASSUME NEW c \in AllBytes, o.liveTo[c[1]] >= o.seq PROVE At(k, c) = At(h, c)
      <4>1. c # b /\ c \in Places /\ h.home \in [Places -> Regs \cup {None}]
        BY <1>0, <2>5, <3>6, BytesArePlaces DEF Gens
      <4>2. k.home[c] = h.home[c]
        BY <3>5, <4>1
      <4> QED BY <3>5, <4>2 DEF At
    <3>7. k.hit = {} => h.hit = {} /\ Still(o, w, h, k)
      BY <3>5, <3>6 DEF Still
    <3> QED BY <3>3, <3>7, RightSame
  <2> QED BY <2>4, <2>5
<1> QED BY <1>1, <1>2

(* A register that no symbol has is given to byte b: what it held is lost  *)
(* with it, and whatever b was.                                            *)
LEMMA SettleRight ==
  ASSUME NEW V, NEW D, NEW o, NEW w, NEW h \in Right(V, D, o, w),
         NEW r \in Regs, Vacant(h, D, r),
         NEW x \in Syms, NEW i \in 0 .. MaxSize - 1, NEW k, k = Settled(h, r, x, i)
  PROVE  k \in Right(V, D, o, With(w, <<x, i>>, Junk)) /\ k.hit = h.hit
<1> DEFINE b == <<x, i>>
<1>0. h \in Kept(V, D, o) /\ h \in Gens(V) /\ h.liveTo = o.liveTo /\ h.seq = o.seq
      /\ (h.hit = {} => Means(h, w))
  BY RightIs
<1>1. k \in Kept(V, D, o) /\ Gives(h, k, r, b)
  BY <1>0, SettleKeeps, Zenon
<1>2. k.hit = h.hit /\ k.liveTo = h.liveTo /\ k.seq = h.seq
  <2> DEFINE n == occupy(h, r, x, i)
  <2>1. n.hit = h.hit /\ n.liveTo = h.liveTo /\ n.seq = h.seq /\ DOMAIN n = DOMAIN h
        /\ "home" \in DOMAIN h
    BY <1>0 DEF occupy, Gens
  <2>2. k = [n EXCEPT !.home[<<x, i>>] = r]
    BY DEF Settled
  <2> HIDE DEF n
  <2> QED BY <2>1, <2>2
<1> HIDE DEF b
<1>3. ASSUME k.hit = {}, NEW c \in AllBytes, k.liveTo[c[1]] >= k.seq, With(w, b, Junk)[c] # Junk
      PROVE  At(k, c) = With(w, b, Junk)[c]
  <2>1. c # b /\ With(w, b, Junk)[c] = w[c]
    BY <1>3 DEF With
  <2>2. c \in Places
    BY BytesArePlaces
  <2>3. At(k, c) = At(h, c)
    BY <1>1, <2>1, <2>2 DEF At, Gives
  <2> QED BY <1>0, <1>2, <1>3, <2>1, <2>3 DEF Means
<1>4. k.hit = {} => Means(k, With(w, b, Junk))
  BY <1>3 DEF Means
<1> QED BY <1>1, <1>2, <1>4 DEF Right, b

LEMMA AllocateRight ==
  ASSUME NEW V, NEW D, NEW o, NEW w, NEW h \in Right(V, D, o, w),
         NEW x \in Syms, NEW i \in 0 .. MaxSize - 1, NEW k, k = Allocate(h, x, i)
  PROVE  /\ k \in Right(V, D, o, With(w, <<x, i>>, Junk)) /\ (k.hit = {} => h.hit = {})
         /\ h.home[<<x, i>>] = None /\ k.hit = {} /\ <<x, i>> \in AllBytes
            /\ o.liveTo[x] >= o.seq /\ w[<<x, i>>] # Junk =>
            k.at[x] # None /\ k.ram[k.at[x] + i] = w[<<x, i>>]
<1> DEFINE r == Victim(h)
           n == clear(h, r)
           b == <<x, i>>
<1>0. h \in Kept(V, D, o) /\ h \in Gens(V)
  BY RightIs
<1>1. r \in Regs
  BY <1>0, VictimIn
<1>2. k = Settled(n, r, x, i)
  BY DEF Allocate, Settled
<1> HIDE DEF r
<1>3. /\ n \in Right(V, D, o, w) /\ (n.hit = {} => h.hit = {}) /\ n \in Kept(V, D, o)
      /\ \A c \in Places : n.home[c] = h.home[c] \/ (n.home[c] = None /\ h.home[c] = r)
      /\ Vacant(n, D, r)
  <2>1. n \in Right(V, D, o, w) /\ (n.hit = {} => h.hit = {})
    BY <1>1, ClearRight
  <2>2. /\ n \in Kept(V, D, o)
        /\ \A c \in Places : n.home[c] = h.home[c] \/ (n.home[c] = None /\ h.home[c] = r)
        /\ \A c \in Places : c[1] \in D => n.home[c] # r
    BY <1>0, <1>1, ClearKeeps
  <2> QED BY <2>1, <2>2 DEF Vacant
<1> HIDE DEF n
<1>4. k \in Right(V, D, o, With(w, b, Junk)) /\ k.hit = n.hit
  <2>1. n \in Right(V, D, o, w)
    BY <1>3
  <2>2. Vacant(n, D, r)
    BY <1>3
  <2> HIDE DEF b
  <2>3. k \in Right(V, D, o, With(w, <<x, i>>, Junk)) /\ k.hit = n.hit
    BY <1>1, <1>2, <2>1, <2>2, SettleRight
  <2> QED BY <2>3 DEF b
<1>5. Gives(n, k, r, b)
  BY <1>1, <1>2, <1>3, SettleKeeps, Zenon
<1>6. ASSUME h.home[b] = None, k.hit = {}, b \in AllBytes, o.liveTo[x] >= o.seq, w[b] # Junk
      PROVE  k.at[x] # None /\ k.ram[k.at[x] + i] = w[b]
  <2>1. Means(n, w) /\ n.liveTo = o.liveTo /\ n.seq = o.seq
    <3>1. n \in Right(V, D, o, w) /\ n.hit = {}
      BY <1>3, <1>4, <1>6
    <3> QED BY <3>1, RightIs
  <2>2. n.home[b] = None /\ b[1] = x /\ b[2] = i
    BY <1>3, <1>6, BytesArePlaces
  <2>3. At(n, b) = w[b]
    BY <1>6, <2>1, <2>2 DEF Means
  <2>4. n.at[x] # None /\ n.ram[n.at[x] + i] = w[b]
    BY <1>6, <2>2, <2>3 DEF At
  <2> QED BY <1>5, <2>4 DEF Gives
<1> QED BY <1>3, <1>4, <1>6

(* A value is fetched into the register of byte b.                         *)
LEMMA FetchRight ==
  ASSUME NEW V, NEW D, NEW o, Covers(D, o), NEW w, NEW h \in Right(V, D, o, w),
         NEW b \in Places, b[1] \in D, NEW r, r = h.home[b], r \in Regs,
         NEW y \in Syms, NEW j \in 0 .. MaxSize - 1, h.at[y] # None,
         NEW u, Says(o, h, b, u, h.ram[h.at[y] + j]), NEW k, k = fetchVariable(h, y, j, r)
  PROVE  k \in Right(V, D, o, With(w, b, u)) /\ k.hit = h.hit
<1> DEFINE c == h.at[y] + j
           e == c # h.offset \/ j > 0
           q == MoveSP(h, c, e)
<1>0. h \in Kept(V, D, o) /\ h \in Gens(V) /\ Framed(h)
  BY RightIs
<1>1. c \in Cells /\ e \in BOOLEAN /\ k = [q EXCEPT !.reg[r] = h.ram[c]]
  BY <1>0, CellIn DEF fetchVariable
<1>2. Says(o, h, b, u, h.ram[c])
  OBVIOUS
<1> HIDE DEF c, e
<1>3. q \in Right(V, D, o, w)
  BY <1>1, MoveSPRight
<1>4. q.home = h.home /\ q.hit = h.hit /\ q \in Kept(V, D, o)
  BY <1>0, <1>1, MoveSPKeeps
<1> HIDE DEF q
<1>5. k = [q EXCEPT !.reg[q.home[b]] = h.ram[c]] /\ h.ram[c] \in V \cup {Junk} /\ q.home[b] # None
  BY <1>0, <1>1, <1>4, RegsAssumption DEF Gens, Regs
<1>6. Says(o, q, b, u, h.ram[c])
  BY <1>2, <1>4 DEF Says
<1>7. k \in Right(V, D, o, With(w, b, u))
  BY <1>3, <1>5, <1>6, RegRight, Zenon
<1>8. k.hit = q.hit
  BY <1>4, <1>5 DEF Kept, Gens
<1> QED BY <1>4, <1>7, <1>8

(* Printing an operand changes no value.                                   *)
LEMMA TouchRight ==
  ASSUME NEW V, NEW D, NEW o, Covers(D, o), NEW w, NEW h \in Right(V, D, o, w),
         NEW x \in Syms, x \in D, NEW i \in 0 .. MaxSize - 1, NEW k, k = Touch(h, x, i)
  PROVE  k \in Right(V, D, o, w) /\ (k.hit = {} => h.hit = {})
<1> DEFINE b == <<x, i>>
           m == Allocate(h, x, i)
           w1 == With(w, b, Junk)
           u == IF b \in AllBytes THEN w[b] ELSE Junk
<1>0. h \in Kept(V, D, o) /\ h \in Gens(V) /\ b \in Places /\ b[1] = x /\ b[2] = i
  BY RightIs, BytesArePlaces
<1>1. CASE h.home[<<x, i>>] # None
  BY <1>1 DEF Touch
<1>2. CASE h.home[<<x, i>>] = None
  <2>1. k = IF m.at[x] # None THEN fetchVariable(m, x, i, m.home[b]) ELSE m
    BY <1>2 DEF Touch
  <2>2. /\ m \in Right(V, D, o, w1) /\ (m.hit = {} => h.hit = {})
        /\ m.hit = {} /\ b \in AllBytes /\ o.liveTo[x] >= o.seq /\ w[b] # Junk =>
            m.at[x] # None /\ m.ram[m.at[x] + i] = w[b]
    BY <1>2, AllocateRight
  <2>3. m \in Kept(V, D, o) /\ m.home[b] \in Regs
    BY <1>0, AllocateKeeps
  <2> HIDE DEF m
  <2>4. CASE m.at[x] # None
    <3>1. Says(o, m, b, u, m.ram[m.at[x] + i])
      BY <1>0, <2>2 DEF Says
    <3>2. k = fetchVariable(m, x, i, m.home[b]) /\ m \in Right(V, D, o, w1) /\ b[1] \in D
      BY <1>0, <2>1, <2>2, <2>4
    <3> HIDE DEF u, b, w1
    <3>3. k \in Right(V, D, o, With(w1, b, u)) /\ k.hit = m.hit
      BY <1>0, <2>3, <2>4, <3>1, <3>2, FetchRight, SMTT(30)
    <3>4. Within(o, w, With(w1, b, u))
      BY DEF Within, With, w1, u
    <3> QED BY <2>2, <3>3, <3>4, RightWeak
  <2>5. CASE m.at[x] = None
    <3>1. m.hit = {} => Within(o, w, w1)
      BY <1>0, <2>2, <2>5 DEF Within, With
    <3> HIDE DEF w1
    <3> QED BY <2>1, <2>2, <2>5, <3>1, RightWeak
  <2> QED BY <2>4, <2>5
<1> QED BY <1>1, <1>2

(* The register of b is still its home in k, unless it is marked.          *)
StillHome(h, k, b) == k.hit = {} => h.hit = {} /\ k.home[b] = h.home[b]

LEMMA TouchNextRight ==
  ASSUME NEW V, NEW D, NEW o, Covers(D, o), NEW w, NEW h \in Right(V, D, o, w), NEW x,
         NEW y \in Syms, y \in D, NEW i \in 0 .. MaxSize - 1, NEW k, k = TouchNext(h, x, y, i)
  PROVE  k \in Right(V, D, o, w) /\ StillHome(h, k, <<x, i>>)
<1> DEFINE m == Touch(h, y, i)
           n == [m EXCEPT !.hit = m.hit \cup {"operand evicted"}]
<1>1. m \in Right(V, D, o, w) /\ (m.hit = {} => h.hit = {})
  BY TouchRight
<1>2. k = IF m.home[<<x, i>>] = h.home[<<x, i>>] THEN m ELSE n
  BY DEF TouchNext
<1> HIDE DEF m
<1>3. n \in Right(V, D, o, w) /\ n.hit # {}
  <2>1. "operand evicted" \in Reasons
    BY DEF Reasons
  <2> QED BY <1>1, <2>1, NoteRight
<1> HIDE DEF n
<1> QED BY <1>1, <1>2, <1>3 DEF StillHome
-----------------------------------------------------------------------------
(* Instructions of one byte.                                               *)
LEMMA EmitRight ==
  ASSUME NEW V, NEW D, NEW o, Covers(D, o), NEW w, NEW h \in Right(V, D, o, w),
         NEW x \in Syms, x \in D, NEW i \in 0 .. MaxSize - 1, h.home[<<x, i>>] \in Regs,
         NEW v \in V \cup {Junk}, NEW u,
         Says(o, h, <<x, i>>, u, v),
         NEW k, k = Emit(h, h.home[<<x, i>>], v)
  PROVE  k \in Right(V, D, o, With(w, <<x, i>>, u)) /\ k.hit = h.hit
<1> DEFINE b == <<x, i>>
<1>1. b \in Places /\ b[1] = x /\ b[2] = i /\ h.home[b] # None
  BY BytesArePlaces, RegsAssumption DEF Regs
<1>2. k = [h EXCEPT !.reg[h.home[b]] = v]
  BY DEF Emit
<1>3. Says(o, h, b, u, v)
  OBVIOUS
<1>4. b[1] \in D
  BY <1>1
<1>5. k.hit = h.hit
  BY <1>2, RightIs DEF Gens
<1> HIDE DEF b
<1>6. k \in Right(V, D, o, With(w, b, u))
  BY <1>1, <1>2, <1>3, <1>4, RegRight, Zenon
<1> QED BY <1>5, <1>6 DEF b

LEMMA LoadRight ==
  ASSUME NEW V, NEW D, NEW o, Covers(D, o), NEW w, NEW h \in Right(V, D, o, w),
         NEW x \in Syms, x \in D, NEW y \in Syms, y \in D, o.liveTo[y] >= o.seq,
         NEW i \in Bytes(y), NEW k, k = Load(h, x, y, i)
  PROVE  k \in Right(V, D, o, With(w, <<x, i>>, w[<<y, i>>])) /\ (k.hit = {} => h.hit = {})
<1> DEFINE m == Touch(h, x, i)
           n == TouchNext(m, x, y, i)
           v == n.reg[n.home[<<y, i>>]]
           u == w[<<y, i>>]
<1>0. h \in Kept(V, D, o) /\ i \in 0 .. MaxSize - 1 /\ <<x, i>> \in Places /\ <<y, i>> \in AllBytes
  BY RightIs, BytesArePlaces
<1>1. k = Emit(n, m.home[<<x, i>>], v)
  BY DEF Load
<1>2. m \in Right(V, D, o, w) /\ (m.hit = {} => h.hit = {})
  BY <1>0, TouchRight
<1>3. m \in Kept(V, D, o) /\ m.home[<<x, i>>] \in Regs
  BY <1>0, TouchKeeps
<1> HIDE DEF m
<1>4. n \in Right(V, D, o, w) /\ (n.hit = {} => m.hit = {} /\ n.home[<<x, i>>] = m.home[<<x, i>>])
  <2>1. m \in Right(V, D, o, w)
    BY <1>2
  <2>2. n = TouchNext(m, x, y, i)
    OBVIOUS
  <2> HIDE DEF n
  <2>3. i \in 0 .. MaxSize - 1
    BY <1>0
  <2>4. n \in Right(V, D, o, w) /\ StillHome(m, n, <<x, i>>)
    BY <2>1, <2>2, <2>3, TouchNextRight
  <2> QED BY <2>4 DEF StillHome
<1>5. n \in Kept(V, D, o) /\ n.home[<<y, i>>] \in Regs
  BY <1>0, <1>3, TouchNextKeeps
<1> HIDE DEF n
<1>6. v \in V \cup {Junk}
  BY <1>5 DEF Kept, Gens
<1>7. k \in Kept(V, D, o)
  BY <1>1, <1>3, <1>5, <1>6, EmitKeeps
<1>8. k.hit = n.hit
  BY <1>1, <1>5 DEF Emit, Kept, Gens
<1>9. CASE n.hit = {}
  <2>1. n.home[<<y, i>>] # None /\ <<y, i>>[1] = y
    BY <1>5, RegsAssumption DEF Regs
  <2>2. Means(n, w) /\ n.liveTo = o.liveTo /\ n.seq = o.seq
    BY <1>4, <1>9, RightIs
  <2>3. u \in {v, Junk}
    BY <1>0, <2>1, <2>2 DEF Means, At
  <2> HIDE DEF u, v
  <2>5. Says(o, n, <<x, i>>, u, v) /\ n \in Right(V, D, o, w)
    BY <1>4, <2>3 DEF Says
  <2>6. n.home[<<x, i>>] \in Regs /\ k = Emit(n, n.home[<<x, i>>], v)
    BY <1>1, <1>3, <1>4, <1>9
  <2>4. k \in Right(V, D, o, With(w, <<x, i>>, u))
    BY <1>0, <1>6, <2>5, <2>6, EmitRight
  <2> QED BY <1>2, <1>4, <1>9, <2>4 DEF u
<1>10. CASE n.hit # {}
  BY <1>7, <1>8, <1>10, RightHit
<1> QED BY <1>9, <1>10

LEMMA LoadLitRight ==
  ASSUME NEW V, NEW D, NEW o, Covers(D, o), NEW w, NEW h \in Right(V, D, o, w),
         NEW x \in Syms, x \in D, NEW i \in 0 .. MaxSize - 1, NEW c \in V, NEW k, k = LoadLit(h, x, i, c)
  PROVE  /\ k \in Right(V, D, o, With(w, <<x, i>>, c)) /\ (k.hit = {} => h.hit = {})
         /\ k.home[<<x, i>>] \in Regs /\ k.reg[k.home[<<x, i>>]] = c
<1> DEFINE m == Touch(h, x, i)
<1>0. h \in Kept(V, D, o)
  BY RightIs
<1>1. k = Emit(m, m.home[<<x, i>>], c)
  BY DEF LoadLit
<1>2. m \in Right(V, D, o, w) /\ (m.hit = {} => h.hit = {})
  BY TouchRight
<1>3. m \in Kept(V, D, o) /\ m.home[<<x, i>>] \in Regs
  BY <1>0, TouchKeeps
<1> HIDE DEF m
<1>4. k \in Right(V, D, o, With(w, <<x, i>>, c)) /\ k.hit = m.hit
  <2>1. Says(o, m, <<x, i>>, c, c) /\ m \in Right(V, D, o, w) /\ c \in V \cup {Junk}
    BY <1>2 DEF Says
  <2> QED BY <1>1, <1>3, <2>1, EmitRight
<1>5. k.home[<<x, i>>] = m.home[<<x, i>>] /\ k.reg[m.home[<<x, i>>]] = c
  BY <1>1, <1>3 DEF Emit, Kept, Gens
<1> QED BY <1>2, <1>3, <1>4, <1>5

(* Renaming: x has what y had, and y nothing.                              *)
LEMMA TakeRight ==
  ASSUME NEW V, NEW D, NEW o, NEW w, NEW h \in Right(V, D, o, w),
         NEW x \in Syms, NEW y \in Syms, y \in D, o.liveTo[y] >= o.seq, x # y,
         NEW i \in Bytes(y), h.home[<<y, i>>] # None, NEW k, k = Take(h, x, y, i)
  PROVE  /\ k \in Right(V, D, o, With(With(w, <<x, i>>, w[<<y, i>>]), <<y, i>>, Junk))
         /\ k.hit = h.hit
<1> DEFINE r == h.home[<<y, i>>]
           b == <<x, i>>
           c == <<y, i>>
           m == [h EXCEPT !.home = [[h.home EXCEPT ![b] = r] EXCEPT ![c] = None]]
           W == With(With(w, b, w[c]), c, Junk)
<1>0. h \in Kept(V, D, o) /\ h \in Gens(V) /\ h.liveTo = o.liveTo /\ h.seq = o.seq
      /\ (h.hit = {} => Means(h, w))
  BY RightIs
<1>1. /\ i \in 0 .. MaxSize - 1 /\ b \in Places /\ c \in AllBytes /\ c \in Places
      /\ b # c /\ c[1] = y /\ b[1] = x
  BY BytesArePlaces
<1>2. k = [m EXCEPT !.bank[r] = IF h.bank[r] = None THEN None ELSE <<x, h.bank[r][2]>>]
  BY DEF Take
<1>3. k \in Kept(V, D, o)
  BY <1>0, <1>1, TakeKeeps
<1>r. r = h.home[c] /\ r # None
  OBVIOUS
<1> HIDE DEF b, c, r
<1>4. /\ k.home = [[h.home EXCEPT ![b] = r] EXCEPT ![c] = None] /\ k.reg = h.reg /\ k.at = h.at
      /\ k.ram = h.ram /\ k.hit = h.hit /\ k.liveTo = h.liveTo /\ k.seq = h.seq
  <2>1. m.home = [[h.home EXCEPT ![b] = r] EXCEPT ![c] = None] /\ m.reg = h.reg /\ m.at = h.at
        /\ m.ram = h.ram /\ m.hit = h.hit /\ m.liveTo = h.liveTo /\ m.seq = h.seq
        /\ "bank" \in DOMAIN m
    BY <1>0 DEF Gens
  <2> HIDE DEF m
  <2> QED BY <1>2, <2>1
<1>5. k.home[b] = r /\ k.home[c] = None /\ \A d \in Places : d # b /\ d # c => k.home[d] = h.home[d]
  BY <1>0, <1>1, <1>4 DEF Gens
<1>6. ASSUME k.hit = {}, NEW d \in AllBytes, k.liveTo[d[1]] >= k.seq, W[d] # Junk
      PROVE  At(k, d) = W[d]
  <2>1. Means(h, w) /\ d \in Places
    BY <1>0, <1>4, <1>6, BytesArePlaces
  <2>2. d # c
    BY <1>6 DEF With
  <2>3. CASE d = b
    <3>1. W[d] = w[c]
      BY <1>1, <1>6, <2>3 DEF With
    <3>2. At(h, c) = w[c]
      BY <1>0, <1>1, <1>6, <2>1, <3>1 DEF Means
    <3>3. At(h, c) = h.reg[r]
      BY <1>r DEF At
    <3>4. At(k, d) = h.reg[r]
      BY <1>4, <1>5, <1>r, <2>3 DEF At
    <3> QED BY <3>1, <3>2, <3>3, <3>4
  <2>4. CASE d # b
    <3>1. W[d] = w[d]
      BY <2>2, <2>4 DEF With
    <3>2. At(k, d) = At(h, d)
      BY <1>4, <1>5, <2>1, <2>2, <2>4 DEF At
    <3> QED BY <1>4, <1>6, <2>1, <3>1, <3>2 DEF Means
  <2> QED BY <2>3, <2>4
<1> HIDE DEF W
<1>7. k.hit = {} => Means(k, W)
  BY <1>6 DEF Means
<1>8. k \in Right(V, D, o, W)
  BY <1>3, <1>7 DEF Right
<1> QED BY <1>4, <1>8 DEF W, b, c
(* Byte i of x and y in a cast, where y is still needed.                   *)
LEMMA CopyByteRight ==
  ASSUME NEW V, NEW D, NEW o, Covers(D, o), NEW w, NEW h \in Right(V, D, o, w),
         NEW x \in Syms, x \in D, NEW y \in Syms, y \in D, o.liveTo[y] >= o.seq, x # y,
         NEW i \in Bytes(y), NEW k, k = CopyByte(h, x, y, i)
  PROVE  k \in Right(V, D, o, With(w, <<x, i>>, w[<<y, i>>]))
<1> DEFINE b == <<x, i>>
           c == <<y, i>>
           m == IF h.home[b] = None THEN Allocate(h, x, i) ELSE h
           r == m.home[b]
           w1 == With(w, b, Junk)
           u == w[c]
           v == m.reg[m.home[c]]
<1>0. /\ h \in Kept(V, D, o) /\ i \in 0 .. MaxSize - 1 /\ b \in Places /\ c \in Places /\ c \in AllBytes
      /\ b # c /\ b[1] = x /\ c[1] = y /\ c[2] = i
  BY RightIs, BytesArePlaces
<1>1. m \in Right(V, D, o, w1)
  <2>1. CASE h.home[b] = None
    BY <1>0, <2>1, AllocateRight
  <2>2. CASE h.home[b] # None
    <3>1. Within(o, w1, w) /\ m = h
      BY <2>2 DEF Within, With
    <3> HIDE DEF w1, m
    <3> QED BY <3>1, RightWeak
  <2> QED BY <2>1, <2>2
<1>2. m \in Kept(V, D, o) /\ r \in Regs
  <2>1. CASE h.home[b] = None
    BY <1>0, <2>1, AllocateKeeps
  <2>2. CASE h.home[b] # None
    BY <1>0, <2>2 DEF Kept, Gens
  <2> QED BY <2>1, <2>2
<1>3. k = IF m.home[c] # None THEN Emit(m, r, v)
          ELSE IF m.at[y] # None THEN fetchVariable(m, y, i, r) ELSE m
  BY DEF CopyByte
<1>4. m.hit = {} => u \in {At(m, c), Junk}
  <2>1. w1[c] = w[c]
    BY <1>0 DEF With
  <2> HIDE DEF m, w1
  <2>2. m.hit = {} => Means(m, w1)
    BY <1>1, RightIs
  <2>3. m.liveTo = o.liveTo /\ m.seq = o.seq
    BY <1>1, RightIs
  <2> QED BY <1>0, <2>1, <2>2, <2>3 DEF Means
<1>5. Within(o, With(w, b, u), With(w1, b, u))
  BY DEF Within, With
<1> HIDE DEF m, w1
<1>6. CASE m.home[c] # None
  <2>1. v \in V \cup {Junk}
    BY <1>0, <1>2, <1>6 DEF Kept, Gens
  <2>2. Says(o, m, b, u, v)
    BY <1>4, <1>6 DEF Says, At
  <2>3. k = Emit(m, m.home[<<x, i>>], v)
    BY <1>3, <1>6
  <2> HIDE DEF v, u
  <2>4. k \in Right(V, D, o, With(w1, <<x, i>>, u))
    BY <1>0, <1>1, <1>2, <2>1, <2>2, <2>3, EmitRight
  <2> QED BY <1>5, <2>4, RightWeak DEF u
<1>7. CASE m.home[c] = None /\ m.at[y] # None
  <2>1. Says(o, m, b, u, m.ram[m.at[y] + i])
    BY <1>0, <1>4, <1>7 DEF Says, At
  <2>2. k = fetchVariable(m, y, i, r) /\ b[1] \in D
    BY <1>0, <1>3, <1>7
  <2> HIDE DEF u, b, c
  <2>3. k \in Right(V, D, o, With(w1, b, u))
    BY <1>0, <1>1, <1>2, <1>7, <2>1, <2>2, FetchRight
  <2> QED BY <1>5, <2>3, RightWeak DEF u, b, c
<1>8. CASE m.home[c] = None /\ m.at[y] = None
  <2>1. At(m, c) = Junk /\ k = m
    BY <1>0, <1>3, <1>8 DEF At
  <2>2. m.hit = {} => Within(o, With(w, b, u), w1)
    BY <1>4, <2>1 DEF Within, With, w1
  <2> HIDE DEF u
  <2> QED BY <1>1, <2>1, <2>2, RightWeak DEF u
<1> QED BY <1>6, <1>7, <1>8

LEMMA CastByteTakes ==
  ASSUME NEW V, NEW D, NEW o, NEW h \in Kept(V, D, o), NEW x \in Syms, NEW y \in Syms,
         y \in D, NEW i \in 0 .. MaxSize - 1, h.home[<<y, i>>] # None
  PROVE  CastByte(h, x, y, i) = Take(h, x, y, i)
<1> DEFINE r == h.home[<<y, i>>]
<1>0. <<x, i>> \in Places /\ <<y, i>> \in Places
  BY BytesArePlaces
<1>1. CastByte(h, x, y, i) = [occupy(h, r, x, i) EXCEPT !.home[<<x, i>>] = r, !.home[<<y, i>>] = None]
  BY DEF CastByte
<1>2. occupy(h, r, x, i) = [h EXCEPT !.bank[r] = <<x, i>>] /\ h.bank[r] = <<y, i>>
  BY <1>0 DEF occupy, Kept, Backed
<1>3. h.bank[r] # None /\ h.bank[r][2] = i
  BY <1>0, <1>2, RegsAssumption DEF Places
<1>4. Take(h, x, y, i) = [h EXCEPT !.home[<<x, i>>] = r, !.home[<<y, i>>] = None, !.bank[r] = <<x, i>>]
  BY <1>3 DEF Take
<1>5. occupy(h, r, x, i) = [h EXCEPT !.bank[r] = <<x, i>>]
  BY <1>2
<1> QED BY <1>1, <1>4, <1>5, ZenonT(60) DEF Kept, Gens

(* ... and where y dies: its register is renamed, or its value fetched.    *)
LEMMA CastByteRight ==
  ASSUME NEW V, NEW D, NEW o, Covers(D, o), NEW w, NEW h \in Right(V, D, o, w),
         NEW x \in Syms, x \in D, NEW y \in Syms, y \in D, o.liveTo[y] >= o.seq, x # y,
         NEW i \in Bytes(y), NEW k, k = CastByte(h, x, y, i)
  PROVE  k \in Right(V, D, o, With(With(w, <<x, i>>, w[<<y, i>>]), <<y, i>>, Junk))
<1> DEFINE b == <<x, i>>
           c == <<y, i>>
           r == h.home[c]
           u == w[c]
           W == With(With(w, b, u), c, Junk)
<1>0. /\ h \in Kept(V, D, o) /\ i \in 0 .. MaxSize - 1 /\ b \in Places /\ c \in Places /\ c \in AllBytes
      /\ b # c /\ b[1] = x /\ c[1] = y /\ c[2] = i
  BY RightIs, BytesArePlaces
<1>1. h.hit = {} => u \in {At(h, c), Junk}
  <2>1. /\ h.hit = {} => Means(h, w)
        /\ h.liveTo = o.liveTo /\ h.seq = o.seq
    BY RightIs
  <2> QED BY <1>0, <2>1 DEF Means
<1>2. Within(o, W, With(w, b, u))
  BY DEF Within, With
<1>3. CASE r # None
  <2>1. k = Take(h, x, y, i)
    BY <1>0, <1>3, CastByteTakes
  <2> QED BY <1>3, <2>1, TakeRight
<1>4. CASE r = None /\ h.at[y] = None
  <2>1. k = h /\ At(h, c) = Junk
    BY <1>0, <1>4 DEF CastByte, At
  <2>2. h.hit = {} => Within(o, W, w)
    BY <1>1, <2>1 DEF Within, With
  <2> HIDE DEF W, u
  <2>3. k \in Right(V, D, o, W)
    BY <2>1, <2>2, RightWeak
  <2> QED BY <2>3 DEF W, u
<1>5. CASE r = None /\ h.at[y] # None /\ h.home[b] # None
  <2>1. k = fetchVariable(h, y, i, h.home[b])
    BY <1>5 DEF CastByte
  <2>2. h.home[b] \in Regs /\ b[1] \in D
    BY <1>0, <1>5 DEF Kept, Gens
  <2>3. Says(o, h, b, u, h.ram[h.at[y] + i])
    BY <1>0, <1>1, <1>5 DEF Says, At
  <2> HIDE DEF u, b, W
  <2>4. k \in Right(V, D, o, With(w, b, u))
    BY <1>0, <1>5, <2>1, <2>2, <2>3, FetchRight
  <2>5. k \in Right(V, D, o, W)
    BY <1>2, <2>4, RightWeak
  <2> QED BY <2>5 DEF W, u, b
<1>6. CASE r = None /\ h.at[y] # None /\ h.home[b] = None
  <2>1. k = [h EXCEPT !.hit = h.hit \cup {"spilled temporary"}]
    BY <1>6 DEF CastByte
  <2>2. "spilled temporary" \in Reasons
    BY DEF Reasons
  <2> HIDE DEF W
  <2>3. k \in Right(V, D, o, W)
    BY <1>0, <2>1, <2>2, MarkedRight, Zenon
  <2> QED BY <2>3 DEF W
<1> QED BY <1>3, <1>4, <1>5, <1>6
-----------------------------------------------------------------------------
(* Loops over the bytes of y that take them into x: the bytes before i are *)
(* in x, and in y too when they were copied.                               *)
Copied(w, x, y, i) ==
  [b \in AllBytes |-> IF b[1] = x /\ b[2] < i THEN w[<<y, b[2]>>] ELSE w[b]]
Moved(w, x, y, i) ==
  [b \in AllBytes |-> IF b[1] = x /\ b[2] < i THEN w[<<y, b[2]>>]
                      ELSE IF b[1] = y /\ b[2] < i THEN Junk ELSE w[b]]

LEMMA MovedFirst ==
  ASSUME NEW w, NEW x, NEW y, NEW o
  PROVE  Within(o, Copied(w, x, y, 0), w) /\ Within(o, Moved(w, x, y, 0), w)
<1>1. \A b \in AllBytes : ~(b[2] < 0)
  BY BytesArePlaces DEF Bytes
<1> QED BY <1>1 DEF Within, Moved, Copied

LEMMA MovedNext ==
  ASSUME NEW w, NEW x \in Syms, NEW y \in Syms, x # y, NEW i \in Bytes(y), NEW o,
         NEW u, u = Moved(w, x, y, i), NEW v, v = Copied(w, x, y, i)
  PROVE  /\ Within(o, Moved(w, x, y, i + 1), With(With(u, <<x, i>>, u[<<y, i>>]), <<y, i>>, Junk))
         /\ Within(o, Moved(w, x, y, i + 1), With(u, <<x, i>>, u[<<y, i>>]))
         /\ Within(o, Copied(w, x, y, i + 1), With(v, <<x, i>>, v[<<y, i>>]))
<1>1. \A b \in AllBytes : b = <<b[1], b[2]>> /\ b[2] \in Nat
  BY BytesArePlaces
<1>2. <<y, i>> \in AllBytes /\ i \in Nat
  BY BytesArePlaces DEF Bytes
<1>3. \A b \in AllBytes : b[2] < i + 1 <=> b[2] < i \/ b[2] = i
  BY <1>1, <1>2
<1>4. u[<<y, i>>] = w[<<y, i>>] /\ v[<<y, i>>] = w[<<y, i>>]
  BY <1>2 DEF Moved, Copied
<1>5. \A b \in AllBytes : b = <<x, i>> <=> b[1] = x /\ b[2] = i
  BY <1>1
<1>6. \A b \in AllBytes : b = <<y, i>> <=> b[1] = y /\ b[2] = i
  BY <1>1
<1>7. ASSUME NEW b \in AllBytes
      PROVE  /\ Copied(w, x, y, i + 1)[b] = With(v, <<x, i>>, v[<<y, i>>])[b]
             /\ Moved(w, x, y, i + 1)[b] \in {Junk, With(u, <<x, i>>, u[<<y, i>>])[b]}
             /\ Moved(w, x, y, i + 1)[b] = With(With(u, <<x, i>>, u[<<y, i>>]), <<y, i>>, Junk)[b]
  <2>1. CASE b[1] = x /\ b[2] = i
    BY <1>3, <1>4, <1>5, <1>6, <2>1 DEF Moved, Copied, With
  <2>2. CASE b[1] = y /\ b[2] = i
    BY <1>3, <1>4, <1>5, <1>6, <2>2 DEF Moved, Copied, With
  <2>3. CASE ~(b[1] = x /\ b[2] = i) /\ ~(b[1] = y /\ b[2] = i)
    BY <1>3, <1>4, <1>5, <1>6, <2>3 DEF Moved, Copied, With
  <2> QED BY <2>1, <2>2, <2>3
<1> QED BY <1>7 DEF Within

(* What a loop over the bytes of y starts from.                            *)
LEMMA MovedStart ==
  ASSUME NEW V, NEW D, NEW o, NEW w, NEW h \in Right(V, D, o, w), NEW x, NEW y
  PROVE  h \in Right(V, D, o, Copied(w, x, y, 0)) /\ h \in Right(V, D, o, Moved(w, x, y, 0))
<1>1. Within(o, Copied(w, x, y, 0), w) /\ Within(o, Moved(w, x, y, 0), w)
  BY MovedFirst
<1> QED BY <1>1, RightWeak

LEMMA LoadsRight ==
  ASSUME NEW V, NEW D, NEW o, Covers(D, o), NEW w, NEW h \in Right(V, D, o, w),
         NEW x \in Syms, x \in D, NEW y \in Syms, y \in D, o.liveTo[y] >= o.seq, x # y
  PROVE  Loads(h, x, y, SizeOf[y]) \in Right(V, D, o, Copied(w, x, y, SizeOf[y]))
<1> DEFINE n == SizeOf[y]
           R(j) == Right(V, D, o, Copied(w, x, y, j))
           K == [j \in 0 .. n |-> R(j)]
<1>0. n \in Nat /\ Bytes(y) = 0 .. n - 1
  BY BytesArePlaces DEF Bytes
<1>1. h \in R(0)
  BY MovedStart
<1>2. ASSUME NEW i \in Bytes(y), NEW k \in R(i) PROVE Load(k, x, y, i) \in R(i + 1)
  <2> DEFINE u == Copied(w, x, y, i)
             z == Load(k, x, y, i)
  <2>1. z \in Right(V, D, o, With(u, <<x, i>>, u[<<y, i>>]))
    BY LoadRight
  <2>2. Within(o, Copied(w, x, y, i + 1), With(u, <<x, i>>, u[<<y, i>>]))
    BY MovedNext
  <2> HIDE DEF z, u
  <2> QED BY <2>1, <2>2, RightWeak DEF z
<1>3. Loads(h, x, y, n) \in R(n)
  <2> HIDE DEF n, R
  <2>1. h \in K[0] /\ K[n] = R(n) /\ \A i \in 0 .. n - 1 : K[i] = R(i) /\ K[i + 1] = R(i + 1)
    BY <1>0, <1>1
  <2>2. \A i \in 0 .. n - 1 : \A k \in K[i] : Load(k, x, y, i) \in K[i + 1]
    BY <1>0, <1>2, <2>1
  <2> HIDE DEF K
  <2>3. Loads(h, x, y, n) \in K[n]
    BY <1>0, <2>1, <2>2, LoadsReach
  <2> QED BY <2>1, <2>3
<1> QED BY <1>3

LEMMA MoveByteRight ==
  ASSUME NEW V, NEW D, NEW o, NEW w, NEW h \in Right(V, D, o, w),
         NEW x \in Syms, NEW y \in Syms, y \in D, o.liveTo[y] >= o.seq, x # y,
         NEW i \in Bytes(y), NEW k, k = MoveByte(h, x, y, i)
  PROVE  k \in Right(V, D, o, With(With(w, <<x, i>>, w[<<y, i>>]), <<y, i>>, Junk))
<1>1. CASE h.home[<<y, i>>] = None
  <2>1. k = [h EXCEPT !.hit = h.hit \cup {"spilled temporary"}] /\ "spilled temporary" \in Reasons
    BY <1>1 DEF MoveByte, Reasons
  <2>2. h \in Kept(V, D, o)
    BY RightIs
  <2> QED BY <2>1, <2>2, MarkedRight, Zenon
<1>2. CASE h.home[<<y, i>>] # None
  BY <1>2, TakeRight DEF MoveByte
<1> QED BY <1>1, <1>2

LEMMA MovesRight ==
  ASSUME NEW V, NEW D, NEW o, Covers(D, o), NEW w, NEW h \in Right(V, D, o, w),
         NEW x \in Syms, x \in D, NEW y \in Syms, y \in D, o.liveTo[y] >= o.seq, x # y
  PROVE  Moves(h, x, y, SizeOf[y]) \in Right(V, D, o, Moved(w, x, y, SizeOf[y]))
<1> DEFINE n == SizeOf[y]
           R(j) == Right(V, D, o, Moved(w, x, y, j))
           K == [j \in 0 .. n |-> R(j)]
<1>0. n \in Nat /\ Bytes(y) = 0 .. n - 1
  BY BytesArePlaces DEF Bytes
<1>1. h \in R(0)
  BY MovedStart
<1>2. ASSUME NEW i \in Bytes(y), NEW k \in R(i) PROVE MoveByte(k, x, y, i) \in R(i + 1)
  <2> DEFINE u == Moved(w, x, y, i)
             z == MoveByte(k, x, y, i)
  <2>1. z \in Right(V, D, o, With(With(u, <<x, i>>, u[<<y, i>>]), <<y, i>>, Junk))
    BY MoveByteRight
  <2>2. Within(o, Moved(w, x, y, i + 1), With(With(u, <<x, i>>, u[<<y, i>>]), <<y, i>>, Junk))
    BY MovedNext
  <2> HIDE DEF z, u
  <2> QED BY <2>1, <2>2, RightWeak DEF z
<1>3. Moves(h, x, y, n) \in R(n)
  <2> HIDE DEF n, R
  <2>1. h \in K[0] /\ K[n] = R(n) /\ \A i \in 0 .. n - 1 : K[i] = R(i) /\ K[i + 1] = R(i + 1)
    BY <1>0, <1>1
  <2>2. \A i \in 0 .. n - 1 : \A k \in K[i] : MoveByte(k, x, y, i) \in K[i + 1]
    BY <1>0, <1>2, <2>1
  <2> HIDE DEF K
  <2>3. Moves(h, x, y, n) \in K[n]
    BY <1>0, <2>1, <2>2, MovesReach
  <2> QED BY <2>1, <2>3
<1> QED BY <1>3

LEMMA LeftsKeepingRight ==
  ASSUME NEW V, NEW D, NEW o, Covers(D, o), NEW w, NEW h \in Right(V, D, o, w),
         NEW x \in Syms, x \in D, NEW y \in Syms, y \in D, o.liveTo[y] >= o.seq, x # y,
         ~Dying(o, y)
  PROVE  Lefts(h, x, y, SizeOf[y]) \in Right(V, D, o, Copied(w, x, y, SizeOf[y]))
<1> DEFINE n == SizeOf[y]
           R(j) == Right(V, D, o, Copied(w, x, y, j))
           K == [j \in 0 .. n |-> R(j)]
<1>0. n \in Nat /\ Bytes(y) = 0 .. n - 1
  BY BytesArePlaces DEF Bytes
<1>1. h \in R(0)
  BY MovedStart
<1>2. ASSUME NEW i \in Bytes(y), NEW k \in R(i) PROVE LeftByte(k, x, y, i) \in R(i + 1)
  <2> DEFINE u == Copied(w, x, y, i)
             z == LeftByte(k, x, y, i)
  <2>0. k.liveTo = o.liveTo /\ k.seq = o.seq
    BY RightIs
  <2>1. z \in Right(V, D, o, With(u, <<x, i>>, u[<<y, i>>]))
    <3>1. z = Load(k, x, y, i)
      BY <2>0 DEF LeftByte, Dying
    <3> HIDE DEF z
    <3> QED BY <3>1, LoadRight
  <2>2. Within(o, Copied(w, x, y, i + 1), With(u, <<x, i>>, u[<<y, i>>]))
    BY MovedNext
  <2> HIDE DEF z, u
  <2> QED BY <2>1, <2>2, RightWeak DEF z
<1>3. Lefts(h, x, y, n) \in R(n)
  <2> HIDE DEF n, R
  <2>1. h \in K[0] /\ K[n] = R(n) /\ \A i \in 0 .. n - 1 : K[i] = R(i) /\ K[i + 1] = R(i + 1)
    BY <1>0, <1>1
  <2>2. \A i \in 0 .. n - 1 : \A k \in K[i] : LeftByte(k, x, y, i) \in K[i + 1]
    BY <1>0, <1>2, <2>1
  <2> HIDE DEF K
  <2>3. Lefts(h, x, y, n) \in K[n]
    BY <1>0, <2>1, <2>2, LeftsReach
  <2> QED BY <2>1, <2>3
<1> QED BY <1>3

LEMMA LeftsGivingRight ==
  ASSUME NEW V, NEW D, NEW o, Covers(D, o), NEW w, NEW h \in Right(V, D, o, w),
         NEW x \in Syms, x \in D, NEW y \in Syms, y \in D, o.liveTo[y] >= o.seq, x # y,
         Dying(o, y)
  PROVE  Lefts(h, x, y, SizeOf[y]) \in Right(V, D, o, Moved(w, x, y, SizeOf[y]))
<1> DEFINE n == SizeOf[y]
           R(j) == Right(V, D, o, Moved(w, x, y, j))
           K == [j \in 0 .. n |-> R(j)]
<1>0. n \in Nat /\ Bytes(y) = 0 .. n - 1
  BY BytesArePlaces DEF Bytes
<1>1. h \in R(0)
  BY MovedStart
<1>2. ASSUME NEW i \in Bytes(y), NEW k \in R(i) PROVE LeftByte(k, x, y, i) \in R(i + 1)
  <2> DEFINE u == Moved(w, x, y, i)
             z == LeftByte(k, x, y, i)
  <2>1. k.liveTo = o.liveTo /\ k.seq = o.seq
    BY RightIs
  <2>2. z = IF k.home[<<y, i>>] # None THEN Take(k, x, y, i) ELSE Load(k, x, y, i)
    BY <2>1 DEF LeftByte, Dying
  <2> HIDE DEF z
  <2>3. CASE k.home[<<y, i>>] # None
    <3>1. z \in Right(V, D, o, With(With(u, <<x, i>>, u[<<y, i>>]), <<y, i>>, Junk))
      BY <2>2, <2>3, TakeRight
    <3>2. Within(o, Moved(w, x, y, i + 1), With(With(u, <<x, i>>, u[<<y, i>>]), <<y, i>>, Junk))
      BY MovedNext
    <3> HIDE DEF u
    <3> QED BY <3>1, <3>2, RightWeak DEF z
  <2>4. CASE k.home[<<y, i>>] = None
    <3>1. z \in Right(V, D, o, With(u, <<x, i>>, u[<<y, i>>]))
      BY <2>2, <2>4, LoadRight
    <3>2. Within(o, Moved(w, x, y, i + 1), With(u, <<x, i>>, u[<<y, i>>]))
      BY MovedNext
    <3> HIDE DEF u
    <3> QED BY <3>1, <3>2, RightWeak DEF z
  <2> QED BY <2>3, <2>4 DEF z
<1>3. Lefts(h, x, y, n) \in R(n)
  <2> HIDE DEF n, R
  <2>1. h \in K[0] /\ K[n] = R(n) /\ \A i \in 0 .. n - 1 : K[i] = R(i) /\ K[i + 1] = R(i + 1)
    BY <1>0, <1>1
  <2>2. \A i \in 0 .. n - 1 : \A k \in K[i] : LeftByte(k, x, y, i) \in K[i + 1]
    BY <1>0, <1>2, <2>1
  <2> HIDE DEF K
  <2>3. Lefts(h, x, y, n) \in K[n]
    BY <1>0, <2>1, <2>2, LeftsReach
  <2> QED BY <2>1, <2>3
<1> QED BY <1>3

LEMMA CopiesRight ==
  ASSUME NEW V, NEW D, NEW o, Covers(D, o), NEW w, NEW h \in Right(V, D, o, w),
         NEW x \in Syms, x \in D, NEW y \in Syms, y \in D, o.liveTo[y] >= o.seq, x # y
  PROVE  Copies(h, x, y, SizeOf[y]) \in Right(V, D, o, Copied(w, x, y, SizeOf[y]))
<1> DEFINE n == SizeOf[y]
           R(j) == Right(V, D, o, Copied(w, x, y, j))
           K == [j \in 0 .. n |-> R(j)]
<1>0. n \in Nat /\ Bytes(y) = 0 .. n - 1
  BY BytesArePlaces DEF Bytes
<1>1. h \in R(0)
  BY MovedStart
<1>2. ASSUME NEW i \in Bytes(y), NEW k \in R(i) PROVE CopyByte(k, x, y, i) \in R(i + 1)
  <2> DEFINE u == Copied(w, x, y, i)
             z == CopyByte(k, x, y, i)
  <2>1. z \in Right(V, D, o, With(u, <<x, i>>, u[<<y, i>>]))
    BY CopyByteRight
  <2>2. Within(o, Copied(w, x, y, i + 1), With(u, <<x, i>>, u[<<y, i>>]))
    BY MovedNext
  <2> HIDE DEF z, u
  <2> QED BY <2>1, <2>2, RightWeak DEF z
<1>3. Copies(h, x, y, n) \in R(n)
  <2> HIDE DEF n, R
  <2>1. h \in K[0] /\ K[n] = R(n) /\ \A i \in 0 .. n - 1 : K[i] = R(i) /\ K[i + 1] = R(i + 1)
    BY <1>0, <1>1
  <2>2. \A i \in 0 .. n - 1 : \A k \in K[i] : CopyByte(k, x, y, i) \in K[i + 1]
    BY <1>0, <1>2, <2>1
  <2> HIDE DEF K
  <2>3. Copies(h, x, y, n) \in K[n]
    BY <1>0, <2>1, <2>2, CopiesReach
  <2> QED BY <2>1, <2>3
<1> QED BY <1>3

LEMMA CastsRight ==
  ASSUME NEW V, NEW D, NEW o, Covers(D, o), NEW w, NEW h \in Right(V, D, o, w),
         NEW x \in Syms, x \in D, NEW y \in Syms, y \in D, o.liveTo[y] >= o.seq, x # y
  PROVE  Casts(h, x, y, SizeOf[y]) \in Right(V, D, o, Moved(w, x, y, SizeOf[y]))
<1> DEFINE n == SizeOf[y]
           R(j) == Right(V, D, o, Moved(w, x, y, j))
           K == [j \in 0 .. n |-> R(j)]
<1>0. n \in Nat /\ Bytes(y) = 0 .. n - 1
  BY BytesArePlaces DEF Bytes
<1>1. h \in R(0)
  BY MovedStart
<1>2. ASSUME NEW i \in Bytes(y), NEW k \in R(i) PROVE CastByte(k, x, y, i) \in R(i + 1)
  <2> DEFINE u == Moved(w, x, y, i)
             z == CastByte(k, x, y, i)
  <2>1. z \in Right(V, D, o, With(With(u, <<x, i>>, u[<<y, i>>]), <<y, i>>, Junk))
    BY CastByteRight
  <2>2. Within(o, Moved(w, x, y, i + 1), With(With(u, <<x, i>>, u[<<y, i>>]), <<y, i>>, Junk))
    BY MovedNext
  <2> HIDE DEF z, u
  <2> QED BY <2>1, <2>2, RightWeak DEF z
<1>3. Casts(h, x, y, n) \in R(n)
  <2> HIDE DEF n, R
  <2>1. h \in K[0] /\ K[n] = R(n) /\ \A i \in 0 .. n - 1 : K[i] = R(i) /\ K[i + 1] = R(i + 1)
    BY <1>0, <1>1
  <2>2. \A i \in 0 .. n - 1 : \A k \in K[i] : CastByte(k, x, y, i) \in K[i + 1]
    BY <1>0, <1>2, <2>1
  <2> HIDE DEF K
  <2>3. Casts(h, x, y, n) \in K[n]
    BY <1>0, <2>1, <2>2, CastsReach
  <2> QED BY <2>1, <2>3
<1> QED BY <1>3

-----------------------------------------------------------------------------
(* Literals: the bytes of x before i are those of c; those from m on and   *)
(* before i are zero.                                                      *)
Written(w, x, c, i) ==
  [b \in AllBytes |-> IF b[1] = x /\ b[2] < i THEN c[b[2]] ELSE w[b]]
Filled(w, x, m, i) ==
  [b \in AllBytes |-> IF b[1] = x /\ m <= b[2] /\ b[2] < i THEN 0 ELSE w[b]]

LEMMA WrittenFirst ==
  ASSUME NEW V, NEW D, NEW o, NEW w, NEW h \in Right(V, D, o, w), NEW x, NEW c, NEW m
  PROVE  h \in Right(V, D, o, Written(w, x, c, 0)) /\ h \in Right(V, D, o, Filled(w, x, m, 0))
<1>1. \A b \in AllBytes : ~(b[2] < 0)
  BY BytesArePlaces DEF Bytes
<1>2. Within(o, Written(w, x, c, 0), w) /\ Within(o, Filled(w, x, m, 0), w)
  BY <1>1 DEF Within, Written, Filled
<1> QED BY <1>2, RightWeak

LEMMA WrittenNext ==
  ASSUME NEW w, NEW x, NEW c, NEW i \in Nat, NEW o
  PROVE  Within(o, Written(w, x, c, i + 1), With(Written(w, x, c, i), <<x, i>>, c[i]))
<1>1. \A b \in AllBytes : b = <<b[1], b[2]>> /\ b[2] \in Nat
  BY BytesArePlaces
<1>2. \A b \in AllBytes : b[2] < i + 1 <=> b[2] < i \/ b[2] = i
  BY <1>1
<1>3. \A b \in AllBytes : b = <<x, i>> <=> b[1] = x /\ b[2] = i
  BY <1>1
<1> QED BY <1>2, <1>3 DEF Written, With, Within

LEMMA FilledNext ==
  ASSUME NEW w, NEW x, NEW m \in Nat, NEW i \in Nat, NEW o
  PROVE  /\ i < m => Within(o, Filled(w, x, m, i + 1), Filled(w, x, m, i))
         /\ i >= m => Within(o, Filled(w, x, m, i + 1), With(Filled(w, x, m, i), <<x, i>>, 0))
<1>1. \A b \in AllBytes : b = <<b[1], b[2]>> /\ b[2] \in Nat
  BY BytesArePlaces
<1>2. \A b \in AllBytes : b[2] < i + 1 <=> b[2] < i \/ b[2] = i
  BY <1>1
<1>3. \A b \in AllBytes : b = <<x, i>> <=> b[1] = x /\ b[2] = i
  BY <1>1
<1>4. ASSUME i < m PROVE Within(o, Filled(w, x, m, i + 1), Filled(w, x, m, i))
  BY <1>1, <1>2, <1>4 DEF Filled, Within
<1>5. ASSUME i >= m PROVE Within(o, Filled(w, x, m, i + 1), With(Filled(w, x, m, i), <<x, i>>, 0))
  BY <1>1, <1>2, <1>3, <1>5 DEF Filled, With, Within
<1> QED BY <1>4, <1>5

LEMMA LoadLitsRight ==
  ASSUME NEW V, NEW D, NEW o, Covers(D, o), NEW w, NEW h \in Right(V, D, o, w),
         NEW x \in Syms, x \in D, NEW c, \A i \in Bytes(x) : c[i] \in V
  PROVE  LoadLits(h, x, c, SizeOf[x]) \in Right(V, D, o, Written(w, x, c, SizeOf[x]))
<1> DEFINE n == SizeOf[x]
           R(j) == Right(V, D, o, Written(w, x, c, j))
           K == [j \in 0 .. n |-> R(j)]
<1>0. n \in Nat /\ Bytes(x) = 0 .. n - 1 /\ Bytes(x) \subseteq 0 .. MaxSize - 1
  BY BytesArePlaces DEF Bytes
<1>1. h \in R(0)
  BY WrittenFirst
<1>2. ASSUME NEW i \in Bytes(x), NEW k \in R(i) PROVE LoadLit(k, x, i, c[i]) \in R(i + 1)
  <2> DEFINE u == Written(w, x, c, i)
             z == LoadLit(k, x, i, c[i])
  <2>0. i \in 0 .. MaxSize - 1 /\ i \in Nat /\ c[i] \in V
    BY <1>0
  <2>1. z \in Right(V, D, o, With(u, <<x, i>>, c[i]))
    BY <2>0, LoadLitRight
  <2>2. Within(o, Written(w, x, c, i + 1), With(u, <<x, i>>, c[i]))
    BY <2>0, WrittenNext
  <2> HIDE DEF z, u
  <2> QED BY <2>1, <2>2, RightWeak DEF z
<1>3. LoadLits(h, x, c, n) \in R(n)
  <2> HIDE DEF n, R
  <2>1. h \in K[0] /\ K[n] = R(n) /\ \A i \in 0 .. n - 1 : K[i] = R(i) /\ K[i + 1] = R(i + 1)
    BY <1>0, <1>1
  <2>2. \A i \in 0 .. n - 1 : \A k \in K[i] : LoadLit(k, x, i, c[i]) \in K[i + 1]
    BY <1>0, <1>2, <2>1
  <2> HIDE DEF K
  <2>3. LoadLits(h, x, c, n) \in K[n]
    BY <1>0, <2>1, <2>2, LoadLitsReach
  <2> QED BY <2>1, <2>3
<1> QED BY <1>3

LEMMA FillsRight ==
  ASSUME NEW V, 0 \in V, NEW D, NEW o, Covers(D, o), NEW w, NEW h \in Right(V, D, o, w),
         NEW x \in Syms, x \in D, NEW m \in Nat
  PROVE  Fills(h, x, m, SizeOf[x]) \in Right(V, D, o, Filled(w, x, m, SizeOf[x]))
<1> DEFINE n == SizeOf[x]
           R(j) == Right(V, D, o, Filled(w, x, m, j))
           K == [j \in 0 .. n |-> R(j)]
<1>0. n \in Nat /\ Bytes(x) = 0 .. n - 1 /\ Bytes(x) \subseteq 0 .. MaxSize - 1
  BY BytesArePlaces DEF Bytes
<1>1. h \in R(0)
  BY WrittenFirst
<1>2. ASSUME NEW i \in Bytes(x), NEW k \in R(i) PROVE FillByte(k, x, m, i) \in R(i + 1)
  <2> DEFINE u == Filled(w, x, m, i)
             z == FillByte(k, x, m, i)
  <2>0. i \in 0 .. MaxSize - 1 /\ i \in Nat
    BY <1>0
  <2>1. CASE i < m
    <3>1. z = k
      BY <2>1 DEF FillByte
    <3>2. Within(o, Filled(w, x, m, i + 1), u)
      BY <2>0, <2>1, FilledNext
    <3> HIDE DEF z, u
    <3> QED BY <3>1, <3>2, RightWeak DEF u, z
  <2>2. CASE i >= m
    <3>0. z = LoadLit(k, x, i, 0)
      BY <2>0, <2>2 DEF FillByte
    <3> HIDE DEF z
    <3>1. z \in Right(V, D, o, With(u, <<x, i>>, 0))
      BY <2>0, <3>0, LoadLitRight
    <3>2. Within(o, Filled(w, x, m, i + 1), With(u, <<x, i>>, 0))
      BY <2>0, <2>2, FilledNext
    <3> HIDE DEF u
    <3> QED BY <3>1, <3>2, RightWeak DEF z
  <2> QED BY <2>0, <2>1, <2>2
<1>3. Fills(h, x, m, n) \in R(n)
  <2> HIDE DEF n, R
  <2>1. h \in K[0] /\ K[n] = R(n) /\ \A i \in 0 .. n - 1 : K[i] = R(i) /\ K[i + 1] = R(i + 1)
    BY <1>0, <1>1
  <2>2. \A i \in 0 .. n - 1 : \A k \in K[i] : FillByte(k, x, m, i) \in K[i + 1]
    BY <1>0, <1>2, <2>1, ZenonT(60)
  <2> HIDE DEF K
  <2>3. Fills(h, x, m, n) \in K[n]
    BY <1>0, <2>1, <2>2, FillsReach
  <2> QED BY <2>1, <2>3
<1> QED BY <1>3
-----------------------------------------------------------------------------
(* Operations.                                                             *)
LEMMA NeedsRight ==
  ASSUME NEW V, NEW D, NEW o, NEW w, NEW h \in Right(V, D, o, w), NEW op, NEW i, NEW cy,
         NEW k, k = Needs(h, op, i, cy)
  PROVE  /\ k \in Right(V, D, o, w)
         /\ (k.hit = {} => k = h /\ (i > 0 /\ op \in Arith => h.carry = cy))
<1> DEFINE n == [h EXCEPT !.hit = h.hit \cup {"carry lost"}]
<1>1. k = IF i > 0 /\ op \in Arith /\ h.carry # cy THEN n ELSE h
  BY DEF Needs
<1>2. n \in Right(V, D, o, w) /\ n.hit # {}
  <2>1. "carry lost" \in Reasons
    BY DEF Reasons
  <2> QED BY <2>1, NoteRight
<1> HIDE DEF n
<1> QED BY <1>1, <1>2

(* The carry an instruction for byte i takes.                              *)
Taken(h, op, i) == IF i > 0 /\ op \in Arith THEN h.carry ELSE 0

(* The carry is c after an instruction, unless it is marked.               *)
Carried(h, k, c) == k.hit = {} => h.hit = {} /\ k.carry = c

LEMMA ExecuteRight ==
  ASSUME NEW V \in SUBSET Nat, Byte \subseteq V, NEW D, NEW o, Covers(D, o), NEW w,
         NEW h \in Right(V, D, o, w), NEW op \in Ops,
         NEW b \in Places, b[1] \in D, b \in AllBytes, o.liveTo[b[1]] >= o.seq, w[b] # Junk,
         NEW r, r = h.home[b], r \in Regs,
         NEW v \in V \cup {Junk}, NEW i \in Nat, NEW cy, cy = Taken(h, op, i),
         NEW k, k = Execute(h, op, r, v, i)
  PROVE  /\ k \in Right(V, D, o, With(w, b, Result(op, w[b], v, cy)))
         /\ Carried(h, k, Carry(op, w[b], v, cy))
<1> DEFINE e == h.reg[r]
           a == Result(op, e, v, cy)
           c == Carry(op, e, v, cy)
           u == Result(op, w[b], v, cy)
           m == [h EXCEPT !.reg[r] = a]
<1>0. h \in Kept(V, D, o) /\ h \in Gens(V) /\ h.liveTo = o.liveTo /\ h.seq = o.seq
      /\ (h.hit = {} => Means(h, w))
  BY RightIs
<1>1. k = [m EXCEPT !.carry = c]
  BY DEF Execute, Taken
<1>2. r # None
  BY RegsAssumption DEF Regs
<1>3. h.hit = {} => e = w[b]
  BY <1>0, <1>2 DEF Means, At
<1>4. e \in V \cup {Junk} /\ cy \in {0, 1}
  BY <1>0 DEF Gens, Taken
<1> HIDE DEF e
<1>5. a \in V \cup {Junk} /\ c \in {0, 1}
  BY <1>4, ResultIn
<1>6. (h.hit = {} => u = a) /\ (h.hit = {} => c = Carry(op, w[b], v, cy))
  BY <1>3
<1> HIDE DEF a, c, u
<1>7. Says(o, h, b, u, a)
  BY <1>6 DEF Says
<1>8. m = [h EXCEPT !.reg[h.home[b]] = a] /\ h.home[b] # None
  BY <1>2
<1>9. m.hit = h.hit /\ m \in Gens(V)
  BY <1>0, <1>5, <1>8 DEF Gens
<1> HIDE DEF m
<1>10. m \in Right(V, D, o, With(w, b, u))
  BY <1>5, <1>7, <1>8, RegRight, Zenon
<1>11. k \in Right(V, D, o, With(w, b, u))
  BY <1>1, <1>5, <1>10, CarryRight
<1>12. k.hit = m.hit /\ k.carry = c
  BY <1>1, <1>9 DEF Gens
<1> QED BY <1>6, <1>9, <1>11, <1>12 DEF u, Carried

LEMMA OperateRight ==
  ASSUME NEW V \in SUBSET Nat, Byte \subseteq V, NEW D, NEW o, Covers(D, o), NEW w,
         NEW h \in Right(V, D, o, w), NEW op \in Ops,
         NEW x \in Syms, x \in D, o.liveTo[x] >= o.seq,
         NEW z \in Syms, z \in D, o.liveTo[z] >= o.seq, NEW i \in Bytes(x), i \in Bytes(z),
         w[<<x, i>>] # Junk, w[<<z, i>>] # Junk, NEW cy, cy = Taken(h, op, i),
         NEW k, k = Operate(h, op, x, z, i)
  PROVE  /\ k \in Right(V, D, o, With(w, <<x, i>>, Result(op, w[<<x, i>>], w[<<z, i>>], cy)))
         /\ Carried(h, k, Carry(op, w[<<x, i>>], w[<<z, i>>], cy))
<1> DEFINE b == <<x, i>>
           c == <<z, i>>
           m == Touch(h, x, i)
           n == TouchNext(m, x, z, i)
           q == Needs(n, op, i, h.carry)
           r == m.home[b]
           v == n.reg[n.home[c]]
           W == With(w, b, Result(op, w[b], w[c], cy))
           C == Carry(op, w[b], w[c], cy)
<1>0. /\ h \in Kept(V, D, o) /\ i \in 0 .. MaxSize - 1 /\ i \in Nat
      /\ b \in AllBytes /\ c \in AllBytes /\ b \in Places /\ c \in Places
      /\ b[1] = x /\ c[1] = z
  BY RightIs, BytesArePlaces
<1>1. k \in Kept(V, D, o)
  BY <1>0, OperateKeeps
<1>2. CASE op \in Arith /\ x = z
  <2>1. k = [h EXCEPT !.hit = h.hit \cup {"same operand"}]
    BY <1>2 DEF Operate
  <2>2. "same operand" \in Reasons
    BY DEF Reasons
  <2>3. k.hit # {}
    BY <1>0, <2>1 DEF Kept, Gens
  <2> HIDE DEF W
  <2> QED BY <1>1, <2>3, RightHit DEF W, Carried
<1>3. CASE ~(op \in Arith /\ x = z)
  <2>1. k = Execute(q, op, r, v, i)
    BY <1>3 DEF Operate
  <2>2. m \in Right(V, D, o, w) /\ (m.hit = {} => h.hit = {})
    BY <1>0, TouchRight
  <2>3. m \in Kept(V, D, o) /\ r \in Regs
    BY <1>0, TouchKeeps
  <2>m. r = m.home[b]
    OBVIOUS
  <2> HIDE DEF m, r
  <2>4. n \in Right(V, D, o, w) /\ (n.hit = {} => m.hit = {} /\ n.home[b] = r)
    <3>1. n = TouchNext(m, x, z, i) /\ m \in Right(V, D, o, w) /\ i \in 0 .. MaxSize - 1
      BY <1>0, <2>2
    <3> HIDE DEF n
    <3>2. n \in Right(V, D, o, w) /\ StillHome(m, n, <<x, i>>)
      BY <3>1, TouchNextRight
    <3> QED BY <2>m, <3>2 DEF StillHome
  <2>5. n \in Kept(V, D, o) /\ n.home[c] \in Regs
    BY <1>0, <2>3, TouchNextKeeps
  <2> HIDE DEF n
  <2>6. v \in V \cup {Junk}
    BY <2>5 DEF Kept, Gens
  <2>7. n.hit = {} => v = w[c]
    <3>1. n.home[c] # None
      BY <2>5, RegsAssumption DEF Regs
    <3>2. /\ n.hit = {} => Means(n, w)
          /\ n.liveTo = o.liveTo /\ n.seq = o.seq
      BY <2>4, RightIs
    <3> QED BY <1>0, <3>1, <3>2 DEF Means, At
  <2>8. q \in Right(V, D, o, w) /\ (q.hit = {} => q = n /\ (i > 0 /\ op \in Arith => n.carry = h.carry))
    BY <2>4, NeedsRight
  <2>9. q \in Kept(V, D, o)
    BY <2>8, RightIs
  <2>10. k.hit = q.hit
    BY <2>1, <2>9 DEF Execute, Kept, Gens
  <2> HIDE DEF q, v
  <2>11. CASE q.hit = {}
    <3>1. q = n /\ n.hit = {} /\ r = q.home[b] /\ v = w[c] /\ h.hit = {}
      BY <2>2, <2>4, <2>7, <2>8, <2>11
    <3>2. cy = Taken(q, op, i)
      BY <2>8, <2>11, <3>1 DEF Taken
    <3> HIDE DEF b, c
    <3>3. b[1] \in D /\ o.liveTo[b[1]] >= o.seq /\ w[b] # Junk
      BY <1>0 DEF b
    <3>4. q \in Right(V, D, o, w) /\ r = q.home[b] /\ b \in Places /\ b \in AllBytes /\ i \in Nat
      BY <1>0, <2>8, <3>1
    <3>5. k \in Right(V, D, o, With(w, b, Result(op, w[b], v, cy)))
          /\ Carried(q, k, Carry(op, w[b], v, cy))
      BY <2>1, <2>3, <2>6, <3>2, <3>3, <3>4, ExecuteRight
    <3> QED BY <2>11, <3>1, <3>5 DEF b, c, Carried
  <2>12. CASE q.hit # {}
    <3> HIDE DEF W
    <3> QED BY <1>1, <2>10, <2>12, RightHit DEF W, Carried
  <2> QED BY <2>11, <2>12
<1> QED BY <1>2, <1>3

(* A literal is added to, or taken from, byte i; where its byte 0 is zero  *)
(* nothing is, and byte 1 takes no carry.                                  *)
LEMMA OperateLitRight ==
  ASSUME NEW V \in SUBSET Nat, Byte \subseteq V, NEW D, NEW o, Covers(D, o), NEW w,
         NEW h \in Right(V, D, o, w), NEW op \in Ops,
         NEW x \in Syms, x \in D, o.liveTo[x] >= o.seq, NEW i \in Bytes(x),
         w[<<x, i>>] # Junk, NEW c, c[i] \in V,
         ~(op \in Arith /\ i = 0 /\ c[0] = 0),
         NEW cy, cy = IF i = 1 /\ c[0] = 0 THEN 0 ELSE Taken(h, op, i),
         NEW k, k = OperateLit(h, op, x, c, i)
  PROVE  /\ k \in Right(V, D, o, With(w, <<x, i>>, Result(op, w[<<x, i>>], c[i], cy)))
         /\ Carried(h, k, Carry(op, w[<<x, i>>], c[i], cy))
<1> DEFINE b == <<x, i>>
           m == Touch(h, x, i)
           e == IF i = 1 /\ c[0] = 0 THEN 0 ELSE h.carry
           q == Needs(m, op, i, e)
           r == m.home[b]
           v == c[i]
           W == With(w, b, Result(op, w[b], v, cy))
<1>0. /\ h \in Kept(V, D, o) /\ i \in 0 .. MaxSize - 1 /\ i \in Nat
      /\ b \in AllBytes /\ b \in Places /\ b[1] = x
  BY RightIs, BytesArePlaces
<1>1. k \in Kept(V, D, o)
  BY <1>0, OperateLitKeeps
<1>2. k = Execute(q, op, r, v, i)
  BY DEF OperateLit
<1>3. m \in Right(V, D, o, w) /\ (m.hit = {} => h.hit = {})
  BY <1>0, TouchRight
<1>4. m \in Kept(V, D, o) /\ r \in Regs
  BY <1>0, TouchKeeps
<1>m. r = m.home[b]
  OBVIOUS
<1>e. e = IF i = 1 /\ c[0] = 0 THEN 0 ELSE h.carry
  OBVIOUS
<1> HIDE DEF m, r, e
<1>5. q \in Right(V, D, o, w) /\ (q.hit = {} => q = m /\ (i > 0 /\ op \in Arith => m.carry = e))
  BY <1>3, NeedsRight
<1>6. q \in Kept(V, D, o)
  BY <1>5, RightIs
<1>7. k.hit = q.hit
  BY <1>2, <1>6 DEF Execute, Kept, Gens
<1> HIDE DEF q
<1>8. CASE q.hit = {}
  <2>1. q = m /\ r = q.home[b] /\ h.hit = {} /\ v \in V \cup {Junk}
    BY <1>3, <1>5, <1>8, <1>m
  <2>2. cy = Taken(q, op, i)
    BY <1>0, <1>5, <1>8, <1>e, <2>1 DEF Taken
  <2> HIDE DEF b, v
  <2>3. b[1] \in D /\ o.liveTo[b[1]] >= o.seq /\ w[b] # Junk
    BY <1>0 DEF b
  <2>4. q \in Right(V, D, o, w) /\ r = q.home[b] /\ b \in Places /\ b \in AllBytes /\ i \in Nat
        /\ r \in Regs /\ v \in V \cup {Junk}
    BY <1>0, <1>4, <1>5, <2>1
  <2>5. k \in Right(V, D, o, With(w, b, Result(op, w[b], v, cy)))
        /\ Carried(q, k, Carry(op, w[b], v, cy))
    BY <1>2, <2>2, <2>3, <2>4, ExecuteRight
  <2> QED BY <1>8, <2>1, <2>5 DEF b, v, Carried
<1>9. CASE q.hit # {}
  <2> HIDE DEF W
  <2> QED BY <1>1, <1>7, <1>9, RightHit DEF W, Carried
<1> QED BY <1>8, <1>9

LEMMA ResultOf ==
  ASSUME NEW op \in Ops, NEW a, NEW b, NEW p, NEW cy, op \in Arith => cy = p
  PROVE  /\ Result(op, a, b, cy) = Result(op, a, b, p)
         /\ Carry(op, a, b, cy) = Carry(op, a, b, IF op \in Arith THEN p ELSE 0)
BY GenAssumption DEF Result, Carry, Arith

(* The bytes of x one after the other: those before i hold the result, and *)
(* the carry is the one they left.                                         *)
LEMMA OperatesRight ==
  ASSUME NEW V \in SUBSET Nat, Byte \subseteq V, NEW D, NEW o, Covers(D, o), NEW w,
         NEW h \in Right(V, D, o, w), NEW op \in Ops,
         NEW x \in Syms, x \in D, o.liveTo[x] >= o.seq,
         NEW z \in Syms, z \in D, o.liveTo[z] >= o.seq, SizeOf[x] = SizeOf[z],
         NEW a, \A i \in Bytes(x) : a[i] = w[<<x, i>>] /\ a[i] \in Byte,
         NEW b, \A i \in Bytes(x) : b[i] = w[<<z, i>>] /\ b[i] \in Byte,
         NEW M, M = Meaning(op, SizeOf[x], a, b)
  PROVE  Operates(h, op, x, z, SizeOf[x]) \in Right(V, D, o, Written(w, x, M, SizeOf[x]))
<1> DEFINE n == SizeOf[x]
<1>0. n \in Nat /\ Bytes(x) = 0 .. n - 1 /\ Bytes(x) = Bytes(z) /\ Junk \notin Byte
  BY BytesArePlaces, RegsAssumption DEF Bytes, Byte
<1>c. PICK p : Chain(op, n, a, b, p)
  BY <1>0, MeaningChain
<1> DEFINE R(j) == {k \in Right(V, D, o, Written(w, x, M, j)) :
                      k.hit = {} /\ j > 0 /\ op \in Arith => k.carry = p[j]}
           K == [j \in 0 .. n |-> R(j)]
<1>1. h \in R(0)
  <2>1. h \in Right(V, D, o, Written(w, x, M, 0))
    BY WrittenFirst
  <2> QED BY <2>1
<1>2. ASSUME NEW i \in Bytes(x), NEW k \in R(i) PROVE Operate(k, op, x, z, i) \in R(i + 1)
  <2> DEFINE u == Written(w, x, M, i)
             q == Operate(k, op, x, z, i)
             cy == Taken(k, op, i)
             s == Result(op, a[i], b[i], cy)
             d == Carry(op, a[i], b[i], cy)
  <2>0. /\ i \in Nat /\ <<x, i>> \in AllBytes /\ <<z, i>> \in AllBytes /\ k \in Right(V, D, o, u)
        /\ a[i] = w[<<x, i>>] /\ a[i] \in Byte /\ b[i] = w[<<z, i>>] /\ b[i] \in Byte /\ i \in Bytes(z)
    BY <1>0, BytesArePlaces
  <2>1. u[<<x, i>>] = a[i] /\ u[<<z, i>>] = b[i]
    BY <2>0 DEF Written
  <2>2. q \in Right(V, D, o, With(u, <<x, i>>, s)) /\ Carried(k, q, d)
    <3>1. u[<<x, i>>] # Junk /\ u[<<z, i>>] # Junk
      BY <1>0, <2>0, <2>1
    <3> HIDE DEF u, cy, q
    <3>2. q \in Right(V, D, o, With(u, <<x, i>>, Result(op, u[<<x, i>>], u[<<z, i>>], cy)))
          /\ Carried(k, q, Carry(op, u[<<x, i>>], u[<<z, i>>], cy))
      BY <2>0, <3>1, OperateRight DEF q, cy
    <3> QED BY <2>1, <3>2
  <2>3. k.hit = {} => s = M[i] /\ (op \in Arith => d = p[i + 1])
    <3>1. p[0] = 0 /\ M[i] = Result(op, a[i], b[i], p[i])
          /\ p[i + 1] = Carry(op, a[i], b[i], IF op \in Arith THEN p[i] ELSE 0)
      <4>1. i \in 0 .. n - 1 /\ i + 1 \in 1 .. n /\ (i + 1) - 1 = i
        BY <1>0
      <4> QED BY <1>c, <4>1 DEF Chain
    <3>2. k.hit = {} /\ op \in Arith => cy = p[i]
      BY <2>0, <3>1 DEF Taken
    <3> HIDE DEF cy
    <3>3. ASSUME k.hit = {} PROVE s = Result(op, a[i], b[i], p[i])
                                  /\ d = Carry(op, a[i], b[i], IF op \in Arith THEN p[i] ELSE 0)
      BY <3>2, <3>3, ResultOf
    <3> QED BY <3>1, <3>3
  <2>4. Within(o, Written(w, x, M, i + 1), With(u, <<x, i>>, M[i]))
    BY <2>0, WrittenNext
  <2> HIDE DEF u, s, d, q
  <2>5. q.hit = {} => Within(o, Written(w, x, M, i + 1), With(u, <<x, i>>, s))
                      /\ (op \in Arith => q.carry = p[i + 1])
    BY <2>2, <2>3, <2>4 DEF Carried
  <2>6. q \in Right(V, D, o, Written(w, x, M, i + 1))
    BY <2>2, <2>5, RightWeak
  <2> QED BY <2>5, <2>6 DEF q
<1>3. Operates(h, op, x, z, n) \in R(n)
  <2> HIDE DEF n, R
  <2>1. h \in K[0] /\ K[n] = R(n) /\ \A i \in 0 .. n - 1 : K[i] = R(i) /\ K[i + 1] = R(i + 1)
    BY <1>0, <1>1
  <2> HIDE DEF K
  <2>2. ASSUME NEW i \in 0 .. n - 1, NEW k \in K[i] PROVE Operate(k, op, x, z, i) \in K[i + 1]
    <3>1. i \in Bytes(x) /\ k \in R(i)
      BY <1>0, <2>1
    <3>2. Operate(k, op, x, z, i) \in R(i + 1)
      BY <3>1, <1>2
    <3> QED BY <2>1, <3>2
  <2>3. Operates(h, op, x, z, n) \in K[n]
    BY <1>0, <2>1, <2>2, OperatesReach
  <2> QED BY <2>1, <2>3
<1> QED BY <1>3

LEMMA OperateLitsRight ==
  ASSUME NEW V \in SUBSET Nat, Byte \subseteq V, NEW D, NEW o, Covers(D, o), NEW w,
         NEW h \in Right(V, D, o, w), NEW op \in Ops,
         NEW x \in Syms, x \in D, o.liveTo[x] >= o.seq,
         NEW a, \A i \in Bytes(x) : a[i] = w[<<x, i>>] /\ a[i] \in Byte,
         NEW c, \A i \in Bytes(x) : c[i] \in Byte,
         NEW M, M = Meaning(op, SizeOf[x], a, c)
  PROVE  OperateLits(h, op, x, c, SizeOf[x]) \in Right(V, D, o, Written(w, x, M, SizeOf[x]))
<1> DEFINE n == SizeOf[x]
<1>0. n \in Nat /\ Bytes(x) = 0 .. n - 1 /\ Junk \notin Byte
  BY BytesArePlaces, RegsAssumption DEF Bytes, Byte
<1>c. PICK p : Chain(op, n, a, c, p)
  BY <1>0, MeaningChain
<1> DEFINE Z == op \in Arith /\ c[0] = 0
           R(j) == {k \in Right(V, D, o, Written(w, x, M, j)) :
                      k.hit = {} /\ j > 0 /\ op \in Arith /\ ~(j = 1 /\ c[0] = 0) => k.carry = p[j]}
           K == [j \in 0 .. n |-> R(j)]
<1>z. 0 \in Bytes(x) /\ Z => Result(op, a[0], c[0], p[0]) = a[0] /\ p[1] = 0
  <2> SUFFICES ASSUME 0 \in Bytes(x), Z PROVE Result(op, a[0], c[0], p[0]) = a[0] /\ p[1] = 0
    OBVIOUS
  <2>1. a[0] \in 0 .. RADIX - 1 /\ RADIX \in Nat \ {0} /\ a[0] # Junk /\ c[0] # Junk /\ c[0] = 0
    BY <1>0, RegsAssumption DEF Byte
  <2>2. p[0] = 0 /\ p[1] = Carry(op, a[0], c[0], IF op \in Arith THEN p[0] ELSE 0)
    <3>1. 1 \in 1 .. n /\ 1 - 1 = 0
      BY <1>0
    <3> QED BY <1>c, <3>1 DEF Chain
  <2>3. a[0] % RADIX = a[0]
    BY <2>1, ModUnique
  <2>4. a[0] + 0 + 0 = a[0] /\ a[0] - 0 - 0 = a[0] /\ ~(a[0] >= RADIX) /\ ~(a[0] < 0)
    BY <2>1
  <2>5. CASE op = "+"
    BY <2>1, <2>2, <2>3, <2>4, <2>5 DEF Result, Carry, Arith
  <2>6. CASE op = "-"
    BY <2>1, <2>2, <2>3, <2>4, <2>6 DEF Result, Carry, Arith
  <2> QED BY <2>5, <2>6 DEF Arith
<1>1. h \in R(0)
  <2>1. h \in Right(V, D, o, Written(w, x, M, 0))
    BY WrittenFirst
  <2> QED BY <2>1
<1>2. ASSUME NEW i \in Bytes(x), NEW k \in R(i) PROVE OperateLit(k, op, x, c, i) \in R(i + 1)
  <2> DEFINE u == Written(w, x, M, i)
             q == OperateLit(k, op, x, c, i)
             cy == IF i = 1 /\ c[0] = 0 THEN 0 ELSE Taken(k, op, i)
             s == Result(op, a[i], c[i], cy)
             d == Carry(op, a[i], c[i], cy)
  <2>0. /\ i \in Nat /\ <<x, i>> \in AllBytes /\ k \in Right(V, D, o, u) /\ 0 \in Bytes(x)
        /\ a[i] = w[<<x, i>>] /\ a[i] \in Byte /\ c[i] \in Byte
    BY <1>0, BytesArePlaces
  <2>1. u[<<x, i>>] = a[i]
    BY <2>0 DEF Written
  <2>m. p[0] = 0 /\ M[i] = Result(op, a[i], c[i], p[i])
        /\ p[i + 1] = Carry(op, a[i], c[i], IF op \in Arith THEN p[i] ELSE 0)
    <3>1. i \in 0 .. n - 1 /\ i + 1 \in 1 .. n /\ (i + 1) - 1 = i
      BY <1>0
    <3> QED BY <1>c, <3>1 DEF Chain
  <2>2. Within(o, Written(w, x, M, i + 1), With(u, <<x, i>>, M[i]))
    BY <2>0, WrittenNext
  <2>3. CASE op \in Arith /\ i = 0 /\ c[0] = 0
    <3>1. q = k /\ M[i] = u[<<x, i>>]
      BY <1>z, <2>0, <2>1, <2>3, <2>m DEF OperateLit
    <3>2. Within(o, With(u, <<x, i>>, M[i]), u)
      BY <3>1 DEF Within, With
    <3> HIDE DEF u, q
    <3>3. k \in Right(V, D, o, With(u, <<x, i>>, M[i]))
      BY <2>0, <3>2, RightWeak
    <3>4. k \in Right(V, D, o, Written(w, x, M, i + 1))
      BY <2>2, <3>3, RightWeak
    <3> QED BY <2>3, <3>1, <3>4 DEF q
  <2>4. CASE ~(op \in Arith /\ i = 0 /\ c[0] = 0)
    <3>1. q \in Right(V, D, o, With(u, <<x, i>>, s)) /\ Carried(k, q, d)
      <4>1. u[<<x, i>>] # Junk /\ c[i] \in V
        BY <1>0, <2>0, <2>1
      <4> HIDE DEF u, cy, q
      <4>2. q \in Right(V, D, o, With(u, <<x, i>>, Result(op, u[<<x, i>>], c[i], cy)))
            /\ Carried(k, q, Carry(op, u[<<x, i>>], c[i], cy))
        BY <2>0, <2>4, <4>1, OperateLitRight DEF q, cy
      <4> QED BY <2>1, <4>2
    <3>2. k.hit = {} => s = M[i] /\ (op \in Arith => d = p[i + 1])
      <4>1. k.hit = {} /\ op \in Arith => cy = p[i]
        BY <1>z, <2>0, <2>m DEF Taken
      <4> HIDE DEF cy
      <4>2. ASSUME k.hit = {} PROVE s = Result(op, a[i], c[i], p[i])
                                    /\ d = Carry(op, a[i], c[i], IF op \in Arith THEN p[i] ELSE 0)
        BY <4>1, <4>2, ResultOf
      <4> QED BY <2>m, <4>2
    <3> HIDE DEF u, s, d, q
    <3>3. q.hit = {} => Within(o, Written(w, x, M, i + 1), With(u, <<x, i>>, s))
                        /\ (op \in Arith => q.carry = p[i + 1])
      BY <2>2, <3>1, <3>2 DEF Carried
    <3>4. q \in Right(V, D, o, Written(w, x, M, i + 1))
      BY <3>1, <3>3, RightWeak
    <3> QED BY <3>3, <3>4 DEF q
  <2> QED BY <2>3, <2>4
<1>3. OperateLits(h, op, x, c, n) \in R(n)
  <2> HIDE DEF n, R
  <2>1. h \in K[0] /\ K[n] = R(n) /\ \A i \in 0 .. n - 1 : K[i] = R(i) /\ K[i + 1] = R(i + 1)
    BY <1>0, <1>1
  <2> HIDE DEF K
  <2>2. ASSUME NEW i \in 0 .. n - 1, NEW k \in K[i] PROVE OperateLit(k, op, x, c, i) \in K[i + 1]
    <3>1. i \in Bytes(x) /\ k \in R(i)
      BY <1>0, <2>1
    <3>2. OperateLit(k, op, x, c, i) \in R(i + 1)
      BY <3>1, <1>2
    <3> QED BY <2>1, <3>2
  <2>3. OperateLits(h, op, x, c, n) \in K[n]
    BY <1>0, <2>1, <2>2, OperateLitsReach
  <2> QED BY <2>1, <2>3
<1> QED BY <1>3
-----------------------------------------------------------------------------
(* The generated code is right where no hazard was hit.                    *)
Sound == g.hit = {} => Means(g, val)

(* What the handler left, W, is what the program means by all that is read *)
(* by later instructions.                                                  *)
Stands(W) == \A b \in AllBytes : g.liveTo[b[1]] > g.seq /\ val'[b] # Junk => val'[b] = W[b]

LEMMA SoundRight ==
  ASSUME GenInv, Sound
  PROVE  g \in Right(Values, Syms, g, val) /\ Covers(Syms, g)
BY WholeKept DEF GenInv, Sound, Right, Covers

LEMMA GenerateRight ==
  ASSUME GenInv, NEW W, NEW h \in Right(Values, Syms, g, W), Generate(h), Stands(W)
  PROVE  Sound'
<1>1. /\ h \in Gens(Values) /\ h.liveTo = g.liveTo /\ h.seq = g.seq
      /\ (h.hit = {} => Means(h, W))
  BY RightIs
<1>2. g' = [h EXCEPT !.seq = h.seq + 1]
  BY DEF Generate
<1>3. /\ g'.hit = h.hit /\ g'.home = h.home /\ g'.at = h.at /\ g'.reg = h.reg /\ g'.ram = h.ram
      /\ g'.liveTo = g.liveTo /\ g'.seq = g.seq + 1
  BY <1>1, <1>2 DEF Gens
<1>4. ASSUME h.hit = {}, NEW b \in AllBytes, g.liveTo[b[1]] >= g.seq + 1, val'[b] # Junk
      PROVE  At(h, b) = val'[b]
  <2>1. b[1] \in Syms
    BY BytesArePlaces
  <2>2. g.liveTo[b[1]] \in Nat /\ g.seq \in Nat
    BY <2>1 DEF GenInv, Whole, Gens
  <2>3. g.liveTo[b[1]] > g.seq /\ g.liveTo[b[1]] >= g.seq
    BY <1>4, <2>2
  <2>4. val'[b] = W[b]
    BY <1>4, <2>3 DEF Stands
  <2> QED BY <1>1, <1>4, <2>3, <2>4 DEF Means
<1>5. \A b \in AllBytes : At(g', b) = At(h, b)
  BY <1>3 DEF At
<1> QED BY <1>3, <1>4, <1>5 DEF Sound, Means

(* Nothing is said of an instruction of which a hazard was marked.         *)
LEMMA GenerateMarked ==
  ASSUME GenInv, NEW h \in Kept(Values, Syms, g), h.hit # {}, Generate(h)
  PROVE  Sound'
<1>1. h \in Right(Values, Syms, g, val')
  BY RightHit
<1>2. Stands(val')
  BY DEF Stands
<1> QED BY <1>1, <1>2, GenerateRight

LEMMA AssignCodeRight ==
  ASSUME NEW V, NEW D, NEW o, Covers(D, o), NEW w, NEW h \in Right(V, D, o, w),
         NEW x \in Syms, x \in D, NEW y \in Syms, y \in D, o.liveTo[y] >= o.seq, x # y,
         SizeOf[x] = SizeOf[y]
  PROVE  AssignCode(h, x, y) \in Right(V, D, o, IF Dying(o, y) THEN Moved(w, x, y, SizeOf[y])
                                                ELSE Copied(w, x, y, SizeOf[y]))
<1>1. AssignCode(h, x, y) = IF Dying(h, y) THEN Moves(h, x, y, SizeOf[y])
                            ELSE Loads(h, x, y, SizeOf[y])
  BY DEF AssignCode, Moves, MoveByte, Loads, ForBytes
<1>2. Dying(h, y) = Dying(o, y)
  BY RightIs DEF Dying
<1>3. Moves(h, x, y, SizeOf[y]) \in Right(V, D, o, Moved(w, x, y, SizeOf[y]))
  BY MovesRight
<1>4. Loads(h, x, y, SizeOf[y]) \in Right(V, D, o, Copied(w, x, y, SizeOf[y]))
  BY LoadsRight
<1> QED BY <1>1, <1>2, <1>3, <1>4

LEMMA LeftCodeRight ==
  ASSUME NEW V, NEW D, NEW o, Covers(D, o), NEW w, NEW h \in Right(V, D, o, w),
         NEW x \in Syms, x \in D, NEW y \in Syms, y \in D, o.liveTo[y] >= o.seq, x # y
  PROVE  LeftCode(h, x, y) \in Right(V, D, o, IF Dying(o, y) THEN Moved(w, x, y, SizeOf[y])
                                              ELSE Copied(w, x, y, SizeOf[y]))
<1>1. LeftCode(h, x, y) = Lefts(h, x, y, SizeOf[y])
  BY DEF LeftCode, Lefts, LeftByte, ForBytes
<1>2. CASE Dying(o, y)
  BY <1>1, <1>2, LeftsGivingRight
<1>3. CASE ~Dying(o, y)
  BY <1>1, <1>3, LeftsKeepingRight
<1> QED BY <1>2, <1>3

LEMMA CastCodeRight ==
  ASSUME NEW V, 0 \in V, NEW D, NEW o, Covers(D, o), NEW w, NEW h \in Right(V, D, o, w),
         NEW x \in Syms, x \in D, NEW y \in Syms, y \in D, o.liveTo[y] >= o.seq, x # y
  PROVE  CastCode(h, x, y) \in
           Right(V, D, o, Filled(IF Dying(o, y) THEN Moved(w, x, y, SizeOf[y])
                                 ELSE Copied(w, x, y, SizeOf[y]), x, SizeOf[y], SizeOf[x]))
<1> DEFINE m == IF Dying(h, y) THEN Casts(h, x, y, SizeOf[y]) ELSE Copies(h, x, y, SizeOf[y])
           u == IF Dying(o, y) THEN Moved(w, x, y, SizeOf[y]) ELSE Copied(w, x, y, SizeOf[y])
<1>1. CastCode(h, x, y) = Fills(m, x, SizeOf[y], SizeOf[x])
  BY DEF CastCode, Casts, CastByte, Copies, CopyByte, Fills, FillByte, ForBytes
<1>2. Dying(h, y) = Dying(o, y)
  BY RightIs DEF Dying
<1>3. Casts(h, x, y, SizeOf[y]) \in Right(V, D, o, Moved(w, x, y, SizeOf[y]))
  BY CastsRight
<1>4. Copies(h, x, y, SizeOf[y]) \in Right(V, D, o, Copied(w, x, y, SizeOf[y]))
  BY CopiesRight
<1>5. m \in Right(V, D, o, u)
  BY <1>2, <1>3, <1>4
<1>6. SizeOf[y] \in Nat
  BY RegsAssumption
<1> HIDE DEF m, u
<1>7. Fills(m, x, SizeOf[y], SizeOf[x]) \in Right(V, D, o, Filled(u, x, SizeOf[y], SizeOf[x]))
  BY <1>5, <1>6, FillsRight
<1> QED BY <1>1, <1>7 DEF u
(* One lemma for each action.                                              *)
LEMMA AssignRight ==
  ASSUME GenInv, Sound, NEW x \in Syms, NEW y \in Syms, Assign(x, y)
  PROVE  Sound'
<1> DEFINE W == IF Dying(g, y) THEN Moved(val, x, y, SizeOf[y]) ELSE Copied(val, x, y, SizeOf[y])
           h == AssignCode(g, x, y)
<1>1. /\ x # y /\ SizeOf[x] = SizeOf[y] /\ g.liveTo[y] >= g.seq
      /\ Generate(h) /\ val' = Value(val, x, BytesOf(y))
  BY DEF Assign, Readable
<1>2. g \in Right(Values, Syms, g, val) /\ Covers(Syms, g)
  BY SoundRight
<1>3. h \in Right(Values, Syms, g, W)
  BY <1>1, <1>2, AssignCodeRight
<1>4. Stands(W)
  <2> SUFFICES ASSUME NEW b \in AllBytes, g.liveTo[b[1]] > g.seq, val'[b] # Junk
               PROVE  val'[b] = W[b]
    BY DEF Stands
  <2>1. b[1] \in Syms /\ b[2] \in Bytes(b[1]) /\ b = <<b[1], b[2]>>
    BY BytesArePlaces
  <2>2. g.liveTo[b[1]] \in Nat /\ g.seq \in Nat
    BY <2>1 DEF GenInv, Whole, Gens
  <2>3. CASE b[1] = x
    <3>1. b[2] \in Bytes(y) /\ b[2] < SizeOf[y]
      BY <1>1, <2>1, <2>3, RegsAssumption DEF Bytes
    <3>2. val'[b] = val[<<y, b[2]>>]
      BY <1>1, <2>3, <3>1 DEF Value, BytesOf
    <3> QED BY <2>3, <3>1, <3>2 DEF Moved, Copied
  <2>4. CASE b[1] # x
    <3>1. val'[b] = val[b]
      BY <1>1, <2>4 DEF Value
    <3>2. Dying(g, y) => b[1] # y
      BY <2>2 DEF Dying
    <3> QED BY <2>4, <3>1, <3>2 DEF Moved, Copied
  <2> QED BY <2>3, <2>4
<1> HIDE DEF W, h
<1> QED BY <1>1, <1>3, <1>4, GenerateRight

LEMMA AssignLitRight ==
  ASSUME GenInv, Sound, NEW x \in Syms, NEW c \in Literals(x), AssignLit(x, c)
  PROVE  Sound'
<1> DEFINE W == Written(val, x, c, SizeOf[x])
           h == LoadLits(g, x, c, SizeOf[x])
<1>1. Generate(h) /\ val' = Value(val, x, c)
  BY DEF AssignLit, LoadLits, ForBytes
<1>2. g \in Right(Values, Syms, g, val) /\ Covers(Syms, g)
  BY SoundRight
<1>3. \A i \in Bytes(x) : c[i] \in Values
  BY GenAssumption, ValuesAre
<1>4. h \in Right(Values, Syms, g, W)
  BY <1>2, <1>3, LoadLitsRight
<1>5. Stands(W)
  <2> SUFFICES ASSUME NEW b \in AllBytes PROVE val'[b] = W[b]
    BY DEF Stands
  <2>1. b[1] = x => b[2] < SizeOf[x]
    BY BytesArePlaces, RegsAssumption DEF Bytes
  <2> QED BY <1>1, <2>1 DEF Value, Written
<1> HIDE DEF W, h
<1> QED BY <1>1, <1>4, <1>5, GenerateRight

LEMMA CastRight ==
  ASSUME GenInv, Sound, NEW x \in Syms, NEW y \in Syms, Cast(x, y)
  PROVE  Sound'
<1> DEFINE U == IF Dying(g, y) THEN Moved(val, x, y, SizeOf[y]) ELSE Copied(val, x, y, SizeOf[y])
           W == Filled(U, x, SizeOf[y], SizeOf[x])
           v == [i \in Bytes(x) |-> IF i \in Bytes(y) THEN val[<<y, i>>] ELSE 0]
           h == CastCode(g, x, y)
<1>1. x # y /\ g.liveTo[y] >= g.seq /\ Generate(h) /\ val' = Value(val, x, v)
  BY DEF Cast, Readable
<1>2. g \in Right(Values, Syms, g, val) /\ Covers(Syms, g) /\ 0 \in Values
  BY SoundRight, BytesPointNowhere, ValuesAre
<1>3. h \in Right(Values, Syms, g, W)
  BY <1>1, <1>2, CastCodeRight
<1>4. Stands(W)
  <2> SUFFICES ASSUME NEW b \in AllBytes, g.liveTo[b[1]] > g.seq, val'[b] # Junk
               PROVE  val'[b] = W[b]
    BY DEF Stands
  <2>1. b[1] \in Syms /\ b[2] \in Bytes(b[1]) /\ b = <<b[1], b[2]>>
    BY BytesArePlaces
  <2>2. g.liveTo[b[1]] \in Nat /\ g.seq \in Nat
    BY <2>1 DEF GenInv, Whole, Gens
  <2>3. CASE b[1] = x
    <3>1. val'[b] = v[b[2]]
      BY <1>1, <2>3 DEF Value
    <3>2. /\ b[2] \in Nat /\ b[2] < SizeOf[x] /\ SizeOf[y] \in Nat /\ b[2] \in Bytes(x)
          /\ (b[2] \in Bytes(y) <=> b[2] < SizeOf[y])
      BY <2>1, <2>3, RegsAssumption DEF Bytes
    <3>3. CASE b[2] < SizeOf[y]
      BY <2>3, <3>1, <3>2, <3>3 DEF Moved, Copied, Filled
    <3>4. CASE ~(b[2] < SizeOf[y])
      BY <2>3, <3>1, <3>2, <3>4 DEF Filled
    <3> QED BY <3>3, <3>4
  <2>4. CASE b[1] # x
    <3>1. val'[b] = val[b]
      BY <1>1, <2>4 DEF Value
    <3>2. Dying(g, y) => b[1] # y
      BY <2>2 DEF Dying
    <3> QED BY <2>4, <3>1, <3>2 DEF Moved, Copied, Filled
  <2> QED BY <2>3, <2>4
<1> HIDE DEF W, h
<1> QED BY <1>1, <1>3, <1>4, GenerateRight
(* U is what the program means but for x, as far as it is read later.      *)
Rests(U, x) == \A b \in AllBytes : b[1] # x /\ g.liveTo[b[1]] > g.seq => U[b] = val[b]

LEMMA ResultStands ==
  ASSUME NEW x \in Syms, NEW U, Rests(U, x), NEW v, val' = Value(val, x, v)
  PROVE  Stands(Written(U, x, v, SizeOf[x]))
<1> DEFINE W == Written(U, x, v, SizeOf[x])
<1> SUFFICES ASSUME NEW b \in AllBytes, g.liveTo[b[1]] > g.seq, val'[b] # Junk
             PROVE  val'[b] = W[b]
  BY DEF Stands
<1>1. b[1] = x => b[2] < SizeOf[x]
  BY BytesArePlaces, RegsAssumption DEF Bytes
<1> QED BY <1>1 DEF Value, Written, Rests

(* What the left operand leaves in the place of the result.                *)
LEMMA LeftRests ==
  ASSUME GenInv, NEW x \in Syms, NEW y \in Syms, NEW n,
         NEW U, U = (IF Dying(g, y) THEN Moved(val, x, y, n) ELSE Copied(val, x, y, n))
  PROVE  Rests(U, x)
<1> SUFFICES ASSUME NEW b \in AllBytes, b[1] # x, g.liveTo[b[1]] > g.seq PROVE U[b] = val[b]
  BY DEF Rests
<1>1. b[1] \in Syms
  BY BytesArePlaces
<1>2. g.liveTo[b[1]] \in Nat /\ g.seq \in Nat
  BY <1>1 DEF GenInv, Whole, Gens
<1>3. Dying(g, y) => b[1] # y
  BY <1>2 DEF Dying
<1> QED BY <1>3 DEF Moved, Copied

(* A mark made before the bytes are operated on is there after them.       *)
LEMMA OperatesMarked ==
  ASSUME NEW V \in SUBSET Nat, Byte \subseteq V, NEW D, NEW o, Covers(D, o),
         NEW h \in Kept(V, D, o), h.hit # {}, NEW op \in Ops,
         NEW x \in Syms, x \in D, o.liveTo[x] >= o.seq,
         NEW z \in Syms, z \in D, o.liveTo[z] >= o.seq, SizeOf[x] = SizeOf[z]
  PROVE  /\ Operates(h, op, x, z, SizeOf[x]) \in Kept(V, D, o)
         /\ Operates(h, op, x, z, SizeOf[x]).hit # {}
<1> DEFINE n == SizeOf[x]
           R == {k \in Kept(V, D, o) : k.hit # {}}
           K == [j \in 0 .. n |-> R]
<1>1. n \in Nat /\ Bytes(x) = 0 .. n - 1 /\ Bytes(x) = Bytes(z) /\ Junk # 0
  BY RegsAssumption DEF Bytes
<1>2. ASSUME NEW i \in 0 .. n - 1, NEW k \in R PROVE Operate(k, op, x, z, i) \in R
  <2> DEFINE w == [b \in AllBytes |-> 0]
             q == Operate(k, op, x, z, i)
             cy == Taken(k, op, i)
  <2>1. /\ i \in Bytes(x) /\ i \in Bytes(z) /\ w[<<x, i>>] # Junk /\ w[<<z, i>>] # Junk
        /\ k \in Kept(V, D, o) /\ k.hit # {}
    BY <1>1, BytesArePlaces
  <2> HIDE DEF w, n, R, cy, q
  <2>2. k \in Right(V, D, o, w)
    BY <2>1, RightHit
  <2>3. /\ q \in Right(V, D, o, With(w, <<x, i>>, Result(op, w[<<x, i>>], w[<<z, i>>], cy)))
        /\ Carried(k, q, Carry(op, w[<<x, i>>], w[<<z, i>>], cy))
    BY <2>1, <2>2, OperateRight DEF q, cy
  <2>4. q \in Kept(V, D, o) /\ q.hit # {}
    BY <2>1, <2>3, RightIs DEF Carried
  <2> QED BY <2>4 DEF q, R
<1>3. Operates(h, op, x, z, n) \in R
  <2>1. h \in R
    OBVIOUS
  <2> HIDE DEF n, R
  <2>2. h \in K[0] /\ K[n] = R /\ \A i \in 0 .. n - 1 : K[i] = R /\ K[i + 1] = R
    BY <1>1, <2>1
  <2> HIDE DEF K
  <2>3. \A i \in 0 .. n - 1 : \A k \in K[i] : Operate(k, op, x, z, i) \in K[i + 1]
    BY <1>2, <2>2
  <2>4. Operates(h, op, x, z, n) \in K[n]
    BY <1>1, <2>2, <2>3, OperatesReach
  <2> QED BY <2>2, <2>4
<1> QED BY <1>3

LEMMA OperationMarked ==
  ASSUME GenInv, NEW h \in Kept(Values, Syms, g), NEW op \in Ops, NEW x \in Syms, NEW z \in Syms,
         SizeOf[x] = SizeOf[z], g.liveTo[x] >= g.seq, g.liveTo[z] >= g.seq,
         NEW m, m = [h EXCEPT !.hit = h.hit \cup {"same operand"}],
         Generate(Operates(m, op, x, z, SizeOf[x]))
  PROVE  Sound'
<1> DEFINE k == Operates(m, op, x, z, SizeOf[x])
           H == h.hit \cup {"same operand"}
<1>1. H \in Noted /\ H # {}
  BY DEF Kept, Gens, Noted, Reasons
<1>2. m = [h EXCEPT !.hit = H]
  OBVIOUS
<1> HIDE DEF H
<1>3. m \in Kept(Values, Syms, g)
  BY <1>1, <1>2, HitKeeps, Zenon
<1>4. m.hit # {}
  BY <1>1, <1>2 DEF Kept, Gens
<1>5. Covers(Syms, g) /\ Values \in SUBSET Nat /\ Byte \subseteq Values
  BY CoversAll, ValuesAre
<1>6. k \in Kept(Values, Syms, g) /\ k.hit # {}
  BY <1>3, <1>4, <1>5, OperatesMarked
<1>7. Generate(k)
  OBVIOUS
<1> HIDE DEF k
<1> QED BY <1>6, <1>7, GenerateMarked

LEMMA OperationRight ==
  ASSUME GenInv, Sound, NEW op \in Ops, NEW x \in Syms, NEW y \in Syms, NEW z \in Syms,
         Operation(op, x, y, z)
  PROVE  Sound'
<1> DEFINE h == IF x = y THEN g ELSE LeftCode(g, x, y)
           same == x # y /\ (x = z \/ (y = z /\ Dying(g, y)))
           m == IF same THEN [h EXCEPT !.hit = h.hit \cup {"same operand"}] ELSE h
           k == Operates(m, op, x, z, SizeOf[x])
           a == BytesOf(y)
           b == BytesOf(z)
           v == Meaning(op, SizeOf[x], a, b)
           n == SizeOf[y]
           L == IF Dying(g, y) THEN Moved(val, x, y, n) ELSE Copied(val, x, y, n)
           U == IF x = y THEN val ELSE L
<1>1. /\ Generate(k) /\ val' = Value(val, x, v)
      /\ SizeOf[x] = SizeOf[y] /\ SizeOf[y] = SizeOf[z] /\ Number(y) /\ Number(z)
      /\ g.liveTo[x] >= g.seq /\ g.liveTo[y] >= g.seq /\ g.liveTo[z] >= g.seq
  BY DEF Operation, Operates, ForBytes, Number, Readable, Writable
<1>2. g \in Right(Values, Syms, g, val) /\ Covers(Syms, g)
      /\ Values \in SUBSET Nat /\ Byte \subseteq Values
  BY SoundRight, ValuesAre
<1>3. h \in Right(Values, Syms, g, U)
  BY <1>1, <1>2, LeftCodeRight
<1>4. CASE same
  <2> HIDE DEF h, U
  <2>1. h \in Kept(Values, Syms, g)
    BY <1>3, RightIs
  <2>2. /\ m = [h EXCEPT !.hit = h.hit \cup {"same operand"}]
        /\ Generate(Operates(m, op, x, z, SizeOf[x])) /\ SizeOf[x] = SizeOf[z]
    BY <1>1, <1>4
  <2> HIDE DEF m, same
  <2> QED BY <1>1, <2>1, <2>2, OperationMarked
<1>5. CASE ~same
  <2>1. m \in Right(Values, Syms, g, U)
    BY <1>3, <1>5
  <2>2. \A i \in Bytes(x) : /\ <<y, i>> \in AllBytes /\ <<z, i>> \in AllBytes
                            /\ <<x, i>> \in AllBytes /\ i < n
                            /\ a[i] = val[<<y, i>>] /\ b[i] = val[<<z, i>>]
                            /\ a[i] \in Byte /\ b[i] \in Byte
    <3> HIDE DEF h, same, m, k, v, L, U
    <3>1. Bytes(x) = Bytes(y) /\ Bytes(x) = Bytes(z) /\ Bytes(x) = 0 .. n - 1 /\ n \in Nat
      BY <1>1, RegsAssumption DEF Bytes
    <3>2. \A i \in Bytes(x) : <<y, i>> \in AllBytes /\ <<z, i>> \in AllBytes /\ <<x, i>> \in AllBytes
      BY <3>1, BytesArePlaces
    <3>3. \A i \in Bytes(x) : /\ a[i] = val[<<y, i>>] /\ b[i] = val[<<z, i>>]
                              /\ a[i] \in Byte /\ b[i] \in Byte
      BY <1>1, <3>1, NumberIn DEF BytesOf
    <3>4. \A i \in Bytes(x) : i < n
      BY <3>1
    <3> HIDE DEF a, b, n
    <3> QED BY <3>2, <3>3, <3>4
  <2>3. \A i \in Bytes(x) : a[i] = U[<<x, i>>]
    BY <2>2 DEF Copied, Moved
  <2>4. \A i \in Bytes(x) : b[i] = U[<<z, i>>]
    <3>1. CASE x = y
      BY <2>2, <3>1
    <3>2. CASE x # y
      <4>1. x # z /\ (y = z => ~Dying(g, y))
        BY <1>5, <3>2
      <4> QED BY <2>2, <3>2, <4>1 DEF Copied, Moved
    <3> QED BY <3>1, <3>2
  <2>5. Rests(U, x)
    <3>1. CASE x = y
      BY <3>1 DEF Rests
    <3>2. CASE x # y
      BY <3>2, LeftRests
    <3> QED BY <3>1, <3>2
  <2> HIDE DEF U, m, a, b, same
  <2>6. k \in Right(Values, Syms, g, Written(U, x, v, SizeOf[x]))
    BY <1>1, <1>2, <2>1, <2>2, <2>3, <2>4, OperatesRight, ZenonT(60)
  <2>7. Stands(Written(U, x, v, SizeOf[x]))
    BY <1>1, <2>5, ResultStands
  <2> HIDE DEF k, v
  <2> QED BY <1>1, <2>6, <2>7, GenerateRight
<1> QED BY <1>4, <1>5

LEMMA OperationLitRight ==
  ASSUME GenInv, Sound, NEW op \in Ops, NEW x \in Syms, NEW y \in Syms, NEW c \in Literals(y),
         OperationLit(op, x, y, c)
  PROVE  Sound'
<1> DEFINE h == IF x = y THEN g ELSE LeftCode(g, x, y)
           k == OperateLits(h, op, x, c, SizeOf[x])
           a == BytesOf(y)
           v == Meaning(op, SizeOf[x], a, c)
           n == SizeOf[y]
           L == IF Dying(g, y) THEN Moved(val, x, y, n) ELSE Copied(val, x, y, n)
           U == IF x = y THEN val ELSE L
<1>1. /\ Generate(k) /\ val' = Value(val, x, v) /\ SizeOf[x] = SizeOf[y] /\ Number(y)
      /\ g.liveTo[x] >= g.seq /\ g.liveTo[y] >= g.seq
  BY DEF OperationLit, OperateLits, ForBytes, Number, Readable, Writable
<1>2. g \in Right(Values, Syms, g, val) /\ Covers(Syms, g)
      /\ Values \in SUBSET Nat /\ Byte \subseteq Values
  BY SoundRight, ValuesAre
<1>3. h \in Right(Values, Syms, g, U)
  BY <1>1, <1>2, LeftCodeRight
<1>4. c \in [Bytes(y) -> Byte]
  BY GenAssumption
<1>5. \A i \in Bytes(x) : /\ <<y, i>> \in AllBytes /\ <<x, i>> \in AllBytes
                          /\ i < n /\ a[i] = val[<<y, i>>] /\ a[i] \in Byte /\ c[i] \in Byte
  BY <1>1, <1>4, BytesArePlaces, NumberIn, RegsAssumption DEF Bytes, BytesOf
<1>6. \A i \in Bytes(x) : a[i] = U[<<x, i>>]
  BY <1>5 DEF Copied, Moved
<1>7. Rests(U, x)
  <2>1. CASE x = y
    BY <2>1 DEF Rests
  <2>2. CASE x # y
    BY <2>2, LeftRests
  <2> QED BY <2>1, <2>2
<1> HIDE DEF U, h, a
<1>8. k \in Right(Values, Syms, g, Written(U, x, v, SizeOf[x]))
  BY <1>1, <1>2, <1>3, <1>5, <1>6, OperateLitsRight
<1>9. Stands(Written(U, x, v, SizeOf[x]))
  BY <1>1, <1>7, ResultStands
<1> HIDE DEF k, v
<1> QED BY <1>1, <1>8, <1>9, GenerateRight

LEMMA LitOperationRight ==
  ASSUME GenInv, Sound, NEW op \in Ops, NEW x \in Syms, NEW z \in Syms, NEW c \in Literals(z),
         LitOperation(op, x, c, z)
  PROVE  Sound'
<1> DEFINE U == Written(val, x, c, SizeOf[x])
           h == LoadLits(g, x, c, SizeOf[x])
           m == IF x = z THEN [h EXCEPT !.hit = h.hit \cup {"same operand"}] ELSE h
           k == Operates(m, op, x, z, SizeOf[x])
           b == BytesOf(z)
           v == Meaning(op, SizeOf[x], c, b)
<1>1. /\ Generate(k) /\ val' = Value(val, x, v) /\ SizeOf[x] = SizeOf[z] /\ Number(z)
      /\ g.liveTo[x] >= g.seq /\ g.liveTo[z] >= g.seq
  BY DEF LitOperation, LoadLits, Operates, ForBytes, Number, Readable, Writable
<1>2. g \in Right(Values, Syms, g, val) /\ Covers(Syms, g)
      /\ Values \in SUBSET Nat /\ Byte \subseteq Values
  BY SoundRight, ValuesAre
<1>3. \A i \in Bytes(x) : /\ <<x, i>> \in AllBytes /\ <<z, i>> \in AllBytes /\ i < SizeOf[x]
                          /\ c[i] \in Byte /\ b[i] = val[<<z, i>>] /\ b[i] \in Byte
  <2>1. c \in [Bytes(z) -> Byte] /\ Bytes(x) = Bytes(z)
    BY <1>1, GenAssumption DEF Bytes
  <2>2. \A i \in Bytes(x) : <<x, i>> \in AllBytes /\ <<z, i>> \in AllBytes /\ i < SizeOf[x]
    BY <2>1, BytesArePlaces, RegsAssumption DEF Bytes
  <2>3. \A i \in Bytes(x) : b[i] = val[<<z, i>>] /\ b[i] \in Byte
    BY <1>1, <2>1, NumberIn DEF BytesOf
  <2> QED BY <2>1, <2>2, <2>3
<1>4. h \in Right(Values, Syms, g, U)
  BY <1>2, <1>3, LoadLitsRight
<1>5. CASE x = z
  <2> HIDE DEF h, U
  <2>1. h \in Kept(Values, Syms, g)
    BY <1>4, RightIs
  <2>2. /\ m = [h EXCEPT !.hit = h.hit \cup {"same operand"}]
        /\ Generate(Operates(m, op, x, z, SizeOf[x]))
    BY <1>1, <1>5
  <2> HIDE DEF m
  <2> QED BY <1>1, <2>1, <2>2, OperationMarked
<1>6. CASE x # z
  <2>1. m \in Right(Values, Syms, g, U)
    BY <1>4, <1>6
  <2>2. \A i \in Bytes(x) : c[i] = U[<<x, i>>] /\ b[i] = U[<<z, i>>]
    BY <1>3, <1>6 DEF Written
  <2>3. Rests(U, x)
    BY DEF Rests, Written
  <2> HIDE DEF U, m, b
  <2>4. k \in Right(Values, Syms, g, Written(U, x, v, SizeOf[x]))
    BY <1>1, <1>2, <1>3, <2>1, <2>2, OperatesRight, ZenonT(60)
  <2>5. Stands(Written(U, x, v, SizeOf[x]))
    BY <1>1, <2>3, ResultStands
  <2> HIDE DEF k, v
  <2> QED BY <1>1, <2>4, <2>5, GenerateRight
<1> QED BY <1>5, <1>6

(* The operation was done on y, and what t held is nowhere.                *)
LEMMA BackStands ==
  ASSUME NEW t \in Syms, NEW y \in Syms, NEW v, val' = Value(Lost(t), y, v)
  PROVE  Stands(Written(val, y, v, SizeOf[y]))
<1> SUFFICES ASSUME NEW b \in AllBytes, val'[b] # Junk
             PROVE  val'[b] = Written(val, y, v, SizeOf[y])[b]
  BY DEF Stands
<1>1. /\ b[2] \in Bytes(b[1]) /\ (b[1] = y => b[2] < SizeOf[y])
  BY BytesArePlaces, RegsAssumption DEF Bytes
<1>2. val'[b] = IF b[1] = y THEN v[b[2]] ELSE IF b[1] = t THEN Junk ELSE val[b]
  BY <1>1 DEF Value, Lost
<1> QED BY <1>1, <1>2 DEF Written

LEMMA OperationBackRight ==
  ASSUME GenInv, Sound, NEW op \in Ops, NEW t \in Syms, NEW y \in Syms, NEW z \in Syms,
         OperationBack(op, t, y, z)
  PROVE  Sound'
<1> DEFINE k == Operates(g, op, y, z, SizeOf[y])
           a == BytesOf(y)
           b == BytesOf(z)
           v == Meaning(op, SizeOf[y], a, b)
<1>1. /\ Generate(k) /\ val' = Value(Lost(t), y, v) /\ SizeOf[y] = SizeOf[z]
      /\ Number(y) /\ Number(z) /\ g.liveTo[y] >= g.seq /\ g.liveTo[z] >= g.seq
  BY DEF OperationBack, Operates, ForBytes, Back, Number, Readable
<1>2. g \in Right(Values, Syms, g, val) /\ Covers(Syms, g)
      /\ Values \in SUBSET Nat /\ Byte \subseteq Values
  BY SoundRight, ValuesAre
<1>3. \A i \in Bytes(y) : /\ a[i] = val[<<y, i>>] /\ b[i] = val[<<z, i>>]
                          /\ a[i] \in Byte /\ b[i] \in Byte
  BY <1>1, NumberIn DEF Bytes, BytesOf
<1> HIDE DEF a, b
<1>4. k \in Right(Values, Syms, g, Written(val, y, v, SizeOf[y]))
  BY <1>1, <1>2, <1>3, OperatesRight
<1>5. Stands(Written(val, y, v, SizeOf[y]))
  BY <1>1, BackStands
<1> HIDE DEF k, v
<1> QED BY <1>1, <1>4, <1>5, GenerateRight

LEMMA OperationLitBackRight ==
  ASSUME GenInv, Sound, NEW op \in Ops, NEW t \in Syms, NEW y \in Syms, NEW c \in Literals(y),
         OperationLitBack(op, t, y, c)
  PROVE  Sound'
<1> DEFINE k == OperateLits(g, op, y, c, SizeOf[y])
           a == BytesOf(y)
           v == Meaning(op, SizeOf[y], a, c)
<1>1. /\ Generate(k) /\ val' = Value(Lost(t), y, v) /\ Number(y) /\ g.liveTo[y] >= g.seq
  BY DEF OperationLitBack, OperateLits, ForBytes, Back, Number, Readable
<1>2. g \in Right(Values, Syms, g, val) /\ Covers(Syms, g)
      /\ Values \in SUBSET Nat /\ Byte \subseteq Values
  BY SoundRight, ValuesAre
<1>3. \A i \in Bytes(y) : a[i] = val[<<y, i>>] /\ a[i] \in Byte /\ c[i] \in Byte
  BY <1>1, NumberIn, GenAssumption DEF BytesOf
<1> HIDE DEF a
<1>4. k \in Right(Values, Syms, g, Written(val, y, v, SizeOf[y]))
  BY <1>1, <1>2, <1>3, OperateLitsRight
<1>5. Stands(Written(val, y, v, SizeOf[y]))
  BY <1>1, BackStands
<1> HIDE DEF k, v
<1> QED BY <1>1, <1>4, <1>5, GenerateRight

(* The copy behind it emits nothing, or is marked.                         *)
LEMMA BacksRight ==
  ASSUME NEW V, NEW D, NEW o, NEW h \in Kept(V, D, o), NEW x \in Syms, NEW y \in Syms, y \in D
  PROVE  /\ Backs(h, x, y, SizeOf[y]) \in Kept(V, D, o)
         /\ Backs(h, x, y, SizeOf[y]) = h \/ Backs(h, x, y, SizeOf[y]).hit # {}
<1> DEFINE n == SizeOf[y]
           R == {k \in Kept(V, D, o) : k = h \/ k.hit # {}}
           K == [j \in 0 .. n |-> R]
<1>1. n \in Nat /\ 0 .. n - 1 \subseteq 0 .. MaxSize - 1
  BY RegsAssumption DEF Bytes
<1>2. ASSUME NEW i \in 0 .. n - 1, NEW k \in R PROVE BackByte(k, x, y, i) \in R
  <2>1. k \in Kept(V, D, o) /\ i \in 0 .. MaxSize - 1
    BY <1>1
  <2>2. CASE k.home[<<y, i>>] = None
    BY <2>2 DEF BackByte
  <2>3. CASE k.home[<<y, i>>] # None
    <3> DEFINE q == Take(k, x, y, i)
    <3>1. q \in Kept(V, D, o)
      BY <2>1, <2>3, TakeKeeps
    <3> HIDE DEF q
    <3>2. Stale(q) \in Kept(V, D, o) /\ Stale(q).hit # {}
      <4>1. Stale(q) \in Kept(V, D, o)
        BY <3>1, StaleKeeps
      <4>2. Stale(q).hit = q.hit \cup {"stale result"}
        BY <3>1 DEF Stale, Kept, Gens
      <4> QED BY <4>1, <4>2
    <3>3. BackByte(k, x, y, i) = Stale(q)
      BY <2>3 DEF BackByte, q
    <3> QED BY <3>2, <3>3
  <2> QED BY <2>2, <2>3
<1>3. Backs(h, x, y, n) \in R
  <2>1. h \in R
    OBVIOUS
  <2> HIDE DEF n, R
  <2>2. h \in K[0] /\ K[n] = R /\ \A i \in 0 .. n - 1 : K[i] = R /\ K[i + 1] = R
    BY <1>1, <2>1
  <2> HIDE DEF K
  <2>3. \A i \in 0 .. n - 1 : \A k \in K[i] : BackByte(k, x, y, i) \in K[i + 1]
    BY <1>2, <2>2
  <2>4. Backs(h, x, y, n) \in K[n]
    BY <1>1, <2>2, <2>3, BacksReach
  <2> QED BY <2>2, <2>4
<1> QED BY <1>3

LEMMA AssignBackRight ==
  ASSUME GenInv, Sound, NEW x \in Syms, NEW t \in Syms, AssignBack(x, t)
  PROVE  Sound'
<1> DEFINE k == CopyCode(g, x, t)
           m == Loads(g, x, t, SizeOf[x])
<1>1. Generate(k) /\ val' = val
  BY DEF AssignBack
<1>2. g \in Right(Values, Syms, g, val) /\ g \in Kept(Values, Syms, g)
  BY SoundRight, RightIs
<1>3. k = IF Dying(g, t) THEN Backs(g, x, t, SizeOf[t]) ELSE Stale(m)
  BY DEF CopyCode, Backs, BackByte, Loads, ForBytes
<1>4. m \in Kept(Values, Syms, g)
  <2>1. SizeOf[x] \in 0 .. MaxSize
    BY RegsAssumption
  <2> QED BY <1>2, <2>1, LoadsKeep, ValuesAre
<1> HIDE DEF k, m
<1>5. k \in Kept(Values, Syms, g) /\ (k = g \/ k.hit # {})
  <2>1. CASE Dying(g, t)
    BY <1>2, <1>3, <2>1, BacksRight
  <2>2. CASE ~Dying(g, t)
    <3>1. Stale(m) \in Kept(Values, Syms, g)
      BY <1>4, StaleKeeps
    <3>2. Stale(m).hit = m.hit \cup {"stale result"}
      BY <1>4 DEF Stale, Kept, Gens
    <3> QED BY <1>3, <2>2, <3>1, <3>2
  <2> QED BY <2>1, <2>2
<1>6. CASE k = g
  <2>1. Stands(val)
    BY <1>1 DEF Stands
  <2> QED BY <1>1, <1>2, <1>6, <2>1, GenerateRight
<1>7. CASE k.hit # {}
  BY <1>1, <1>5, <1>7, GenerateMarked
<1> QED BY <1>5, <1>6, <1>7
-----------------------------------------------------------------------------
(* Pointers.                                                               *)
LEMMA AddressCell ==
  ASSUME NEW c \in Cells
  PROVE  Address(c) \in Addresses /\ Address(c) # Junk /\ Address(c) \in Values /\ Cell(Address(c)) = c
<1>1. Cells \subseteq Nat /\ RADIX \in Nat /\ Junk \notin Nat
  BY AllBytesFinite, RegsAssumption DEF Cells
<1>2. Address(c) = RADIX + c
  BY DEF Address
<1>3. Address(c) \in Addresses /\ (RADIX + c) - RADIX = c
  BY <1>1, <1>2 DEF Addresses
<1> QED BY <1>1, <1>2, <1>3 DEF Cell, Values

(* The address of x is in the register of p, unless the mark says not.     *)
LEMMA LoadAddressRight ==
  ASSUME NEW o, NEW w, NEW h \in Right(Values, Syms, o, w), NEW p \in Syms, NEW x \in Syms,
         NEW z, z = loadAddress(h, p, x)
  PROVE  z \in Right(Values, Syms, o, With(w, <<p, 0>>, Address(z.at[x])))
<1> DEFINE q == Reserve(h, x)
           k == Touch(q, p, 0)
           b == <<p, 0>>
           r == k.home[b]
           v == Address(k.offset + k.top - SizeOf[x])
           c == IF k.top = SizeOf[x] THEN k.carry ELSE 0
           m == [k EXCEPT !.reg[r] = v]
           n == [m EXCEPT !.carry = c]
           e == k.offset # 0 \/ k.at[x] + SizeOf[x] # k.top
           u == Address(k.at[x])
<1>0. z = Hit(n, "address off", e)
  BY DEF loadAddress, AddressLoaded
<1>1. h \in Kept(Values, Syms, o) /\ 0 \in 0 .. MaxSize - 1 /\ Covers(Syms, o)
  BY RightIs, RegsAssumption, CoversAll
<1>2. q \in Right(Values, Syms, o, w) /\ q \in Kept(Values, Syms, o) /\ q.at[x] # None
  BY <1>1, ReserveRight, ReserveKeeps
<1> HIDE DEF q
<1>3. k \in Right(Values, Syms, o, w)
  BY <1>1, <1>2, TouchRight
<1>4. k \in Kept(Values, Syms, o) /\ r \in Regs
  BY <1>1, <1>2, TouchKeeps
<1>5. k.at[x] # None
  <2>1. q \in Kept(Values, Syms, q)
    BY <1>2 DEF Kept, Onward
  <2>2. k \in Kept(Values, Syms, q)
    BY <1>1, <2>1, TouchKeeps
  <2> QED BY <1>2, <2>2 DEF Kept, Onward
<1> HIDE DEF k
<1>6. /\ b \in Places /\ b \in AllBytes /\ b[1] = p /\ r # None
      /\ k.offset \in Int /\ k.top \in Int /\ SizeOf[x] \in Nat /\ k.at[x] \in Int
      /\ c \in {0, 1}
  <2>1. b \in Places /\ b \in AllBytes /\ b[1] = p
    BY BytesArePlaces, RegsAssumption DEF Bytes
  <2>2. r # None
    BY <1>4, RegsAssumption DEF Regs
  <2>3. Cells \subseteq Int /\ k \in Gens(Values)
    BY <1>4, AllBytesFinite, RegsAssumption DEF Kept, Cells
  <2>4. k.offset \in Int /\ k.top \in Int /\ SizeOf[x] \in Nat /\ k.at[x] \in Int /\ c \in {0, 1}
    <3>1. k.offset \in Cells /\ k.top \in Nat /\ k.at[x] \in Cells /\ k.carry \in {0, 1}
      BY <1>5, <2>3 DEF Gens
    <3>2. SizeOf[x] \in Nat
      BY RegsAssumption
    <3>3. k.offset \in Int /\ k.at[x] \in Int
      BY <2>3, <3>1
    <3>4. k.top \in Int
      BY <3>1
    <3>5. c \in {0, 1}
      BY <3>1
    <3> HIDE DEF c
    <3> QED BY <3>2, <3>3, <3>4, <3>5
  <2> QED BY <2>1, <2>2, <2>4
<1>7. v \in Values \cup {Junk}
  BY <1>6, ValuesAre
<1>8. m = [k EXCEPT !.reg[k.home[b]] = v]
  OBVIOUS
<1>9. ~e => u = v
  BY <1>6
<1>10. "address off" \in Reasons
  BY DEF Reasons
<1> HIDE DEF v, c, u, b
<1>11. ASSUME NEW y, Says(o, k, b, y, v)
       PROVE  n \in Right(Values, Syms, o, With(w, b, y)) /\ n.at = k.at /\ n \in Kept(Values, Syms, o)
  <2>1. b[1] \in Syms /\ k.home[b] # None
    BY <1>6
  <2>2. m \in Right(Values, Syms, o, With(w, b, y))
    BY <1>1, <1>3, <1>6, <1>7, <1>8, <1>11, <2>1, RegRight, Zenon
  <2>3. m \in Gens(Values) /\ m.at = k.at
    BY <1>4, <1>7, <1>8, <1>6 DEF Kept, Gens
  <2> HIDE DEF m
  <2>4. n \in Right(Values, Syms, o, With(w, b, y))
    BY <1>6, <2>2, CarryRight, Zenon
  <2>5. n.at = m.at
    BY <2>3 DEF Gens
  <2>6. n \in Kept(Values, Syms, o)
    BY <2>4 DEF Right
  <2> QED BY <2>3, <2>4, <2>5, <2>6
<1> HIDE DEF n
<1>12. CASE e
  <2>1. Says(o, k, b, Junk, v)
    BY DEF Says
  <2>2. n \in Kept(Values, Syms, o)
    BY <1>11, <2>1
  <2>3. z = [n EXCEPT !.hit = n.hit \cup {"address off"}]
    BY <1>0, <1>12 DEF Hit
  <2>4. \A W : z \in Right(Values, Syms, o, W)
    BY <1>10, <2>2, <2>3, MarkedRight
  <2> QED BY <2>4
<1>13. CASE ~e
  <2>1. Says(o, k, b, u, v)
    BY <1>9, <1>13 DEF Says
  <2>2. z = n
    BY <1>0, <1>13 DEF Hit
  <2>3. n \in Right(Values, Syms, o, With(w, b, u)) /\ n.at = k.at
    BY <1>11, <2>1
  <2> QED BY <2>2, <2>3 DEF u, b
<1> QED BY <1>12, <1>13

LEMMA AddressOfRight ==
  ASSUME GenInv, Sound, NEW p \in Syms, NEW x \in Syms, AddressOf(p, x)
  PROVE  Sound'
<1> DEFINE h == loadAddress(g, p, x)
           v == [i \in {0} |-> Address(h.at[x])]
           W == With(val, <<p, 0>>, Address(h.at[x]))
<1>1. Generate(h) /\ val' = Value(val, p, v) /\ SizeOf[p] = 1
  BY DEF AddressOf
<1>2. g \in Right(Values, Syms, g, val)
  BY SoundRight
<1>3. h \in Right(Values, Syms, g, W)
  BY <1>2, LoadAddressRight
<1> HIDE DEF h
<1>4. Stands(W)
  <2> SUFFICES ASSUME NEW b \in AllBytes PROVE val'[b] = W[b]
    BY DEF Stands
  <2>1. b = <<b[1], b[2]>> /\ b[2] \in Bytes(b[1])
    BY BytesArePlaces
  <2>2. b[1] = p <=> b = <<p, 0>>
    BY <1>1, <2>1 DEF Bytes
  <2>3. b[1] = p => b[2] = 0
    BY <1>1, <2>1 DEF Bytes
  <2> QED BY <1>1, <2>2, <2>3 DEF Value, With
<1> HIDE DEF W, v
<1> QED BY <1>1, <1>3, <1>4, GenerateRight

(* A pointer is moved by n.                                                *)
LEMMA MoveRight ==
  ASSUME NEW o, NEW w, NEW h \in Right(Values, Syms, o, w), NEW p \in Syms, NEW n \in Int,
         o.liveTo[p] >= o.seq, w[<<p, 0>>] # Junk, NEW k, k = Move(h, p, n)
  PROVE  k \in Right(Values, Syms, o, With(w, <<p, 0>>, Shift(w[<<p, 0>>], n)))
<1> DEFINE b == <<p, 0>>
           r == h.home[b]
           v == Shift(h.reg[r], n)
           u == Shift(w[b], n)
           m == [h EXCEPT !.reg[r] = v]
<1>1. h \in Kept(Values, Syms, o) /\ b \in Places /\ b \in AllBytes /\ b[1] = p /\ Covers(Syms, o)
      /\ h.liveTo = o.liveTo /\ h.seq = o.seq /\ (h.hit = {} => Means(h, w))
  BY RightIs, BytesArePlaces, RegsAssumption, CoversAll DEF Bytes
<1>2. CASE r = None
  <2>1. k = [h EXCEPT !.hit = h.hit \cup {"pointer spilled"}] /\ "pointer spilled" \in Reasons
    BY <1>2 DEF Move, Hit, Reasons
  <2>2. \A W : k \in Right(Values, Syms, o, W)
    BY <1>1, <2>1, MarkedRight
  <2> QED BY <2>2
<1>3. CASE r # None
  <2>1. k = [m EXCEPT !.carry = 0]
    BY <1>3 DEF Move
  <2>2. r \in Regs /\ h.reg[r] \in Values \cup {Junk}
    BY <1>1, <1>3 DEF Kept, Gens
  <2>3. v \in Values \cup {Junk}
    BY <2>2, ValuesAre
  <2>4. Says(o, h, b, u, v)
    BY <1>1, <1>3 DEF Says, Means, At
  <2>5. m = [h EXCEPT !.reg[h.home[b]] = v] /\ h.home[b] # None /\ b[1] \in Syms
    BY <1>1, <1>3
  <2> HIDE DEF u, v, b
  <2>6. m \in Right(Values, Syms, o, With(w, b, u))
    BY <1>1, <2>3, <2>4, <2>5, RegRight, Zenon
  <2> HIDE DEF m
  <2>7. k \in Right(Values, Syms, o, With(w, b, u))
    BY <2>1, <2>6, CarryRight
  <2> QED BY <2>7 DEF u, b
<1> QED BY <1>2, <1>3
(* Bytes next to each other have addresses next to each other.             *)
LEMMA ShiftAddress ==
  ASSUME NEW c \in Cells, c + 1 \in Cells
  PROVE  Shift(Address(c), 1) = Address(c + 1)
BY AddressCell DEF Shift

(* The pointer is at byte i of y in o, and byte i of y is read.            *)
PointsAt(o, w, p, y, i) ==
  /\ o.liveTo[p] >= o.seq /\ o.liveTo[y] >= o.seq
  /\ o.at[y] # None /\ w[<<p, 0>>] = Address(o.at[y] + i)
(* What a pointer at byte i of an object of n bytes means after that byte. *)
Onwards(o, w, p, y, i, n) == IF i < n - 1 THEN With(w, <<p, 0>>, Address(o.at[y] + (i + 1))) ELSE w

LEMMA StepOnRight ==
  ASSUME NEW o, NEW w, NEW h \in Right(Values, Syms, o, w), NEW p \in Syms, NEW y \in Syms,
         NEW i \in Bytes(y), PointsAt(o, w, p, y, i), NEW k, k = StepOn(h, p, i, SizeOf[y])
  PROVE  k \in Right(Values, Syms, o, Onwards(o, w, p, y, i, SizeOf[y]))
<1>1. CASE i < SizeOf[y] - 1
  <2> DEFINE c == o.at[y] + i
             m == Move(h, p, 1)
  <2>1. i \in 0 .. MaxSize - 1 /\ i + 1 \in 0 .. MaxSize - 1 /\ i \in Nat
    BY <1>1, BytesArePlaces, RegsAssumption DEF Bytes
  <2>2. h \in Gens(Values) /\ Framed(h) /\ h.at[y] = o.at[y] /\ h.at[y] # None
    BY RightIs DEF PointsAt
  <2>3. h.at[y] + i \in Cells /\ h.at[y] + (i + 1) \in Cells
    BY <2>1, <2>2, CellIn
  <2>4. o.at[y] \in Cells /\ Cells \subseteq Int
    BY <2>2, AllBytesFinite, RegsAssumption DEF Gens, Cells
  <2>5. c \in Cells /\ c + 1 \in Cells /\ c + 1 = o.at[y] + (i + 1)
    <3>1. o.at[y] + i \in Cells /\ o.at[y] + (i + 1) \in Cells
      BY <2>2, <2>3
    <3>2. (o.at[y] + i) + 1 = o.at[y] + (i + 1)
      <4>1. o.at[y] \in Int
        BY <2>4
      <4>2. i \in Int
        BY <2>1
      <4> QED BY <4>1, <4>2
    <3> QED BY <3>1, <3>2
  <2>6. w[<<p, 0>>] = Address(c) /\ o.liveTo[p] >= o.seq
    BY DEF PointsAt
  <2> HIDE DEF c
  <2>7. w[<<p, 0>>] # Junk /\ Shift(w[<<p, 0>>], 1) = Address(c + 1)
    BY <2>5, <2>6, AddressCell, ShiftAddress
  <2>8. m \in Right(Values, Syms, o, With(w, <<p, 0>>, Shift(w[<<p, 0>>], 1)))
    BY <2>6, <2>7, MoveRight
  <2> QED BY <1>1, <2>5, <2>7, <2>8 DEF StepOn, Onwards
<1>2. CASE ~(i < SizeOf[y] - 1)
  BY <1>2 DEF StepOn, Onwards
<1> QED BY <1>1, <1>2

(* Byte i of an object is fetched into the register of byte i of x.        *)
LEMMA FetchThroughRight ==
  ASSUME NEW o, NEW w, NEW h \in Right(Values, Syms, o, w), NEW x \in Syms, NEW p \in Syms,
         NEW y \in Syms, NEW i \in Bytes(y), SizeOf[x] = SizeOf[y], h.home[<<x, i>>] \in Regs,
         x # y, x = p => SizeOf[x] = 1, PointsAt(o, w, p, y, i), w[<<y, i>>] # Junk,
         NEW v, v = With(w, <<x, i>>, w[<<y, i>>]), NEW k, k = FetchThrough(h, x, p, y, i)
  PROVE  k \in Right(Values, Syms, o, Onwards(o, v, p, y, i, SizeOf[y]))
<1> DEFINE r == h.home[<<p, 0>>]
           c == o.at[y] + i
           b == <<x, i>>
           d == Content(h, Cell(h.reg[r]))
           m == Fetched(h, x, p, i)
           s == StepOn(m, p, i, SizeOf[y])
           e == h.home[<<y, i>>] # None
           W == Onwards(o, v, p, y, i, SizeOf[y])
<1>1. /\ h \in Kept(Values, Syms, o) /\ h \in Gens(Values) /\ Framed(h) /\ Covers(Syms, o)
      /\ h.liveTo = o.liveTo /\ h.seq = o.seq /\ (h.hit = {} => Means(h, w))
      /\ h.at[y] = o.at[y]
  BY RightIs, CoversAll DEF PointsAt
<1>2. /\ i \in 0 .. MaxSize - 1 /\ <<p, 0>> \in AllBytes /\ <<y, i>> \in AllBytes
      /\ b \in AllBytes /\ b \in Places /\ b[1] = x
  <2>1. i \in Bytes(x) /\ 0 \in Bytes(p)
    BY RegsAssumption DEF Bytes
  <2> QED BY <2>1, BytesArePlaces
<1>3. c \in Cells
  BY <1>1, <1>2, CellIn DEF PointsAt
<1>4. "pointer spilled" \in Reasons /\ "object in register" \in Reasons
  BY DEF Reasons
<1>5. CASE r = None
  <2>1. k = [h EXCEPT !.hit = h.hit \cup {"pointer spilled"}]
    BY <1>5 DEF FetchThrough, Hit
  <2> HIDE DEF W
  <2>2. k \in Right(Values, Syms, o, W)
    BY <1>1, <1>4, <2>1, MarkedRight
  <2> QED BY <2>2 DEF W
<1>6. CASE r # None
  <2>1. k = Hit(s, "object in register", e)
    BY <1>6 DEF FetchThrough
  <2>2. d \in Values \cup {Junk}
    <3>1. Cell(h.reg[r]) = Junk \/ Cell(h.reg[r]) \in Cells
      BY ValuesAre
    <3> QED BY <1>1, <3>1 DEF Content, Gens
  <2>3. m = [h EXCEPT !.reg[h.home[b]] = d] /\ h.home[b] # None
    BY RegsAssumption DEF Fetched, Regs
  <2>4. ASSUME NEW u, Says(o, h, b, u, d) PROVE m \in Right(Values, Syms, o, With(w, b, u))
    <3>1. b[1] \in Syms
      BY <1>2
    <3> HIDE DEF b, d, m
    <3> QED BY <1>1, <1>2, <2>2, <2>3, <2>4, <3>1, RegRight, Zenon
  <2>5. CASE e
    <3>1. Says(o, h, b, Junk, d)
      BY DEF Says
    <3>2. m \in Kept(Values, Syms, o)
      BY <2>4, <3>1 DEF Right
    <3> HIDE DEF m, W
    <3>3. s \in Kept(Values, Syms, o)
      BY <3>2, StepOnKeeps
    <3>4. k = [s EXCEPT !.hit = s.hit \cup {"object in register"}]
      BY <2>1, <2>5 DEF Hit
    <3> HIDE DEF s
    <3>5. k \in Right(Values, Syms, o, W)
      BY <1>4, <3>3, <3>4, MarkedRight
    <3> QED BY <3>5 DEF W
  <2>6. CASE ~e
    <3>1. ASSUME h.hit = {} PROVE d = w[<<y, i>>]
      <4>1. At(h, <<p, 0>>) = Address(c)
        BY <1>1, <1>2, <1>3, <3>1, AddressCell DEF Means, PointsAt
      <4>2. h.reg[r] = Address(c)
        BY <1>6, <4>1 DEF At
      <4>3. Cell(h.reg[r]) = c /\ c # Junk
        BY <1>3, <4>2, AddressCell, AllBytesFinite, RegsAssumption DEF Cells
      <4>4. d = h.ram[c]
        BY <4>3 DEF Content
      <4>5. At(h, <<y, i>>) = w[<<y, i>>]
        BY <1>1, <1>2, <3>1 DEF Means, PointsAt
      <4> QED BY <1>1, <2>6, <4>4, <4>5 DEF At, PointsAt
    <3>2. Says(o, h, b, w[<<y, i>>], d)
      BY <3>1 DEF Says
    <3>3. m \in Right(Values, Syms, o, v)
      BY <2>4, <3>2
    <3>4. k = s
      BY <2>1, <2>6 DEF Hit
    <3>5. CASE i < SizeOf[y] - 1
      <4>1. x # p
        BY <3>5 DEF Bytes
      <4>2. v[<<p, 0>>] = w[<<p, 0>>]
        BY <1>2, <4>1 DEF With
      <4>3. PointsAt(o, v, p, y, i)
        BY <4>2 DEF PointsAt
      <4> HIDE DEF m
      <4>4. s \in Right(Values, Syms, o, W)
        BY <3>3, <4>3, StepOnRight
      <4> QED BY <3>4, <4>4
    <3>6. CASE ~(i < SizeOf[y] - 1)
      BY <3>3, <3>4, <3>6 DEF StepOn, Onwards
    <3> QED BY <3>5, <3>6
  <2> QED BY <2>5, <2>6
<1> QED BY <1>5, <1>6

LEMMA MoveQuiet ==
  ASSUME NEW h \in Gens(Values), NEW p, NEW n, NEW k, k = Move(h, p, n), k.hit = {}
  PROVE  h.hit = {} /\ k.home = h.home /\ h.home[<<p, 0>>] # None
<1>1. CASE h.home[<<p, 0>>] = None
  <2>1. k = [h EXCEPT !.hit = h.hit \cup {"pointer spilled"}]
    BY <1>1 DEF Move, Hit
  <2> QED BY <2>1 DEF Gens
<1>2. CASE h.home[<<p, 0>>] # None
  <2> DEFINE r == h.home[<<p, 0>>]
             v == Shift(h.reg[r], n)
  <2>1. k = [h EXCEPT !.reg[r] = v, !.carry = 0]
    BY <1>2 DEF Move
  <2> HIDE DEF r, v
  <2>2. k.home = h.home /\ k.hit = h.hit
    BY <2>1 DEF Gens
  <2> QED BY <1>2, <2>2
<1> QED BY <1>1, <1>2

(* A byte that is fetched through a pointer without a mark.                *)
LEMMA FetchThroughQuiet ==
  ASSUME NEW D, NEW o, NEW h \in Kept(Values, D, o), NEW x \in Syms, NEW p \in Syms, NEW y,
         NEW i \in 0 .. MaxSize - 1, h.home[<<x, i>>] \in Regs,
         NEW k, k = FetchThrough(h, x, p, y, i), k.hit = {}
  PROVE  h.hit = {} /\ k.home = h.home /\ h.home[<<p, 0>>] # None /\ h.home[<<y, i>>] = None
<1> DEFINE r == h.home[<<p, 0>>]
           m == Fetched(h, x, p, i)
           s == StepOn(m, p, i, SizeOf[x])
           e == h.home[<<y, i>>] # None
           d == Content(h, Cell(h.reg[r]))
<1>1. r # None
  <2> SUFFICES ASSUME r = None PROVE FALSE
    OBVIOUS
  <2>1. k = [h EXCEPT !.hit = h.hit \cup {"pointer spilled"}]
    BY DEF FetchThrough, Hit
  <2> QED BY <2>1 DEF Kept, Gens
<1>2. k = Hit(s, "object in register", e)
  BY <1>1 DEF FetchThrough
<1>3. d \in Values \cup {Junk}
  <2>1. Cell(h.reg[r]) = Junk \/ Cell(h.reg[r]) \in Cells
    BY ValuesAre
  <2> QED BY <2>1 DEF Content, Kept, Gens
<1>4. m = [h EXCEPT !.reg[h.home[<<x, i>>]] = d]
  BY DEF Fetched
<1> HIDE DEF m, d
<1>5. m \in Kept(Values, D, o)
  BY <1>3, <1>4, RegKeeps, Zenon
<1>6. m.hit = h.hit /\ m.home = h.home
  BY <1>4 DEF Kept, Gens
<1>7. s \in Kept(Values, D, o)
  BY <1>5, StepOnKeeps
<1>8. ~e /\ k = s
  <2> HIDE DEF s
  <2> SUFFICES ASSUME e PROVE FALSE
    BY <1>2 DEF Hit
  <2>1. k = [s EXCEPT !.hit = s.hit \cup {"object in register"}]
    BY <1>2 DEF Hit
  <2> QED BY <1>7, <2>1 DEF Kept, Gens
<1>9. m.hit = {} /\ s.home = m.home
  <2>1. m \in Gens(Values) /\ s.hit = {}
    BY <1>5, <1>8 DEF Kept
  <2>2. s = m \/ s = Move(m, p, 1)
    BY DEF StepOn
  <2> HIDE DEF s
  <2>3. CASE s = Move(m, p, 1)
    <3>1. m.hit = {} /\ s.home = m.home /\ m.home[<<p, 0>>] # None
      BY <2>1, <2>3, MoveQuiet
    <3> QED BY <3>1
  <2> QED BY <2>1, <2>2, <2>3
<1> QED BY <1>1, <1>6, <1>8, <1>9

LEMMA TouchQuiet ==
  ASSUME NEW o, NEW h \in Kept(Values, Syms, o), NEW x \in Syms, NEW i \in 0 .. MaxSize - 1
  PROVE  Touch(h, x, i).hit = {} => h.hit = {}
<1> DEFINE w == [c \in AllBytes |-> Junk]
<1>1. h \in Right(Values, Syms, o, w) /\ Covers(Syms, o)
  BY CoversAll DEF Right, Means
<1> HIDE DEF w
<1> QED BY <1>1, TouchRight

LEMMA FetchByteTakes ==
  ASSUME NEW o, NEW h \in Kept(Values, Syms, o), NEW x \in Syms, NEW t \in Syms, NEW p \in Syms,
         NEW y \in Syms, NEW i \in Bytes(y), SizeOf[x] = SizeOf[y], x = p \/ t = p => SizeOf[x] = 1,
         NEW k, k = FetchByte(h, x, t, p, y, i), k.hit = {}
  PROVE  /\ x # y
         /\ \E q : /\ k = FetchThrough(q, x, p, y, i) /\ q.home[<<x, i>>] \in Regs /\ k.home = q.home
                   /\ \/ q = h
                      \/ x # p /\ q = Allocate(h, x, i)
                      \/ q = Touch(h, p, 0)
<1> DEFINE w == Allocate(h, t, i)
           a == PointerReloaded(h, t, p, i)
           u == Allocate(a, t, i)
           b == ResultAllocated(a, x, t, i)
           q == Touch(b, x, i)
           P == <<p, 0>>
           X == <<x, i>>
<1>1. /\ i \in 0 .. MaxSize - 1 /\ 0 \in 0 .. MaxSize - 1 /\ P \in Places /\ X \in Places
      /\ (x = p => X = P) /\ (t = p => i = 0 /\ <<t, i>> = P) /\ Covers(Syms, o)
  <2>1. /\ i \in 0 .. MaxSize - 1 /\ 0 \in 0 .. MaxSize - 1
        /\ (x = p => i = 0) /\ (t = p => i = 0)
    BY RegsAssumption DEF Bytes
  <2> QED BY <2>1, CoversAll DEF Places
<1>2. ~Crashed(h) /\ k = FetchThrough(q, x, p, y, i)
  <2>1. ~Crashed(h)
    BY DEF Crashed, FetchByte
  <2> QED BY <2>1 DEF FetchByte
<1>3. w \in Kept(Values, Syms, o) /\ w.home[<<t, i>>] = Victim(h) /\ w.home[<<t, i>>] \in Regs
      /\ \A c \in Places : c # <<t, i>> => w.home[c] = h.home[c] \/ w.home[c] = None
  BY <1>1, AllocateKeeps
<1>4. a = h \/ a = w \/ (w.at[p] # None /\ a = fetchVariable(w, p, 0, Victim(h)))
  BY DEF PointerReloaded, Reloaded
<1>5. /\ h.home[P] # None => a = h
      /\ h.home[P] = None => a = IF w.at[p] = None THEN w ELSE fetchVariable(w, p, 0, Victim(h))
  BY DEF PointerReloaded, Reloaded
<1> HIDE DEF w, a
<1>6. a \in Kept(Values, Syms, o) /\ (a = h \/ a.home = w.home)
  <2>1. Victim(h) \in Regs
    BY <1>3
  <2> QED BY <1>1, <1>3, <1>4, <2>1, FetchKeeps
<1>7. u \in Kept(Values, Syms, o) /\ u.home[<<t, i>>] \in Regs
      /\ \A c \in Places : c # <<t, i>> => u.home[c] = a.home[c] \/ u.home[c] = None
  BY <1>1, <1>6, AllocateKeeps
<1>8. /\ a.home[X] # None => b = a
      /\ a.home[X] = None => b = IF x # t THEN [u EXCEPT !.hit = u.hit \cup {"result unallocated"}] ELSE u
  BY DEF ResultAllocated, Hit
<1> HIDE DEF u, b
<1>9. b \in Kept(Values, Syms, o) /\ (a.home[X] = None /\ x # t => b.hit # {})
  <2>1. "result unallocated" \in Reasons
    BY DEF Reasons
  <2>2. CASE a.home[X] = None /\ x # t
    <3>1. b = [u EXCEPT !.hit = u.hit \cup {"result unallocated"}]
      BY <1>8, <2>2
    <3>2. b \in Right(Values, Syms, o, 0)
      BY <1>7, <2>1, <3>1, MarkedRight
    <3> QED BY <1>7, <3>1, <3>2 DEF Right, Kept, Gens
  <2>3. CASE ~(a.home[X] = None /\ x # t)
    BY <1>6, <1>7, <1>8, <2>3
  <2> QED BY <2>2, <2>3
<1>10. q \in Kept(Values, Syms, o) /\ q.home[X] \in Regs
       /\ (\A c \in Places : c # X => q.home[c] = b.home[c] \/ q.home[c] = None)
       /\ (b.home[X] # None => q = b)
  BY <1>1, <1>9, TouchKeeps
<1>11. q.hit = {} => b.hit = {}
  BY <1>1, <1>9, TouchQuiet
<1> HIDE DEF q
<1>12. q.hit = {} /\ k.home = q.home /\ q.home[P] # None /\ q.home[<<y, i>>] = None
  BY <1>1, <1>2, <1>10, FetchThroughQuiet
<1>13. x # y /\ (a.home[X] # None \/ x = t)
  BY <1>9, <1>10, <1>11, <1>12, RegsAssumption DEF Regs
<1>14. b = a \/ (x = t /\ a.home[X] = None /\ b = u)
  BY <1>8, <1>13
<1>15. b.home[X] # None /\ q = b
  <2>1. x = t => u.home[X] # None
    BY <1>7, RegsAssumption DEF Regs
  <2> QED BY <1>8, <1>10, <1>13, <2>1
<1>16. CASE h.home[P] # None
  <2>1. a = h
    BY <1>5, <1>16
  <2>2. a.home[X] = None => x # p
    BY <1>1, <1>16, <2>1
  <2>3. q = h \/ (x # p /\ q = Allocate(h, x, i))
    BY <1>8, <1>14, <1>15, <2>1, <2>2 DEF u
  <2> QED BY <1>2, <1>10, <1>12, <1>13, <2>3
<1>17. CASE h.home[P] = None
  <2>0. a.home = w.home
    BY <1>5, <1>6, <1>17, <1>3, <1>1, FetchKeeps
  <2>1. CASE t = p
    <3>1. i = 0 /\ <<t, i>> = P /\ (x = t => X = P)
      BY <1>1, <2>1
    <3>2. Touch(h, p, 0) = IF w.at[p] # None THEN fetchVariable(w, p, 0, w.home[P]) ELSE w
      BY <1>17, <3>1 DEF Touch, w
    <3>3. a = Touch(h, p, 0)
      BY <1>3, <1>5, <1>17, <3>1, <3>2
    <3>4. a.home[X] # None
      BY <1>3, <1>13, <2>0, <3>1, RegsAssumption DEF Regs
    <3>5. q = Touch(h, p, 0)
      BY <1>8, <1>15, <3>3, <3>4
    <3> QED BY <1>2, <1>10, <1>12, <1>13, <3>1, <3>5
  <2>2. CASE t # p
    <3>1. <<t, i>> # P
      BY <2>2
    <3>2. a.home[P] = None
      BY <1>1, <1>3, <1>17, <2>0, <3>1
    <3>3. x # p
      BY <1>1, <1>13, <2>2, <3>2
    <3>4. b.home[P] = None
      BY <1>1, <1>7, <1>14, <3>1, <3>2
    <3> QED BY <1>12, <1>15, <3>4
  <2> QED BY <2>1, <2>2
<1> QED BY <1>16, <1>17

LEMMA FetchByteRight ==
  ASSUME NEW o, NEW w, NEW h \in Right(Values, Syms, o, w), NEW x \in Syms, NEW t \in Syms,
         NEW p \in Syms, NEW y \in Syms, NEW i \in Bytes(y), SizeOf[x] = SizeOf[y],
         x = p \/ t = p => SizeOf[x] = 1, PointsAt(o, w, p, y, i), w[<<y, i>>] # Junk,
         NEW v, v = With(w, <<x, i>>, w[<<y, i>>]), NEW k, k = FetchByte(h, x, t, p, y, i)
  PROVE  k \in Right(Values, Syms, o, Onwards(o, v, p, y, i, SizeOf[y]))
<1> DEFINE W == Onwards(o, v, p, y, i, SizeOf[y])
           b == <<x, i>>
<1>1. h \in Kept(Values, Syms, o) /\ i \in 0 .. MaxSize - 1 /\ 0 \in 0 .. MaxSize - 1
      /\ Covers(Syms, o)
  BY RightIs, RegsAssumption, CoversAll DEF Bytes
<1>2. k \in Kept(Values, Syms, o)
  BY <1>1, FetchByteKeeps
<1>3. CASE k.hit # {}
  <2> HIDE DEF W
  <2>1. k \in Right(Values, Syms, o, W)
    BY <1>2, <1>3, RightHit
  <2> QED BY <2>1 DEF W
<1>4. CASE k.hit = {}
  <2>1. /\ x # y
        /\ \E q : /\ k = FetchThrough(q, x, p, y, i) /\ q.home[<<x, i>>] \in Regs /\ k.home = q.home
                  /\ \/ q = h
                     \/ x # p /\ q = Allocate(h, x, i)
                     \/ q = Touch(h, p, 0)
    BY <1>1, <1>4, FetchByteTakes
  <2>2. PICK q : /\ k = FetchThrough(q, x, p, y, i) /\ q.home[<<x, i>>] \in Regs
                 /\ \/ q = h
                    \/ x # p /\ q = Allocate(h, x, i)
                    \/ q = Touch(h, p, 0)
    BY <2>1
  <2>3. CASE q = h
    BY <2>1, <2>2, <2>3, FetchThroughRight
  <2>4. CASE q = Touch(h, p, 0)
    <3>1. q \in Right(Values, Syms, o, w)
      BY <1>1, <2>4, TouchRight
    <3> QED BY <2>1, <2>2, <3>1, FetchThroughRight
  <2>5. CASE x # p /\ q = Allocate(h, x, i)
    <3> DEFINE u == With(w, b, Junk)
               m == With(u, b, u[<<y, i>>])
    <3>1. q \in Right(Values, Syms, o, u)
      BY <1>1, <2>5, AllocateRight
    <3>2. <<y, i>> \in AllBytes /\ <<p, 0>> \in AllBytes
      BY BytesArePlaces, RegsAssumption DEF Bytes
    <3>3. u[<<y, i>>] = w[<<y, i>>] /\ u[<<p, 0>>] = w[<<p, 0>>]
      BY <2>1, <2>5, <3>2 DEF With
    <3>4. m = v
      BY <3>3 DEF With
    <3>5. PointsAt(o, u, p, y, i)
      BY <3>3 DEF PointsAt
    <3> HIDE DEF u
    <3>6. k \in Right(Values, Syms, o, Onwards(o, m, p, y, i, SizeOf[y]))
      BY <2>1, <2>2, <3>1, <3>3, <3>5, FetchThroughRight
    <3> QED BY <3>4, <3>6
  <2> QED BY <2>2, <2>3, <2>4, <2>5
<1> QED BY <1>3, <1>4

(* The meaning of x and p when j bytes of the n of y were fetched.         *)
Sought(o, w, x, p, y, j, n) ==
  [b \in AllBytes |-> IF b[1] = x /\ b[2] < j THEN w[<<y, b[2]>>]
                      ELSE IF b = <<p, 0>> THEN Address(o.at[y] + (IF j < n THEN j ELSE n - 1))
                      ELSE w[b]]

LEMMA SoughtNext ==
  ASSUME NEW o, NEW w, NEW x \in Syms, NEW p \in Syms, NEW y \in Syms, NEW n, n = SizeOf[y],
         SizeOf[x] = n, SizeOf[p] = 1, NEW j \in Bytes(y), o.at[y] \in Nat,
         w[<<p, 0>>] = Address(o.at[y]),
         NEW u, u = Sought(o, w, x, p, y, j, n)
  PROVE  /\ u[<<y, j>>] = w[<<y, j>>] /\ u[<<p, 0>>] = Address(o.at[y] + j)
         /\ Within(o, Sought(o, w, x, p, y, j + 1, n),
                   Onwards(o, With(u, <<x, j>>, u[<<y, j>>]), p, y, j, n))
<1> DEFINE v == With(u, <<x, j>>, u[<<y, j>>])
           m == Onwards(o, v, p, y, j, n)
           s == Sought(o, w, x, p, y, j + 1, n)
<1>1. /\ n \in Nat \ {0} /\ j \in 0 .. n - 1 /\ j \in Nat /\ <<y, j>> \in AllBytes
      /\ <<p, 0>> \in AllBytes /\ (x = p => n = 1 /\ j = 0) /\ (y = p => j = 0)
  BY BytesArePlaces, RegsAssumption DEF Bytes
<1>2. o.at[y] + 0 = o.at[y]
  OBVIOUS
<1>3. u[<<y, j>>] = w[<<y, j>>]
  BY <1>1, <1>2 DEF Sought
<1>4. u[<<p, 0>>] = Address(o.at[y] + j)
  BY <1>1 DEF Sought
<1>5. ASSUME NEW b \in AllBytes PROVE s[b] = m[b]
  <2>0. b[2] \in Nat /\ b = <<b[1], b[2]>>
    BY BytesArePlaces, RegsAssumption DEF Bytes
  <2>1. CASE b = <<x, j>>
    <3>1. s[b] = w[<<y, j>>]
      BY <1>1, <2>1 DEF Sought
    <3>2. j < n - 1 => b # <<p, 0>>
      BY <1>1, <2>1
    <3>3. m[b] = v[b]
      BY <3>2 DEF Onwards, With
    <3> QED BY <1>3, <2>1, <3>1, <3>3 DEF With
  <2>2. CASE b # <<x, j>> /\ b[1] = x /\ b[2] < j
    <3>1. x # p
      BY <1>1, <2>0, <2>2
    <3>2. b # <<p, 0>>
      BY <2>2, <3>1
    <3>3. m[b] = u[b]
      BY <2>2, <3>2 DEF Onwards, With
    <3>4. b[2] < j + 1
      BY <1>1, <2>0, <2>2
    <3> QED BY <2>2, <3>3, <3>4 DEF Sought
  <2>3. CASE b # <<x, j>> /\ ~(b[1] = x /\ b[2] < j)
    <3>1. ~(b[1] = x /\ b[2] < j + 1)
      BY <1>1, <2>0, <2>3
    <3>2. CASE b = <<p, 0>>
      <4>1. s[b] = Address(o.at[y] + (IF j + 1 < n THEN j + 1 ELSE n - 1))
        BY <3>1, <3>2 DEF Sought
      <4>2. CASE j < n - 1
        BY <1>1, <3>2, <4>1, <4>2 DEF Onwards, With
      <4>3. CASE ~(j < n - 1)
        <5>1. j = n - 1 /\ ~(j + 1 < n)
          BY <1>1, <4>3
        <5>2. m[b] = u[b]
          BY <2>3, <4>3 DEF Onwards, With
        <5> QED BY <1>4, <3>2, <4>1, <5>1, <5>2
      <4> QED BY <4>2, <4>3
    <3>3. CASE b # <<p, 0>>
      <4>1. m[b] = u[b]
        BY <2>3, <3>3 DEF Onwards, With
      <4>2. s[b] = w[b] /\ u[b] = w[b]
        BY <2>3, <3>1, <3>3 DEF Sought
      <4> QED BY <4>1, <4>2
    <3> QED BY <3>2, <3>3
  <2> QED BY <2>1, <2>2, <2>3
<1>6. Within(o, s, m)
  BY <1>5 DEF Within
<1> QED BY <1>3, <1>4, <1>6
(* The pointer p is at the start of y, and all of y is read.               *)
Reaches(o, w, p, y) ==
  /\ SizeOf[p] = 1 /\ o.liveTo[p] >= o.seq /\ o.liveTo[y] >= o.seq
  /\ o.at[y] # None /\ o.at[y] \in Nat /\ w[<<p, 0>>] = Address(o.at[y])
Defined(w, y) == \A i \in Bytes(y) : w[<<y, i>>] # Junk

LEMMA SoughtFirst ==
  ASSUME NEW o, NEW w, NEW x \in Syms, NEW p \in Syms, NEW y \in Syms, Reaches(o, w, p, y)
  PROVE  Within(o, Sought(o, w, x, p, y, 0, SizeOf[y]), w)
<1>1. SizeOf[y] > 0 /\ o.at[y] + 0 = o.at[y]
  BY RegsAssumption DEF Reaches
<1>2. ASSUME NEW b \in AllBytes PROVE Sought(o, w, x, p, y, 0, SizeOf[y])[b] = w[b]
  <2>1. ~(b[2] < 0)
    BY BytesArePlaces, RegsAssumption DEF Bytes
  <2> QED BY <1>1, <2>1 DEF Sought, Reaches
<1> QED BY <1>2 DEF Within

(* All bytes of an object are fetched through the pointer p.               *)
LEMMA FetchesRight ==
  ASSUME NEW o, NEW w, NEW h \in Right(Values, Syms, o, w), NEW x \in Syms, NEW t \in Syms,
         NEW p \in Syms, NEW y \in Syms, SizeOf[x] = SizeOf[y], SizeOf[t] = SizeOf[y],
         Reaches(o, w, p, y), Defined(w, y)
  PROVE  Fetches(h, x, t, p, y, SizeOf[y])
           \in Right(Values, Syms, o, Sought(o, w, x, p, y, SizeOf[y], SizeOf[y]))
<1> DEFINE n == SizeOf[y]
           R(j) == Right(Values, Syms, o, Sought(o, w, x, p, y, j, n))
           K == [j \in 0 .. n |-> R(j)]
<1>1. n \in Nat /\ 0 .. n - 1 = Bytes(y) /\ (x = p \/ t = p => SizeOf[x] = 1)
  BY RegsAssumption DEF Bytes, Reaches
<1>2. ASSUME NEW i \in Bytes(y), NEW k \in R(i) PROVE FetchByte(k, x, t, p, y, i) \in R(i + 1)
  <2> DEFINE u == Sought(o, w, x, p, y, i, n)
             v == With(u, <<x, i>>, u[<<y, i>>])
             m == FetchByte(k, x, t, p, y, i)
             W == Sought(o, w, x, p, y, i + 1, n)
  <2>1. o.at[y] \in Nat /\ w[<<p, 0>>] = Address(o.at[y]) /\ SizeOf[p] = 1
    BY DEF Reaches
  <2>2. /\ u[<<y, i>>] = w[<<y, i>>] /\ u[<<p, 0>>] = Address(o.at[y] + i)
        /\ Within(o, W, Onwards(o, v, p, y, i, n))
    BY <2>1, SoughtNext
  <2>3. PointsAt(o, u, p, y, i) /\ u[<<y, i>>] # Junk
    BY <2>2 DEF PointsAt, Reaches, Defined
  <2> HIDE DEF u, W
  <2>4. k \in Right(Values, Syms, o, u)
    BY DEF u
  <2>5. m \in Right(Values, Syms, o, Onwards(o, v, p, y, i, n))
    BY <1>1, <2>3, <2>4, FetchByteRight
  <2> HIDE DEF m, v
  <2>6. m \in Right(Values, Syms, o, W)
    BY <2>2, <2>5, RightWeak
  <2> QED BY <2>6 DEF m, W
<1>3. Fetches(h, x, t, p, y, n) \in R(n)
  <2>1. h \in R(0)
    BY SoughtFirst, RightWeak
  <2> HIDE DEF n, R
  <2>2. h \in K[0] /\ K[n] = R(n) /\ \A i \in 0 .. n - 1 : K[i] = R(i) /\ K[i + 1] = R(i + 1)
    BY <1>1, <2>1
  <2> HIDE DEF K
  <2>3. ASSUME NEW i \in 0 .. n - 1, NEW k \in K[i]
        PROVE  FetchByte(k, x, t, p, y, i) \in K[i + 1]
    <3>1. i \in Bytes(y) /\ k \in R(i)
      BY <1>1, <2>2
    <3> QED BY <1>2, <2>2, <3>1
  <2>4. Fetches(h, x, t, p, y, n) \in K[n]
    BY <1>1, <2>2, <2>3, FetchesReach
  <2> QED BY <2>2, <2>4
<1> QED BY <1>3

-----------------------------------------------------------------------------
(* A pointer is at the start of its target.                                *)
LEMMA TargetIs ==
  ASSUME GenInv, NEW p \in Syms, Pointer(p), NEW y, y = Target(p)
  PROVE  /\ y \in Syms /\ g.at[y] \in Cells /\ g.at[y] \in Nat /\ g.at[y] # None
         /\ val[<<p, 0>>] = Address(g.at[y])
<1>1. <<p, 0>> \in AllBytes
  BY BytesArePlaces DEF Pointer, Bytes
<1>2. \E x \in Syms : val[<<p, 0>>] = Address(g.at[x])
  BY <1>1 DEF GenInv, Pointing, Pointer
<1>3. y \in Syms /\ val[<<p, 0>>] = Address(g.at[y])
  BY <1>2 DEF Target
<1>4. Cells \subseteq Nat /\ Junk \notin Nat /\ None \notin Nat /\ Junk \notin Addresses
  BY AllBytesFinite, BytesPointNowhere, RegsAssumption DEF Cells
<1>5. g.at[y] \in Cells
  BY <1>3, <1>4 DEF Pointer, Address
<1> QED BY <1>3, <1>4, <1>5

LEMMA TargetReached ==
  ASSUME GenInv, NEW p \in Syms, Pointer(p), NEW y, y = Target(p), Readable(y)
  PROVE  Reaches(g, val, p, y) /\ Defined(val, y) /\ y \in Syms
BY TargetIs DEF Reaches, Defined, Readable, Pointer

LEMMA AtAddressCodeIs ==
  ASSUME NEW o, NEW h \in Kept(Values, Syms, o), NEW x \in Syms, NEW t \in Syms, NEW p \in Syms,
         NEW y \in Syms, SizeOf[x] = SizeOf[y], NEW k, k = AtAddressCode(h, x, t, p, y)
  PROVE  /\ Goes(h, p, SizeOf[y]) => k \in Kept(Values, Syms, o) /\ k.hit # {}
         /\ ~Goes(h, p, SizeOf[y]) => k = Fetches(h, x, t, p, y, SizeOf[y])
<1> DEFINE n == SizeOf[x]
           m == Fetches(h, x, t, p, y, n)
           e == Goes(h, p, n)
           q == Hit(m, "pointer not restored", e)
<1>1. k = WayBack(q, p, x, n)
  BY DEF AtAddressCode, Fetches, ForBytes
<1>2. n \in 0 .. MaxSize /\ n \in Nat
  BY RegsAssumption
<1>3. m \in Kept(Values, Syms, o)
  BY <1>2, FetchesKeep
<1> HIDE DEF m
<1>4. CASE e
  <2>1. q = [m EXCEPT !.hit = m.hit \cup {"pointer not restored"}]
        /\ "pointer not restored" \in Reasons
    BY <1>4 DEF Hit, Reasons
  <2> HIDE DEF q
  <2>2. q \in Right(Values, Syms, o, 0)
    BY <1>3, <2>1, MarkedRight
  <2>3. q \in Kept(Values, Syms, o) /\ q \in Gens(Values) /\ q.hit # {}
    BY <1>3, <2>1, <2>2 DEF Right, Kept, Gens
  <2>4. k \in Kept(Values, Syms, o)
    BY <1>1, <1>2, <2>3, WayBackKeeps
  <2>5. k = q \/ k = Move(q, x, 1 - n)
    BY <1>1 DEF WayBack
  <2>6. k.hit # {}
    <3>1. CASE k = Move(q, x, 1 - n)
      <4> SUFFICES ASSUME k.hit = {} PROVE FALSE
        OBVIOUS
      <4>1. q.hit = {} /\ k.home = q.home /\ q.home[<<x, 0>>] # None
        BY <2>3, <3>1, MoveQuiet
      <4> QED BY <2>3, <4>1
    <3> QED BY <2>3, <2>5, <3>1
  <2> QED BY <1>4, <2>4, <2>6
<1>5. CASE ~e
  <2>1. q = m
    BY <1>5 DEF Hit
  <2>2. m.liveTo = h.liveTo /\ m.seq = h.seq
    BY <1>3 DEF Kept, Onward
  <2>3. ~Goes(q, p, n)
    BY <1>5, <2>1, <2>2 DEF Goes
  <2>4. k = m
    BY <1>1, <2>1, <2>3 DEF WayBack
  <2> QED BY <1>5, <2>4 DEF m
<1> QED BY <1>4, <1>5

(* Nothing but that x has what y has is new in what the program means.     *)
Fetching(x, y) ==
  \A b \in AllBytes : val'[b] # Junk => val'[b] = Value(val, x, BytesOf(y))[b]

LEMMA AtAddressCodeRight ==
  ASSUME GenInv, Sound, NEW x \in Syms, NEW t \in Syms, NEW p \in Syms,
         NEW y, y = Target(p), Pointer(p), Readable(y), SizeOf[x] = SizeOf[y], SizeOf[t] = SizeOf[y],
         Generate(AtAddressCode(g, x, t, p, y)), Fetching(x, y)
  PROVE  Sound'
<1> DEFINE n == SizeOf[y]
           k == AtAddressCode(g, x, t, p, y)
           W == Sought(g, val, x, p, y, n, n)
<1>1. /\ g \in Right(Values, Syms, g, val) /\ g \in Kept(Values, Syms, g)
      /\ Reaches(g, val, p, y) /\ Defined(val, y) /\ y \in Syms
  BY SoundRight, RightIs, TargetReached
<1>2. IF Goes(g, p, n) THEN k \in Kept(Values, Syms, g) /\ k.hit # {}
      ELSE k = Fetches(g, x, t, p, y, n)
  <2>1. k = AtAddressCode(g, x, t, p, y) /\ g \in Kept(Values, Syms, g) /\ y \in Syms
    BY <1>1
  <2> HIDE DEF k, W
  <2>2. /\ Goes(g, p, SizeOf[y]) => k \in Kept(Values, Syms, g) /\ k.hit # {}
        /\ ~Goes(g, p, SizeOf[y]) => k = Fetches(g, x, t, p, y, SizeOf[y])
    BY <2>1, AtAddressCodeIs
  <2> QED BY <2>2
<1>3. CASE Goes(g, p, n)
  <2>1. Generate(k)
    OBVIOUS
  <2> HIDE DEF k
  <2> QED BY <1>2, <1>3, <2>1, GenerateMarked
<1>4. CASE ~Goes(g, p, n)
  <2>1. k \in Right(Values, Syms, g, W)
    <3>1. Fetches(g, x, t, p, y, n) \in Right(Values, Syms, g, W)
      BY <1>1, FetchesRight
    <3> QED BY <1>2, <1>4, <3>1
  <2>2. Stands(W)
    <3> DEFINE N == Value(val, x, BytesOf(y))
    <3> SUFFICES ASSUME NEW b \in AllBytes, g.liveTo[b[1]] > g.seq PROVE N[b] = W[b]
      BY DEF Stands, Fetching
    <3>1. b = <<b[1], b[2]>> /\ b[2] \in Bytes(b[1]) /\ n \in Nat \ {0}
      BY <1>1, BytesArePlaces, RegsAssumption
    <3>2. CASE b[1] = x
      <4>1. b[2] \in Bytes(y) /\ b[2] < n
        BY <3>1, <3>2 DEF Bytes
      <4> QED BY <3>2, <4>1 DEF Value, BytesOf, Sought
    <3>3. CASE b = <<p, 0>> /\ b[1] # x
      <4>1. ~(n > 1)
        BY <1>4, <3>3 DEF Goes
      <4>2. n = 1 /\ ~(n < n) /\ n - 1 = 0
        BY <3>1, <4>1
      <4>3. g.at[y] + 0 = g.at[y]
        BY <1>1 DEF Reaches
      <4>4. W[b] = Address(g.at[y])
        BY <3>3, <4>2, <4>3 DEF Sought
      <4> QED BY <1>1, <3>3, <4>4 DEF Value, Reaches
    <3>4. CASE b # <<p, 0>> /\ b[1] # x
      BY <3>4 DEF Value, Sought
    <3> QED BY <3>2, <3>3, <3>4
  <2> HIDE DEF k, W
  <2>3. Generate(k)
    BY DEF k
  <2> QED BY <2>1, <2>2, <2>3, GenerateRight
<1> QED BY <1>3, <1>4

LEMMA AtAddressRight ==
  ASSUME GenInv, Sound, NEW x \in Syms, NEW p \in Syms, AtAddress(x, p)
  PROVE  Sound'
<1> DEFINE y == Target(p)
<1>1. /\ Pointer(p) /\ Readable(y) /\ SizeOf[x] = SizeOf[y]
      /\ Generate(AtAddressCode(g, x, x, p, y)) /\ val' = Value(val, x, BytesOf(y))
  BY DEF AtAddress
<1>2. y = Target(p) /\ Fetching(x, y)
  BY <1>1 DEF Fetching
<1> HIDE DEF y
<1> QED BY <1>1, <1>2, AtAddressCodeRight

LEMMA AtAddressBackRight ==
  ASSUME GenInv, Sound, NEW x \in Syms, NEW t \in Syms, NEW p \in Syms, AtAddressBack(x, t, p)
  PROVE  Sound'
<1> DEFINE y == Target(p)
           v == BytesOf(y)
<1>1. /\ Pointer(p) /\ Readable(y) /\ SizeOf[x] = SizeOf[y] /\ SizeOf[t] = SizeOf[y]
      /\ Generate(AtAddressCode(g, x, t, p, y)) /\ val' = Value(Lost(t), x, v)
  BY DEF AtAddressBack
<1>2. ASSUME NEW b \in AllBytes, val'[b] # Junk PROVE val'[b] = Value(val, x, v)[b]
  <2>1. b[2] \in Bytes(b[1])
    BY BytesArePlaces
  <2> HIDE DEF v, y
  <2>2. val'[b] = IF b[1] = x THEN v[b[2]] ELSE IF b[1] = t THEN Junk ELSE val[b]
    BY <1>1, <2>1 DEF Value, Lost
  <2> QED BY <1>2, <2>2 DEF Value
<1>3. y = Target(p) /\ Fetching(x, y)
  BY <1>2 DEF Fetching
<1> HIDE DEF y
<1> QED BY <1>1, <1>3, AtAddressCodeRight

(* What is behind p was fetched into the pointer.                          *)
LEMMA AtAddressStoreRight ==
  ASSUME GenInv, NEW x \in Syms, NEW t \in Syms, NEW p \in Syms, AtAddressStore(x, t, p)
  PROVE  Sound'
<1> DEFINE y == Target(p)
           k == AtAddressCode(g, x, t, p, y)
           h == Hit(k, "pointer lost", TRUE)
<1>1. Pointer(p) /\ Generate(h)
  BY DEF AtAddressStore
<1>2. g \in Kept(Values, Syms, g) /\ y \in Syms
  BY <1>1, WholeKept, TargetIn DEF GenInv
<1>3. k \in Kept(Values, Syms, g)
  BY <1>2, AtAddressCodeKeeps
<1>4. "pointer lost" \in Reasons
  BY DEF Reasons
<1> HIDE DEF k, y
<1>5. h \in Kept(Values, Syms, g)
  BY <1>3, <1>4, MarkKeeps
<1>6. h.hit = k.hit \cup {"pointer lost"}
  BY <1>3 DEF Hit, Kept, Gens
<1> HIDE DEF h
<1> QED BY <1>1, <1>5, <1>6, GenerateMarked
-----------------------------------------------------------------------------
(* A byte is stored in the cell of byte i of y, which has no register.     *)
LEMMA RamRight ==
  ASSUME NEW o, NEW w, NEW h \in Right(Values, Syms, o, w), NEW y \in Syms, NEW i \in Bytes(y),
         NEW b, b = <<y, i>>, h.home[b] = None, h.at[y] # None, NEW c \in Cells,
         h.hit = {} => c = h.at[y] + i,
         NEW v \in Values \cup {Junk}, NEW u, Says(o, h, b, u, v),
         NEW k, k = [h EXCEPT !.ram[c] = v]
  PROVE  k \in Right(Values, Syms, o, With(w, b, u))
<1>1. h \in Kept(Values, Syms, o) /\ h \in Gens(Values) /\ Framed(h)
      /\ h.liveTo = o.liveTo /\ h.seq = o.seq /\ (h.hit = {} => Means(h, w))
  BY RightIs
<1>2. /\ k \in Kept(Values, Syms, o)
      /\ k.home = h.home /\ k.bank = h.bank /\ k.at = h.at /\ k.reg = h.reg
  BY <1>1, RamKeeps
<1>3. k.ram = [h.ram EXCEPT ![c] = v] /\ k.hit = h.hit /\ k.liveTo = h.liveTo /\ k.seq = h.seq
  BY <1>1 DEF Gens
<1>4. b \in AllBytes /\ b[1] = y /\ b[2] = i
  BY BytesArePlaces
<1>5. ASSUME k.hit = {}, NEW d \in AllBytes, k.liveTo[d[1]] >= k.seq, With(w, b, u)[d] # Junk
      PROVE  At(k, d) = With(w, b, u)[d]
  <2>1. c = h.at[y] + i /\ h.hit = {} /\ h.ram \in [Cells -> Values \cup {Junk}]
    BY <1>1, <1>3, <1>5 DEF Gens
  <2>2. CASE d = b
    <3>1. At(k, d) = v
      BY <1>2, <1>3, <1>4, <2>1, <2>2 DEF At
    <3> QED BY <1>1, <1>3, <1>5, <2>1, <2>2, <3>1 DEF With, Says
  <2>3. CASE d # b
    <3>1. h.at[d[1]] # None => h.at[d[1]] + d[2] # c
      BY <1>1, <1>4, <2>1, <2>3, CellsApart
    <3>2. d[1] \in Syms /\ d[2] \in 0 .. MaxSize - 1
      BY BytesArePlaces
    <3>3. h.at[d[1]] # None => h.at[d[1]] + d[2] \in Cells
      BY <1>1, <3>2, CellIn
    <3>4. At(k, d) = At(h, d)
      BY <1>2, <1>3, <2>1, <3>1, <3>3 DEF At
    <3>5. With(w, b, u)[d] = w[d]
      BY <2>3 DEF With
    <3> QED BY <1>1, <1>3, <1>5, <3>4, <3>5 DEF Means
  <2> QED BY <2>2, <2>3
<1>6. k.hit = {} => Means(k, With(w, b, u))
  BY <1>5 DEF Means
<1> QED BY <1>2, <1>6 DEF Right

(* Byte i of the object is stored through the pointer p.                   *)
LEMMA StoreByteRight ==
  ASSUME NEW o, NEW w, NEW h \in Right(Values, Syms, o, w), NEW p \in Syms, NEW y \in Syms,
         NEW z \in Syms, NEW i \in Bytes(y), h.home[<<z, i>>] \in Regs, PointsAt(o, w, p, y, i),
         NEW u, h.hit = {} => u = h.reg[h.home[<<z, i>>]],
         NEW k, k = StoreByte(h, p, y, z, i)
  PROVE  k \in Right(Values, Syms, o, Onwards(o, With(w, <<y, i>>, u), p, y, i, SizeOf[y]))
<1> DEFINE r == h.home[<<p, 0>>]
           b == <<y, i>>
           d == Cell(h.reg[r])
           c == o.at[y] + i
           a == h.reg[h.home[<<z, i>>]]
           m == StoredAt(h, d, a)
           s == StepOn(m, p, i, SizeOf[y])
           e == h.home[b] # None
           v == With(w, b, u)
           W == Onwards(o, v, p, y, i, SizeOf[y])
<1>1. /\ h \in Kept(Values, Syms, o) /\ h \in Gens(Values) /\ Framed(h)
      /\ h.liveTo = o.liveTo /\ h.seq = o.seq /\ (h.hit = {} => Means(h, w))
      /\ h.at[y] = o.at[y] /\ h.at[y] # None
  BY RightIs DEF PointsAt
<1>2. i \in 0 .. MaxSize - 1 /\ <<p, 0>> \in AllBytes /\ b \in AllBytes
  BY BytesArePlaces, RegsAssumption DEF Bytes
<1>3. c \in Cells
  BY <1>1, <1>2, CellIn
<1>4. "pointer spilled" \in Reasons /\ "object in register" \in Reasons
  BY DEF Reasons
<1>5. CASE r = None
  <2>1. k = [h EXCEPT !.hit = h.hit \cup {"pointer spilled"}]
    BY <1>5 DEF StoreByte, Hit
  <2> HIDE DEF W
  <2>2. k \in Right(Values, Syms, o, W)
    BY <1>1, <1>4, <2>1, MarkedRight
  <2> QED BY <2>2 DEF W
<1>6. CASE r # None
  <2>1. k = Hit(s, "object in register", e)
    BY <1>6 DEF StoreByte
  <2>2. a \in Values \cup {Junk} /\ (d = Junk \/ d \in Cells)
    BY <1>1, ValuesAre DEF Gens
  <2>3. h.hit = {} => d = c /\ c # Junk
    <3> SUFFICES ASSUME h.hit = {} PROVE d = c /\ c # Junk
      OBVIOUS
    <3>1. At(h, <<p, 0>>) = Address(c)
      BY <1>1, <1>2, <1>3, AddressCell DEF Means, PointsAt
    <3>2. h.reg[r] = Address(c)
      BY <1>6, <3>1 DEF At
    <3> QED BY <1>3, <3>2, AddressCell, AllBytesFinite, RegsAssumption DEF Cells
  <2>4. m = IF d = Junk THEN h ELSE [h EXCEPT !.ram[d] = a]
    BY DEF StoredAt
  <2>5. CASE e
    <3>1. m \in Kept(Values, Syms, o)
      <4>1. CASE d = Junk
        BY <1>1, <2>4, <4>1
      <4>2. CASE d # Junk
        <5>1. d \in Cells /\ m = [h EXCEPT !.ram[d] = a]
          BY <2>2, <2>4, <4>2
        <5> HIDE DEF m, d, a
        <5> QED BY <1>1, <2>2, <5>1, RamKeeps, Zenon
      <4> QED BY <4>1, <4>2
    <3> HIDE DEF m, W
    <3>2. s \in Kept(Values, Syms, o)
      BY <3>1, StepOnKeeps
    <3>3. k = [s EXCEPT !.hit = s.hit \cup {"object in register"}]
      BY <2>1, <2>5 DEF Hit
    <3> HIDE DEF s
    <3>4. k \in Right(Values, Syms, o, W)
      BY <1>4, <3>2, <3>3, MarkedRight
    <3> QED BY <3>4 DEF W
  <2>6. CASE ~e
    <3>1. Says(o, h, b, u, a)
      BY DEF Says
    <3>2. m \in Right(Values, Syms, o, v)
      <4>1. CASE d = Junk
        <5>1. m = h /\ h.hit # {}
          BY <2>3, <2>4, <4>1
        <5> HIDE DEF v, m
        <5> QED BY <1>1, <5>1, RightHit
      <4>2. CASE d # Junk
        <5>1. d \in Cells /\ m = [h EXCEPT !.ram[d] = a]
          BY <2>2, <2>4, <4>2
        <5>2. h.hit = {} => d = h.at[y] + i
          BY <1>1, <2>3
        <5>3. h.home[b] = None /\ b = <<y, i>>
          BY <2>6
        <5> HIDE DEF m, d, a, b
        <5>4. m \in Right(Values, Syms, o, With(w, b, u))
          BY <1>1, <2>2, <3>1, <5>1, <5>2, <5>3, RamRight, Zenon
        <5> QED BY <5>4
      <4> QED BY <4>1, <4>2
    <3>3. k = s
      BY <2>1, <2>6 DEF Hit
    <3>4. v[<<p, 0>>] = w[<<p, 0>>]
      <4>1. <<p, 0>> # b
        BY <1>6, <2>6
      <4> QED BY <1>2, <4>1 DEF With
    <3>5. PointsAt(o, v, p, y, i)
      BY <3>4 DEF PointsAt
    <3> HIDE DEF m, v
    <3>6. s \in Right(Values, Syms, o, W)
      BY <3>2, <3>5, StepOnRight
    <3> QED BY <3>3, <3>6 DEF v
  <2> QED BY <2>5, <2>6
<1> QED BY <1>5, <1>6

(* The meaning of y and p when j bytes of the n of v were stored.          *)
Placed(o, w, v, p, y, j, n) ==
  [b \in AllBytes |-> IF b[1] = y /\ b[2] < j THEN v[b[2]]
                      ELSE IF b = <<p, 0>> THEN Address(o.at[y] + (IF j < n THEN j ELSE n - 1))
                      ELSE w[b]]

LEMMA PlacedFirst ==
  ASSUME NEW o, NEW w, NEW v, NEW p \in Syms, NEW y \in Syms, Reaches(o, w, p, y)
  PROVE  Within(o, Placed(o, w, v, p, y, 0, SizeOf[y]), w)
<1>1. SizeOf[y] > 0 /\ o.at[y] + 0 = o.at[y]
  BY RegsAssumption DEF Reaches
<1>2. ASSUME NEW b \in AllBytes PROVE Placed(o, w, v, p, y, 0, SizeOf[y])[b] = w[b]
  <2>1. ~(b[2] < 0)
    BY BytesArePlaces, RegsAssumption DEF Bytes
  <2> QED BY <1>1, <2>1 DEF Placed, Reaches
<1> QED BY <1>2 DEF Within

LEMMA PlacedNext ==
  ASSUME NEW o, NEW w, NEW v, NEW p \in Syms, NEW y \in Syms, NEW n, n = SizeOf[y],
         NEW j \in Bytes(y), Reaches(o, w, p, y),
         NEW u, u = Placed(o, w, v, p, y, j, n)
  PROVE  /\ PointsAt(o, u, p, y, j)
         /\ \A z \in Syms : j \in Bytes(z) => u[<<z, j>>] = w[<<z, j>>]
         /\ Within(o, Placed(o, w, v, p, y, j + 1, n),
                   Onwards(o, With(u, <<y, j>>, v[j]), p, y, j, n))
<1> DEFINE q == With(u, <<y, j>>, v[j])
           m == Onwards(o, q, p, y, j, n)
           s == Placed(o, w, v, p, y, j + 1, n)
<1>1. /\ n \in Nat \ {0} /\ j \in 0 .. n - 1 /\ j \in Nat /\ <<y, j>> \in AllBytes
      /\ <<p, 0>> \in AllBytes /\ (y = p => n = 1 /\ j = 0) /\ SizeOf[p] = 1
      /\ w[<<p, 0>>] = Address(o.at[y])
  BY BytesArePlaces, RegsAssumption DEF Bytes, Reaches
<1>2. o.at[y] + 0 = o.at[y]
  BY DEF Reaches
<1>3. ASSUME NEW z \in Syms, j \in Bytes(z) PROVE u[<<z, j>>] = w[<<z, j>>]
  <2>1. <<z, j>> \in AllBytes /\ (z = p => j = 0) /\ ~(j < j)
    BY <1>1, <1>3, BytesArePlaces DEF Bytes
  <2>2. <<z, j>> = <<p, 0>> => j = 0
    BY <2>1
  <2> QED BY <1>1, <1>2, <2>1, <2>2 DEF Placed
<1>4. u[<<p, 0>>] = Address(o.at[y] + j)
  BY <1>1 DEF Placed
<1>5. ASSUME NEW b \in AllBytes PROVE s[b] = m[b]
  <2>0. b[2] \in Nat /\ b = <<b[1], b[2]>>
    BY BytesArePlaces, RegsAssumption DEF Bytes
  <2>1. CASE b = <<y, j>>
    <3>1. s[b] = v[j]
      BY <1>1, <2>1 DEF Placed
    <3>2. j < n - 1 => b # <<p, 0>>
      BY <1>1, <2>1
    <3>3. m[b] = q[b]
      BY <3>2 DEF Onwards, With
    <3> QED BY <2>1, <3>1, <3>3 DEF With
  <2>2. CASE b # <<y, j>> /\ b[1] = y /\ b[2] < j
    <3>1. y # p
      BY <1>1, <2>0, <2>2
    <3>2. b # <<p, 0>>
      BY <2>2, <3>1
    <3>3. m[b] = u[b]
      BY <2>2, <3>2 DEF Onwards, With
    <3>4. b[2] < j + 1
      BY <1>1, <2>0, <2>2
    <3> QED BY <2>2, <3>3, <3>4 DEF Placed
  <2>3. CASE b # <<y, j>> /\ ~(b[1] = y /\ b[2] < j)
    <3>1. ~(b[1] = y /\ b[2] < j + 1)
      BY <1>1, <2>0, <2>3
    <3>2. CASE b = <<p, 0>>
      <4>1. s[b] = Address(o.at[y] + (IF j + 1 < n THEN j + 1 ELSE n - 1))
        BY <3>1, <3>2 DEF Placed
      <4>2. CASE j < n - 1
        BY <1>1, <3>2, <4>1, <4>2 DEF Onwards, With
      <4>3. CASE ~(j < n - 1)
        <5>1. j = n - 1 /\ ~(j + 1 < n)
          BY <1>1, <4>3
        <5>2. m[b] = u[b]
          BY <2>3, <4>3 DEF Onwards, With
        <5> QED BY <1>4, <3>2, <4>1, <5>1, <5>2
      <4> QED BY <4>2, <4>3
    <3>3. CASE b # <<p, 0>>
      <4>1. m[b] = u[b]
        BY <2>3, <3>3 DEF Onwards, With
      <4>2. s[b] = w[b] /\ u[b] = w[b]
        BY <2>3, <3>1, <3>3 DEF Placed
      <4> QED BY <4>1, <4>2
    <3> QED BY <3>2, <3>3
  <2> QED BY <2>1, <2>2, <2>3
<1>6. Within(o, s, m)
  BY <1>5 DEF Within
<1>7. PointsAt(o, u, p, y, j)
  BY <1>4 DEF PointsAt, Reaches
<1> QED BY <1>3, <1>6, <1>7
(* A byte of z is put into the object, and one of a literal.               *)
LEMMA PutByteRight ==
  ASSUME NEW o, NEW w, NEW v, NEW p \in Syms, NEW y \in Syms, NEW z \in Syms, NEW n, n = SizeOf[y],
         SizeOf[z] = n, NEW i \in Bytes(y), Reaches(o, w, p, y), o.liveTo[z] >= o.seq,
         Defined(w, z), v[i] = w[<<z, i>>],
         NEW h \in Right(Values, Syms, o, Placed(o, w, v, p, y, i, n)),
         NEW k, k = PutByte(h, p, y, z, i)
  PROVE  k \in Right(Values, Syms, o, Placed(o, w, v, p, y, i + 1, n))
<1> DEFINE u == Placed(o, w, v, p, y, i, n)
           W == Placed(o, w, v, p, y, i + 1, n)
           q == Touch(h, z, i)
           m == StoreByte(q, p, y, z, i)
<1>1. /\ PointsAt(o, u, p, y, i)
      /\ \A x \in Syms : i \in Bytes(x) => u[<<x, i>>] = w[<<x, i>>]
      /\ Within(o, W, Onwards(o, With(u, <<y, i>>, v[i]), p, y, i, n))
  BY PlacedNext
<1>2. i \in Bytes(z) /\ i \in 0 .. MaxSize - 1 /\ <<z, i>> \in AllBytes
  BY BytesArePlaces, RegsAssumption DEF Bytes
<1>3. u[<<z, i>>] = v[i] /\ v[i] # Junk
  BY <1>1, <1>2 DEF Defined
<1> HIDE DEF u, W
<1>4. h \in Right(Values, Syms, o, u)
  BY DEF u
<1>5. h \in Kept(Values, Syms, o) /\ Covers(Syms, o)
  BY <1>4, RightIs, CoversAll
<1>6. CASE Crashed(h)
  <2>1. k = h /\ h.hit # {}
    BY <1>6 DEF PutByte, Crashed
  <2>2. k \in Right(Values, Syms, o, W)
    BY <1>5, <2>1, RightHit
  <2> QED BY <2>2 DEF W
<1>7. CASE ~Crashed(h)
  <2>0. i \in 0 .. MaxSize - 1 /\ Covers(Syms, o)
    BY <1>2, <1>5
  <2>1. q \in Right(Values, Syms, o, u) /\ (q.hit = {} => h.hit = {})
    BY <1>4, <2>0, TouchRight
  <2>2. q.home[<<z, i>>] \in Regs
    BY <1>2, <1>5, TouchKeeps
  <2>3. k = m
    BY <1>7 DEF PutByte
  <2> HIDE DEF q
  <2>4. q.liveTo = o.liveTo /\ q.seq = o.seq /\ (q.hit = {} => Means(q, u))
    BY <2>1, RightIs
  <2>5. q.hit = {} => v[i] = q.reg[q.home[<<z, i>>]]
    <3> SUFFICES ASSUME q.hit = {} PROVE v[i] = q.reg[q.home[<<z, i>>]]
      OBVIOUS
    <3>1. At(q, <<z, i>>) = v[i]
      BY <1>2, <1>3, <2>4 DEF Means
    <3>2. q.home[<<z, i>>] # None
      BY <2>2, RegsAssumption DEF Regs
    <3> QED BY <3>1, <3>2 DEF At
  <2>6. m \in Right(Values, Syms, o, Onwards(o, With(u, <<y, i>>, v[i]), p, y, i, n))
    BY <1>1, <2>1, <2>2, <2>5, StoreByteRight
  <2> HIDE DEF m
  <2>7. m \in Right(Values, Syms, o, W)
    BY <1>1, <2>6, RightWeak
  <2> QED BY <2>3, <2>7 DEF W
<1> QED BY <1>6, <1>7

LEMMA LoadLitHolds ==
  ASSUME NEW V, NEW D, NEW o, NEW h \in Kept(V, D, o), NEW x \in Syms,
         NEW i \in 0 .. MaxSize - 1, NEW c \in V, NEW k, k = LoadLit(h, x, i, c)
  PROVE  k.home[<<x, i>>] \in Regs /\ k.reg[k.home[<<x, i>>]] = c
<1> DEFINE m == Touch(h, x, i)
<1>1. k = Emit(m, m.home[<<x, i>>], c)
  BY DEF LoadLit
<1>2. m \in Kept(V, D, o) /\ m.home[<<x, i>>] \in Regs
  BY TouchKeeps
<1> HIDE DEF m
<1>3. k.home[<<x, i>>] = m.home[<<x, i>>] /\ k.reg[m.home[<<x, i>>]] = c
  BY <1>1, <1>2 DEF Emit, Kept, Gens
<1> QED BY <1>2, <1>3

LEMMA PutLitRight ==
  ASSUME NEW o, NEW w, NEW v, NEW p \in Syms, NEW y \in Syms, NEW n, n = SizeOf[y],
         NEW i \in Bytes(y), Reaches(o, w, p, y), ~(o.liveTo[tmpOp] >= o.seq), v[i] \in Byte,
         NEW h \in Right(Values, Syms, o, Placed(o, w, v, p, y, i, n)),
         NEW k, k = PutLit(h, p, y, v, i)
  PROVE  k \in Right(Values, Syms, o, Placed(o, w, v, p, y, i + 1, n))
<1> DEFINE u == Placed(o, w, v, p, y, i, n)
           W == Placed(o, w, v, p, y, i + 1, n)
           b == <<tmpOp, i>>
           q == LoadLit(h, tmpOp, i, v[i])
           m == StoreByte(q, p, y, tmpOp, i)
<1>1. /\ PointsAt(o, u, p, y, i)
      /\ Within(o, W, Onwards(o, With(u, <<y, i>>, v[i]), p, y, i, n))
  BY PlacedNext
<1>2. tmpOp \in Syms /\ v[i] \in Values
  BY PtrAssumption, ValuesAre
<1>3. i \in 0 .. MaxSize - 1
  BY RegsAssumption DEF Bytes
<1> HIDE DEF u, W
<1>4. h \in Right(Values, Syms, o, u)
  BY DEF u
<1>5. h \in Kept(Values, Syms, o) /\ Covers(Syms, o)
  BY <1>4, RightIs, CoversAll
<1>6. CASE Crashed(h)
  <2>1. k = h /\ h.hit # {}
    BY <1>6 DEF PutLit, Crashed
  <2>2. k \in Right(Values, Syms, o, W)
    BY <1>5, <2>1, RightHit
  <2> QED BY <2>2 DEF W
<1>7. CASE ~Crashed(h)
  <2>0. Covers(Syms, o)
    BY <1>5
  <2>1. /\ q \in Right(Values, Syms, o, With(u, b, v[i]))
        /\ q.home[b] \in Regs /\ q.reg[q.home[b]] = v[i]
    <3> DEFINE c == v[i]
    <3>1. c \in Values /\ q = LoadLit(h, tmpOp, i, c)
      BY <1>2
    <3> HIDE DEF c, q
    <3>2. tmpOp \in Syms
      BY <1>2
    <3>3. q \in Right(Values, Syms, o, With(u, <<tmpOp, i>>, c))
      BY <1>3, <1>4, <2>0, <3>1, <3>2, LoadLitRight
    <3>4. q.home[<<tmpOp, i>>] \in Regs /\ q.reg[q.home[<<tmpOp, i>>]] = c
      BY <1>3, <1>5, <3>1, <3>2, LoadLitHolds
    <3> QED BY <3>3, <3>4 DEF c
  <2>2. k = m
    BY <1>7 DEF PutLit
  <2>3. Within(o, u, With(u, b, v[i]))
    BY DEF Within, With
  <2> HIDE DEF q
  <2>4. q \in Right(Values, Syms, o, u)
    BY <2>1, <2>3, RightWeak
  <2>6. m \in Right(Values, Syms, o, Onwards(o, With(u, <<y, i>>, v[i]), p, y, i, n))
    BY <1>1, <1>2, <2>1, <2>4, StoreByteRight
  <2> HIDE DEF m
  <2>7. m \in Right(Values, Syms, o, W)
    BY <1>1, <2>6, RightWeak
  <2> QED BY <2>2, <2>7 DEF W
<1> QED BY <1>6, <1>7

LEMMA StoresRight ==
  ASSUME NEW o, NEW w, NEW v, NEW p \in Syms, NEW y \in Syms, NEW z \in Syms,
         SizeOf[z] = SizeOf[y], Reaches(o, w, p, y), o.liveTo[z] >= o.seq,
         Defined(w, z), \A i \in Bytes(y) : v[i] = w[<<z, i>>], NEW h \in Right(Values, Syms, o, w)
  PROVE  Stores(h, p, y, z, SizeOf[y])
           \in Right(Values, Syms, o, Placed(o, w, v, p, y, SizeOf[y], SizeOf[y]))
<1> DEFINE n == SizeOf[y]
           R(j) == Right(Values, Syms, o, Placed(o, w, v, p, y, j, n))
           K == [j \in 0 .. n |-> R(j)]
<1>1. n \in Nat /\ 0 .. n - 1 = Bytes(y)
  BY RegsAssumption DEF Bytes
<1>2. ASSUME NEW i \in Bytes(y), NEW k \in R(i) PROVE PutByte(k, p, y, z, i) \in R(i + 1)
  BY PutByteRight
<1>3. Stores(h, p, y, z, n) \in R(n)
  <2>1. h \in R(0)
    BY PlacedFirst, RightWeak
  <2> HIDE DEF n, R
  <2>2. h \in K[0] /\ K[n] = R(n) /\ \A i \in 0 .. n - 1 : K[i] = R(i) /\ K[i + 1] = R(i + 1)
    BY <1>1, <2>1
  <2> HIDE DEF K
  <2>3. ASSUME NEW i \in 0 .. n - 1, NEW k \in K[i]
        PROVE  PutByte(k, p, y, z, i) \in K[i + 1]
    <3>1. i \in Bytes(y) /\ k \in R(i)
      BY <1>1, <2>2
    <3> QED BY <1>2, <2>2, <3>1
  <2>4. Stores(h, p, y, z, n) \in K[n]
    BY <1>1, <2>2, <2>3, StoresReach
  <2> QED BY <2>2, <2>4
<1> QED BY <1>3

LEMMA StoreLitsRight ==
  ASSUME NEW o, NEW w, NEW v, NEW p \in Syms, NEW y \in Syms, Reaches(o, w, p, y),
         ~(o.liveTo[tmpOp] >= o.seq), \A i \in Bytes(y) : v[i] \in Byte,
         NEW h \in Right(Values, Syms, o, w)
  PROVE  StoreLits(h, p, y, v, SizeOf[y])
           \in Right(Values, Syms, o, Placed(o, w, v, p, y, SizeOf[y], SizeOf[y]))
<1> DEFINE n == SizeOf[y]
           R(j) == Right(Values, Syms, o, Placed(o, w, v, p, y, j, n))
           K == [j \in 0 .. n |-> R(j)]
<1>1. n \in Nat /\ 0 .. n - 1 = Bytes(y)
  BY RegsAssumption DEF Bytes
<1>2. ASSUME NEW i \in Bytes(y), NEW k \in R(i) PROVE PutLit(k, p, y, v, i) \in R(i + 1)
  BY PutLitRight
<1>3. StoreLits(h, p, y, v, n) \in R(n)
  <2>1. h \in R(0)
    BY PlacedFirst, RightWeak
  <2> HIDE DEF n, R
  <2>2. h \in K[0] /\ K[n] = R(n) /\ \A i \in 0 .. n - 1 : K[i] = R(i) /\ K[i + 1] = R(i + 1)
    BY <1>1, <2>1
  <2> HIDE DEF K
  <2>3. ASSUME NEW i \in 0 .. n - 1, NEW k \in K[i]
        PROVE  PutLit(k, p, y, v, i) \in K[i + 1]
    <3>1. i \in Bytes(y) /\ k \in R(i)
      BY <1>1, <2>2
    <3> QED BY <1>2, <2>2, <3>1
  <2>4. StoreLits(h, p, y, v, n) \in K[n]
    BY <1>1, <2>2, <2>3, StoreLitsReach
  <2> QED BY <2>2, <2>4
<1> QED BY <1>3

(* The object means v, and the pointer what it did, if it is still read.   *)
LEMMA StoredRight ==
  ASSUME GenInv, NEW v, NEW p \in Syms, NEW y \in Syms, Reaches(g, val, p, y),
         NEW h \in Right(Values, Syms, g, Placed(g, val, v, p, y, SizeOf[y], SizeOf[y])),
         Generate(WayBack(h, p, p, SizeOf[y])), val' = Value(val, y, v)
  PROVE  Sound'
<1> DEFINE n == SizeOf[y]
           P == <<p, 0>>
           k == WayBack(h, p, p, n)
           W == Placed(g, val, v, p, y, n, n)
           U == With(W, P, Address(g.at[y]))
<1>1. /\ n \in Nat \ {0} /\ P \in AllBytes /\ SizeOf[p] = 1 /\ g.liveTo[p] >= g.seq
      /\ g.at[y] # None /\ g.at[y] \in Nat /\ val[P] = Address(g.at[y])
  BY BytesArePlaces, RegsAssumption DEF Reaches, Bytes
<1>2. /\ h \in Kept(Values, Syms, g) /\ h \in Gens(Values) /\ Framed(h)
      /\ h.liveTo = g.liveTo /\ h.seq = g.seq /\ h.at[y] = g.at[y]
  BY <1>1, RightIs
<1>3. ASSUME NEW b \in AllBytes, b # P \/ b[1] = y PROVE val'[b] = W[b]
  <2>1. b[2] \in Bytes(b[1])
    BY BytesArePlaces
  <2>2. b[1] = y => b[2] < n
    BY <1>1, <2>1 DEF Bytes
  <2> QED BY <1>3, <2>2 DEF Value, Placed
<1>4. Generate(k)
  OBVIOUS
<1>5. CASE Crashed(h)
  <2>1. k = h /\ h.hit # {}
    BY <1>5 DEF WayBack, Crashed
  <2> HIDE DEF k
  <2>2. \A u : k \in Right(Values, Syms, g, u)
    BY <1>2, <2>1, RightHit
  <2>3. k \in Right(Values, Syms, g, val') /\ Stands(val')
    BY <2>2 DEF Stands
  <2> QED BY <1>4, <2>3, GenerateRight
<1>6. CASE ~Crashed(h) /\ ~Goes(h, p, n)
  <2>1. k = h
    BY <1>6 DEF WayBack
  <2>2. Stands(W)
    <3> SUFFICES ASSUME NEW b \in AllBytes, g.liveTo[b[1]] > g.seq PROVE val'[b] = W[b]
      BY DEF Stands
    <3>1. CASE b # P \/ b[1] = y
      BY <1>3, <3>1
    <3>2. CASE b = P /\ b[1] # y
      <4>1. ~(n > 1)
        BY <1>2, <1>6, <3>2 DEF Goes
      <4>2. ~(n < n) /\ n - 1 = 0 /\ g.at[y] + 0 = g.at[y]
        BY <1>1, <4>1
      <4>3. W[b] = Address(g.at[y])
        BY <3>2, <4>2 DEF Placed
      <4> QED BY <1>1, <3>2, <4>3 DEF Value
    <3> QED BY <3>1, <3>2
  <2> HIDE DEF W, k
  <2>3. k \in Right(Values, Syms, g, W)
    BY <2>1 DEF W
  <2> QED BY <1>4, <2>2, <2>3, GenerateRight
<1>7. CASE ~Crashed(h) /\ Goes(h, p, n)
  <2>1. k = Move(h, p, 1 - n) /\ n > 1 /\ y # p
    BY <1>1, <1>7 DEF WayBack, Goes
  <2> DEFINE c == g.at[y] + (n - 1)
  <2>2. n - 1 \in 0 .. MaxSize - 1 /\ 0 \in 0 .. MaxSize - 1
    BY <1>1, RegsAssumption
  <2>3. h.at[y] + (n - 1) \in Cells /\ h.at[y] + 0 \in Cells
    BY <1>1, <1>2, <2>2, CellIn
  <2>4. c \in Cells /\ g.at[y] \in Cells /\ c + (1 - n) = g.at[y]
    <3>1. c \in Cells /\ g.at[y] + 0 \in Cells
      BY <1>2, <2>3
    <3>2. g.at[y] + 0 = g.at[y] /\ c + (1 - n) = g.at[y]
      BY <1>1
    <3> QED BY <3>1, <3>2
  <2>5. W[P] = Address(c)
    <3>1. P[1] # y /\ ~(n < n)
      BY <1>1, <2>1
    <3> QED BY <1>1, <3>1 DEF Placed
  <2> HIDE DEF c
  <2>6. W[P] # Junk /\ Shift(W[P], 1 - n) = Address(g.at[y])
    BY <2>4, <2>5, AddressCell DEF Shift
  <2>7. Stands(U)
    <3> SUFFICES ASSUME NEW b \in AllBytes PROVE val'[b] = U[b]
      BY DEF Stands
    <3>1. CASE b # P
      BY <1>3, <3>1 DEF With
    <3>2. CASE b = P
      <4>1. b[1] # y
        BY <2>1, <3>2
      <4> QED BY <1>1, <3>2, <4>1 DEF Value, With
    <3> QED BY <3>1, <3>2
  <2>8. h \in Right(Values, Syms, g, W) /\ 1 - n \in Int
    BY <1>1
  <2> HIDE DEF W, k
  <2>9. k \in Right(Values, Syms, g, With(W, P, Shift(W[P], 1 - n)))
    BY <1>1, <2>1, <2>6, <2>8, MoveRight
  <2>10. k \in Right(Values, Syms, g, U)
    BY <2>6, <2>9
  <2> HIDE DEF U
  <2> QED BY <1>4, <2>7, <2>10, GenerateRight
<1> QED BY <1>5, <1>6, <1>7

LEMMA PointerSetRight ==
  ASSUME GenInv, Sound, NEW p \in Syms, NEW z \in Syms, PointerSet(p, z)
  PROVE  Sound'
<1> DEFINE y == Target(p)
           v == BytesOf(z)
           k == Stores(g, p, y, z, SizeOf[y])
<1>1. /\ Pointer(p) /\ Readable(z) /\ SizeOf[z] = SizeOf[y] /\ Writable(y)
      /\ Generate(WayBack(k, p, p, SizeOf[y])) /\ val' = Value(val, y, v)
  BY DEF PointerSet, PointerSetCode, Stores, PutByte, ForBytes
<1> HIDE DEF y, k
<1>2. /\ y \in Syms /\ g.at[y] \in Cells /\ g.at[y] \in Nat /\ g.at[y] # None
      /\ val[<<p, 0>>] = Address(g.at[y])
  BY <1>1, TargetIs DEF y
<1>3. Reaches(g, val, p, y) /\ Defined(val, z) /\ g.liveTo[z] >= g.seq
  BY <1>1, <1>2 DEF Reaches, Defined, Pointer, Readable, Writable
<1>4. \A i \in Bytes(y) : v[i] = val[<<z, i>>]
  BY <1>1 DEF BytesOf, Bytes
<1>5. g \in Right(Values, Syms, g, val)
  BY SoundRight
<1> HIDE DEF v
<1>6. k \in Right(Values, Syms, g, Placed(g, val, v, p, y, SizeOf[y], SizeOf[y]))
  BY <1>1, <1>2, <1>3, <1>4, <1>5, StoresRight DEF k
<1> QED BY <1>1, <1>2, <1>3, <1>6, StoredRight

(* The store behind AtAddressStore: the object has a register when a byte  *)
(* of it was printed.                                                      *)
LEMMA PutByteMarked ==
  ASSUME NEW o, NEW h \in Kept(Values, Syms, o), NEW p \in Syms, NEW z \in Syms,
         NEW i \in Bytes(z), NEW k, k = PutByte(h, p, z, z, i)
  PROVE  k \in Kept(Values, Syms, o) /\ k.hit # {}
<1> DEFINE q == Touch(h, z, i)
           m == StoredAt(q, Cell(q.reg[q.home[<<p, 0>>]]), q.reg[q.home[<<z, i>>]])
           s == StepOn(m, p, i, SizeOf[z])
<1>1. i \in 0 .. MaxSize - 1
  BY RegsAssumption DEF Bytes
<1>2. q \in Kept(Values, Syms, o) /\ q.home[<<z, i>>] \in Regs /\ None \notin Regs
  BY <1>1, TouchKeeps, RegsAssumption DEF Regs
<1>3. CASE Crashed(h)
  BY <1>3 DEF PutByte, Crashed
<1>4. CASE ~Crashed(h)
  <2>1. k = StoreByte(q, p, z, z, i)
    BY <1>4 DEF PutByte
  <2> HIDE DEF q
  <2>2. k \in Kept(Values, Syms, o)
    BY <1>1, <1>2, <2>1, StoreByteKeeps
  <2>3. \/ k = [q EXCEPT !.hit = q.hit \cup {"pointer spilled"}]
        \/ k = [s EXCEPT !.hit = s.hit \cup {"object in register"}]
    BY <1>2, <2>1 DEF StoreByte, Hit
  <2>4. k \in Gens(Values)
    BY <2>2 DEF Kept
  <2> HIDE DEF s
  <2>5. "hit" \in DOMAIN k
    BY <2>4 DEF Gens
  <2>6. CASE k = [q EXCEPT !.hit = q.hit \cup {"pointer spilled"}]
    BY <1>2, <2>2, <2>6 DEF Kept, Gens
  <2>7. CASE k = [s EXCEPT !.hit = s.hit \cup {"object in register"}]
    <3>1. DOMAIN k = DOMAIN s
      BY <2>7
    <3> QED BY <2>2, <2>5, <2>7, <3>1
  <2> QED BY <2>2, <2>3, <2>6, <2>7
<1> QED BY <1>3, <1>4

LEMMA StoresMarked ==
  ASSUME NEW o, NEW h \in Kept(Values, Syms, o), NEW p \in Syms, NEW z \in Syms
  PROVE  LET k == Stores(h, p, z, z, SizeOf[z]) IN k \in Kept(Values, Syms, o) /\ k.hit # {}
<1> DEFINE n == SizeOf[z]
           R(j) == {k \in Kept(Values, Syms, o) : j > 0 => k.hit # {}}
           K == [j \in 0 .. n |-> R(j)]
<1>1. n \in Nat \ {0} /\ 0 .. n - 1 = Bytes(z)
  BY RegsAssumption DEF Bytes
<1>2. ASSUME NEW i \in Bytes(z), NEW k \in R(i) PROVE PutByte(k, p, z, z, i) \in R(i + 1)
  <2>1. k \in Kept(Values, Syms, o)
    OBVIOUS
  <2> QED BY <2>1, PutByteMarked
<1>3. Stores(h, p, z, z, n) \in R(n)
  <2>1. h \in R(0)
    OBVIOUS
  <2> HIDE DEF n, R
  <2>2. h \in K[0] /\ K[n] = R(n) /\ \A i \in 0 .. n - 1 : K[i] = R(i) /\ K[i + 1] = R(i + 1)
    BY <1>1, <2>1
  <2> HIDE DEF K
  <2>3. ASSUME NEW i \in 0 .. n - 1, NEW k \in K[i]
        PROVE  PutByte(k, p, z, z, i) \in K[i + 1]
    <3>1. i \in Bytes(z) /\ k \in R(i)
      BY <1>1, <2>2
    <3> QED BY <1>2, <2>2, <3>1
  <2>4. Stores(h, p, z, z, n) \in K[n]
    BY <1>1, <2>2, <2>3, StoresReach
  <2> QED BY <2>2, <2>4
<1> QED BY <1>1, <1>3

LEMMA PointerSetBackRight ==
  ASSUME GenInv, NEW p \in Syms, NEW z \in Syms, PointerSetBack(p, z)
  PROVE  Sound'
<1> DEFINE n == SizeOf[z]
           h == Stores(g, p, z, z, n)
           k == WayBack(h, p, p, n)
<1>1. Generate(k)
  BY DEF PointerSetBack, PointerSetCode, Stores, PutByte, ForBytes
<1>2. g \in Kept(Values, Syms, g) /\ n \in Nat
  BY WholeKept, RegsAssumption DEF GenInv
<1>3. h \in Kept(Values, Syms, g) /\ h.hit # {}
  BY <1>2, StoresMarked
<1> HIDE DEF h
<1>4. k = h \/ k = Move(h, p, 1 - n)
  BY DEF WayBack
<1>5. k \in Kept(Values, Syms, g)
  BY <1>2, <1>3, WayBackKeeps
<1> HIDE DEF k
<1>6. k.hit # {}
  <2>1. CASE k = Move(h, p, 1 - n)
    <3>1. h \in Gens(Values)
      BY <1>3 DEF Kept
    <3>2. ASSUME k.hit = {} PROVE h.hit = {}
      BY <2>1, <3>1, <3>2, MoveQuiet
    <3> QED BY <1>3, <3>2
  <2> QED BY <1>3, <1>4, <2>1
<1> QED BY <1>1, <1>5, <1>6, GenerateMarked

(* The iTemp of the literals is never read.                                *)
Mute == g.liveTo[tmpOp] = 0

LEMMA PointerSetLitRight ==
  ASSUME GenInv, Sound, Mute, NEW p \in Syms, NEW x \in Syms, NEW c \in Literals(x),
         PointerSetLit(p, c)
  PROVE  Sound'
<1> DEFINE y == Target(p)
           h == [g EXCEPT !.home = [b \in Places |-> IF b[1] = tmpOp THEN None ELSE g.home[b]]]
           k == StoreLits(h, p, y, c, SizeOf[y])
<1>1. /\ Pointer(p) /\ DOMAIN c = Bytes(y) /\ Writable(y)
      /\ Generate(WayBack(k, p, p, SizeOf[y])) /\ val' = Value(val, y, c)
  BY DEF PointerSetLit, PointerSetCode, StoreLits, PutLit, ForBytes
<1>2. h \in Right(Values, Syms, g, val) /\ ~(g.liveTo[tmpOp] >= g.seq)
  <2>1. /\ g \in Right(Values, Syms, g, val) /\ g \in Kept(Values, Syms, g) /\ g \in Gens(Values)
    BY SoundRight, RightIs
  <2>2. ~(g.liveTo[tmpOp] >= g.seq)
    BY GenAssumption DEF Mute, GenInv
  <2>3. h \in Kept(Values, Syms, g)
    BY <2>1, ForgetKeeps
  <2>4. /\ h.hit = g.hit /\ h.reg = g.reg /\ h.at = g.at /\ h.ram = g.ram
        /\ \A b \in Places : b[1] # tmpOp => h.home[b] = g.home[b]
    BY <2>1 DEF Gens
  <2> HIDE DEF h
  <2>5. Still(g, val, g, h)
    BY <2>2, <2>4, BytesArePlaces DEF Still, At
  <2>6. h \in Right(Values, Syms, g, val)
    BY <2>1, <2>3, <2>4, <2>5, RightSame
  <2> QED BY <2>2, <2>6
<1> HIDE DEF y, k, h
<1>3. /\ y \in Syms /\ g.at[y] \in Cells /\ g.at[y] \in Nat /\ g.at[y] # None
      /\ val[<<p, 0>>] = Address(g.at[y])
  BY <1>1, TargetIs DEF y
<1>4. Reaches(g, val, p, y)
  BY <1>1, <1>3 DEF Reaches, Pointer, Readable, Writable
<1>5. \A i \in Bytes(y) : c[i] \in Byte
  BY <1>1, GenAssumption
<1>6. k \in Right(Values, Syms, g, Placed(g, val, c, p, y, SizeOf[y], SizeOf[y]))
  BY <1>2, <1>3, <1>4, <1>5, StoreLitsRight DEF k
<1> QED BY <1>1, <1>3, <1>4, <1>6, StoredRight
-----------------------------------------------------------------------------
(* Every instruction without a jump.                                       *)
LEMMA InstructionRight ==
  ASSUME GenInv, Sound, NEW x \in Syms, Instruction(x)
  PROVE  Sound'
<1>1. ASSUME NEW y \in Syms, Assign(x, y) \/ AssignBack(x, y) \/ Cast(x, y) PROVE Sound'
  BY <1>1, AssignRight, AssignBackRight, CastRight
<1>2. ASSUME NEW c \in Literals(x), AssignLit(x, c) PROVE Sound'
  BY <1>2, AssignLitRight
<1>3. ASSUME NEW op \in Ops, NEW y \in Syms, NEW z \in Syms,
             Operation(op, x, y, z) \/ OperationBack(op, x, y, z)
      PROVE  Sound'
  BY <1>3, OperationRight, OperationBackRight
<1>4. ASSUME NEW op \in Ops, NEW y \in Syms, NEW c \in Literals(y),
             \/ OperationLit(op, x, y, c) \/ OperationLitBack(op, x, y, c)
             \/ LitOperation(op, x, c, y)
      PROVE  Sound'
  BY <1>4, OperationLitRight, OperationLitBackRight, LitOperationRight
<1> QED BY <1>1, <1>2, <1>3, <1>4 DEF Instruction

LEMMA PtrInstructionRight ==
  ASSUME GenInv, Sound, Mute, NEW x \in Syms, PtrInstruction(x)
  PROVE  Sound'
<1>1. ASSUME NEW y \in Syms, AddressOf(x, y) \/ AtAddress(x, y) PROVE Sound'
  BY <1>1, AddressOfRight, AtAddressRight
<1>2. ASSUME NEW y \in Syms, PointerSet(x, y) \/ PointerSetBack(x, y) PROVE Sound'
  BY <1>2, PointerSetRight, PointerSetBackRight
<1>3. ASSUME NEW y \in Syms, NEW c \in Literals(y), PointerSetLit(x, c) PROVE Sound'
  BY <1>3, PointerSetLitRight
<1>4. ASSUME NEW y \in Syms, NEW p \in Syms, AtAddressBack(y, x, p) \/ AtAddressStore(y, x, p)
      PROVE  Sound'
  BY <1>4, AtAddressBackRight, AtAddressStoreRight
<1> QED BY <1>1, <1>2, <1>3, <1>4, InstructionRight DEF PtrInstruction
-----------------------------------------------------------------------------
(* Jumps.  The machine that is away finds what the program meant when it   *)
(* jumped, in the registers of then and in cells that are still the same.  *)
Afar ==
  away # None => /\ away.at.hit = {} => Means(away.at, away.val)
                 /\ away.at.liveTo = g.liveTo /\ away.at.seq <= g.seq
                 /\ \A x \in Syms : away.at.at[x] # None => g.at[x] = away.at.at[x]

LEMMA AfarStays ==
  ASSUME LabelInv, Afar, Stays, UNCHANGED away
  PROVE  Afar'
<1> SUFFICES ASSUME away # None PROVE Afar'
  BY DEF Afar
<1>1. away.at.seq <= g.seq /\ away.at.seq \in Nat /\ g.seq \in Nat
  BY DEF Afar, LabelInv, GenInv, Gens
<1>2. g'.seq = g.seq + 1
  BY DEF Stays
<1>3. away.at.seq <= g'.seq
  BY <1>1, <1>2
<1>4. away.at.liveTo = g'.liveTo
  BY DEF Afar, Stays
<1>5. \A x \in Syms : away.at.at[x] # None => g'.at[x] = away.at.at[x]
  BY DEF Afar, Stays
<1> QED BY <1>3, <1>4, <1>5 DEF Afar

(* A jump away from the state h.                                           *)
LEMMA JumpRight ==
  ASSUME LabelInv, Afar, Stays, NEW h \in Right(Values, Syms, g, val),
         \A x \in Syms : h.at[x] # None => g'.at[x] = h.at[x],
         NEW l, NEW e, JumpTo(l, h, e)
  PROVE  Afar'
<1>1. CASE away' = away
  BY <1>1, AfarStays
<1>2. CASE away' = [to |-> l, at |-> h, val |-> val]
  <2>1. h.liveTo = g.liveTo /\ h.seq = g.seq /\ (h.hit = {} => Means(h, val))
    BY RightIs
  <2>2. h.liveTo = g'.liveTo
    BY <2>1 DEF Stays
  <2>3. h.seq <= g'.seq
    <3>1. g.seq \in Nat /\ g'.seq = g.seq + 1
      BY DEF Stays, LabelInv, GenInv
    <3> QED BY <2>1, <3>1
  <2>4. away'.at = h /\ away'.val = val
    BY <1>2
  <2> HIDE <1>2
  <2> QED BY <2>1, <2>2, <2>3, <2>4 DEF Afar
<1> QED BY <1>1, <1>2 DEF JumpTo

LEMMA ComparedRight ==
  ASSUME NEW o, NEW w, NEW h \in Right(Values, Syms, o, w), NEW c \in Syms
  PROVE  Compared(h, c) \in Right(Values, Syms, o, w)
<1> DEFINE n == SizeOf[c]
           R == Right(Values, Syms, o, w)
           K == [j \in 0 .. n |-> R]
<1>1. n \in Nat /\ 0 .. n - 1 \subseteq 0 .. MaxSize - 1 /\ Covers(Syms, o)
  BY RegsAssumption, CoversAll
<1>2. ASSUME NEW i \in 0 .. n - 1, NEW k \in R PROVE CompareByte(k, c, i) \in R
  <2> DEFINE m == Touch(k, c, i)
             q == [m EXCEPT !.carry = 0]
  <2>1. i \in 0 .. MaxSize - 1 /\ Covers(Syms, o)
    BY <1>1
  <2>2. m \in Right(Values, Syms, o, w)
    BY <2>1, TouchRight
  <2> HIDE DEF m
  <2>3. q \in Right(Values, Syms, o, w)
    BY <2>2, CarryRight
  <2> QED BY <2>3 DEF CompareByte, m
<1>3. Compares(h, c, n) \in R
  <2>1. h \in R
    OBVIOUS
  <2> HIDE DEF n, R
  <2>2. h \in K[0] /\ K[n] = R /\ \A i \in 0 .. n - 1 : K[i] = R /\ K[i + 1] = R
    BY <1>1, <2>1
  <2> HIDE DEF K
  <2>3. \A i \in 0 .. n - 1 : \A k \in K[i] : CompareByte(k, c, i) \in K[i + 1]
    BY <1>2, <2>2
  <2>4. Compares(h, c, n) \in K[n]
    BY <1>1, <2>2, <2>3, ComparesReach
  <2> QED BY <2>2, <2>4
<1>4. Compared(h, c) = Compares(h, c, n)
  BY DEF Compared, Compares, CompareByte, ForBytes
<1> QED BY <1>3, <1>4

LEMMA BranchRight ==
  ASSUME LabelInv, Sound, Afar, NEW h \in Right(Values, Syms, g, val), NEW c \in Syms,
         NEW l \in Labels, NEW taken, Branch(h, c, l, taken)
  PROVE  Sound' /\ Afar' /\ Stays
<1> DEFINE k == Load(h, c, c, 0)
<1>1. /\ Generate(k) /\ JumpTo(l, h, taken) /\ val' = val /\ g.liveTo[c] >= g.seq
  BY DEF Branch, Number, Readable
<1>2. GenInv /\ g \in Right(Values, Syms, g, val) /\ Covers(Syms, g)
  BY SoundRight DEF LabelInv
<1>4. h \in Kept(Values, Syms, h) /\ h \in Kept(Values, Syms, g)
  BY RightIs DEF Kept, Onward
<1>5. 0 \in Bytes(c) /\ 0 \in 0 .. MaxSize - 1
  BY RegsAssumption DEF Bytes
<1>6. k \in Right(Values, Syms, g, With(val, <<c, 0>>, val[<<c, 0>>]))
  BY <1>1, <1>2, <1>5, LoadRight
<1>7. k \in Kept(Values, Syms, h)
  BY <1>4, <1>5, LoadKeeps
<1> HIDE DEF k
<1>8. Stands(With(val, <<c, 0>>, val[<<c, 0>>]))
  BY <1>1 DEF Stands, With
<1>9. Sound'
  BY <1>1, <1>2, <1>6, <1>8, GenerateRight
<1>10. k \in Kept(Values, Syms, g)
  BY <1>6, RightIs
<1>11. Stays /\ g'.at = k.at
  BY <1>1, <1>2, <1>10, GenerateKeeps
<1>12. \A x \in Syms : h.at[x] # None => g'.at[x] = h.at[x]
  BY <1>7, <1>11 DEF Kept, Onward
<1>13. Afar'
  BY <1>1, <1>11, <1>12, JumpRight
<1> QED BY <1>9, <1>11, <1>13

LEMMA IfxRight ==
  ASSUME LabelInv, Sound, Afar, NEW c \in Syms, NEW l \in Labels, NEW onTrue \in BOOLEAN,
         Ifx(c, l, onTrue) \/ IfxOnFlags(c, l, onTrue)
  PROVE  Sound' /\ Afar' /\ Stays
<1>1. g \in Right(Values, Syms, g, val)
  BY SoundRight DEF LabelInv
<1>2. Compared(g, c) \in Right(Values, Syms, g, val)
  BY <1>1, ComparedRight
<1>3. ASSUME NEW when PROVE Hit(g, "flags differ", when) \in Right(Values, Syms, g, val)
  <2>1. "flags differ" \in Reasons
    BY DEF Reasons
  <2> QED BY <1>1, <2>1, MarkRight
<1>4. CASE Ifx(c, l, onTrue)
  BY <1>2, <1>4, BranchRight DEF Ifx
<1>5. CASE IfxOnFlags(c, l, onTrue)
  <2>1. PICK taken \in BOOLEAN : Branch(Hit(g, "flags differ", taken # Holds(c, onTrue)), c, l, taken)
    BY <1>5 DEF IfxOnFlags
  <2> QED BY <1>3, <2>1, BranchRight
<1> QED BY <1>4, <1>5

(* Nothing is printed.                                                     *)
LEMMA SameRight ==
  ASSUME GenInv, Sound, Generate(g), val' = val
  PROVE  Sound' /\ Stays /\ g'.at = g.at
<1>1. g \in Right(Values, Syms, g, val) /\ g \in Kept(Values, Syms, g)
  BY SoundRight, RightIs
<1>2. Stands(val)
  BY DEF Stands
<1>3. Sound'
  BY <1>1, <1>2, GenerateRight
<1>4. Stays /\ g'.at = g.at
  BY <1>1, GenerateKeeps
<1> QED BY <1>3, <1>4

LEMMA GoToRight ==
  ASSUME LabelInv, Sound, Afar, NEW l \in Labels, GoTo(l)
  PROVE  Sound' /\ Afar'
<1>1. Generate(g) /\ JumpTo(l, g, TRUE) /\ val' = val /\ GenInv
  BY DEF GoTo, LabelInv
<1>2. Sound' /\ Stays /\ g'.at = g.at
  BY <1>1, SameRight
<1>3. g \in Right(Values, Syms, g, val)
  BY <1>1, SoundRight
<1>4. \A x \in Syms : g.at[x] # None => g'.at[x] = g.at[x]
  BY <1>2
<1>5. Afar'
  BY <1>1, <1>2, <1>3, <1>4, JumpRight
<1> QED BY <1>2, <1>5

LEMMA ArrivesIs ==
  ASSUME g \in Gens(Values), NEW h \in Gens(Values), NEW k, k = Arrives(h)
  PROVE  /\ k.home = g.home /\ k.at = g.at /\ k.reg = h.reg /\ k.ram = h.ram
         /\ k.liveTo = g.liveTo /\ k.seq = g.seq
         /\ (k.hit = {} => h.hit = {} /\ ~HomesDiffer(h))
<1> DEFINE a == [g EXCEPT !.reg = h.reg, !.ram = h.ram, !.carry = h.carry, !.hit = h.hit]
           m == Hit(a, "homes differ", HomesDiffer(h))
<1>1. /\ a.home = g.home /\ a.at = g.at /\ a.reg = h.reg /\ a.ram = h.ram
      /\ a.liveTo = g.liveTo /\ a.seq = g.seq /\ a.hit = h.hit /\ a \in Gens(Values)
  BY DEF Gens
<1>2. k = Hit(m, "sF differs", g.offset # h.offset)
  BY DEF Arrives
<1> HIDE DEF a
<1>3. /\ m.home = g.home /\ m.at = g.at /\ m.reg = h.reg /\ m.ram = h.ram
      /\ m.liveTo = g.liveTo /\ m.seq = g.seq
      /\ (m.hit = {} => h.hit = {} /\ ~HomesDiffer(h))
      /\ (m = a \/ m = [a EXCEPT !.hit = a.hit \cup {"homes differ"}])
  <2>1. CASE HomesDiffer(h)
    <3>1. m = [a EXCEPT !.hit = a.hit \cup {"homes differ"}]
      BY <2>1 DEF Hit
    <3> QED BY <1>1, <3>1 DEF Gens
  <2>2. CASE ~HomesDiffer(h)
    BY <1>1, <2>2 DEF Hit
  <2> QED BY <2>1, <2>2
<1>4. m \in [seq : Nat, liveTo : [Syms -> Nat], first : 0 .. REG_CNT - 2,
             home : [Places -> Regs \cup {None}], bank : [Regs -> Places \cup {None}],
             at : [Syms -> Cells \cup {None}], top : Nat, offset : Cells,
             reg : [Regs -> Values \cup {Junk}], carry : {0, 1},
             ram : [Cells -> Values \cup {Junk}], hit : {m.hit}]
  <2> HIDE DEF m
  <2> QED BY <1>1, <1>3 DEF Gens
<1> HIDE DEF m
<1>5. CASE g.offset # h.offset
  <2>1. k = [m EXCEPT !.hit = m.hit \cup {"sF differs"}]
    BY <1>2, <1>5 DEF Hit
  <2> QED BY <1>3, <1>4, <2>1
<1>6. CASE ~(g.offset # h.offset)
  BY <1>2, <1>3, <1>6 DEF Hit
<1> QED BY <1>5, <1>6

(* The machine is back, and every byte is where the code expects it.       *)
LEMMA BackRight ==
  ASSUME LabelInv, Afar, away # None, Generate(Arrives(away.at)), val' = away.val
  PROVE  Sound'
<1> DEFINE a == away.at
           k == Arrives(a)
<1>1. /\ g \in Gens(Values) /\ a \in Gens(Values) /\ g.seq \in Nat
      /\ (a.hit = {} => Means(a, away.val))
      /\ a.liveTo = g.liveTo /\ a.seq <= g.seq /\ a.seq \in Nat
      /\ \A x \in Syms : a.at[x] # None => g.at[x] = a.at[x]
  BY DEF LabelInv, GenInv, Whole, Afar, Gens
<1> HIDE DEF a
<1>2. /\ k.home = g.home /\ k.at = g.at /\ k.reg = a.reg /\ k.ram = a.ram
      /\ k.liveTo = g.liveTo /\ k.seq = g.seq
      /\ (k.hit = {} => a.hit = {} /\ ~HomesDiffer(a))
  BY <1>1, ArrivesIs
<1>3. k \in Kept(Values, Syms, g)
  BY <1>1, ArrivesKeeps DEF LabelInv, GenInv
<1>4. g' = [k EXCEPT !.seq = k.seq + 1]
  BY DEF Generate, a
<1> HIDE DEF k
<1>5. /\ g'.home = g.home /\ g'.at = g.at /\ g'.reg = a.reg /\ g'.ram = a.ram
      /\ g'.liveTo = g.liveTo /\ g'.seq = g.seq + 1 /\ g'.hit = k.hit
  BY <1>2, <1>3, <1>4 DEF Kept, Gens
<1>6. ASSUME k.hit = {}, NEW b \in AllBytes, g.liveTo[b[1]] >= g.seq + 1, val'[b] # Junk
      PROVE  At(g', b) = val'[b]
  <2>1. b[1] \in Syms
    BY BytesArePlaces
  <2>2. g.liveTo[b[1]] \in Nat
    BY <1>1, <2>1 DEF Gens
  <2>3. g.liveTo[b[1]] > g.seq /\ a.liveTo[b[1]] >= a.seq
    BY <1>1, <1>6, <2>2
  <2>4. At(a, b) = val'[b]
    BY <1>1, <1>2, <1>6, <2>3 DEF Means
  <2>5. g.home[b] = a.home[b]
    BY <1>2, <1>6, <2>3 DEF HomesDiffer
  <2>6. CASE a.home[b] # None
    BY <1>5, <2>4, <2>5, <2>6 DEF At
  <2>7. CASE a.home[b] = None
    <3>1. a.at[b[1]] # None
      BY <1>6, <2>4, <2>7 DEF At
    <3>2. g.at[b[1]] = a.at[b[1]]
      BY <1>1, <2>1, <3>1
    <3> QED BY <1>5, <2>4, <2>5, <2>7, <3>1, <3>2 DEF At
  <2> QED BY <2>6, <2>7
<1> QED BY <1>5, <1>6 DEF Sound, Means

LEMMA LabelRight ==
  ASSUME LabelInv, Sound, Afar, NEW l \in Labels, Label(l)
  PROVE  Sound' /\ Afar' /\ Stays
<1>1. CASE away # None /\ away.to = l
  <2>1. Generate(Arrives(away.at)) /\ val' = away.val /\ away' = None
    BY <1>1 DEF Label
  <2>2. Sound'
    BY <1>1, <2>1, BackRight
  <2>3. GenInv /\ away.at \in Gens(Values)
    BY <1>1 DEF LabelInv
  <2>4. Arrives(away.at) \in Kept(Values, Syms, g)
    BY <2>3, ArrivesKeeps DEF GenInv
  <2>5. Stays
    BY <2>1, <2>3, <2>4, GenerateKeeps
  <2> QED BY <2>1, <2>2, <2>5 DEF Afar
<1>2. CASE ~(away # None /\ away.to = l)
  <2>1. Generate(g) /\ val' = val /\ away' = away /\ GenInv
    BY <1>2 DEF Label, LabelInv
  <2>2. Sound' /\ Stays
    BY <2>1, SameRight
  <2> QED BY <2>1, <2>2, AfarStays
<1> QED BY <1>1, <1>2
-----------------------------------------------------------------------------
(* What holds of the generated code in every state.                        *)
RightInv == LabelInv /\ Sound /\ Mute /\ Afar

LEMMA RightInvInit == LabelInit => RightInv
<1> SUFFICES ASSUME LabelInit PROVE RightInv
  OBVIOUS
<1>1. PICK live \in [Syms -> Ends] : g = Fresh([live EXCEPT ![tmpOp] = 0], 0)
  BY DEF LabelInit, PtrInit
<1>2. Mute
  BY <1>1, PtrAssumption DEF Fresh, Mute
<1>3. Sound
  BY DEF LabelInit, PtrInit, Sound, Means
<1>4. LabelInv
  BY LabelInvInit
<1> QED BY <1>2, <1>3, <1>4 DEF RightInv, LabelInit, PtrInit, Afar

LEMMA RightInvStep == RightInv /\ [LabelNext]_labelVars => RightInv'
<1> SUFFICES ASSUME RightInv, [LabelNext]_labelVars PROVE RightInv'
  OBVIOUS
<1>0. LabelInv /\ GenInv /\ Sound /\ Mute /\ Afar
  BY DEF RightInv, LabelInv
<1>1. LabelInv'
  BY <1>0, LabelInvStep
<1>2. CASE UNCHANGED labelVars
  BY <1>0, <1>1, <1>2 DEF labelVars, RightInv, Sound, Means, At, Mute, Afar
<1>3. CASE LabelNext
  <2>1. ASSUME Stays PROVE Mute'
    BY <1>0, <2>1 DEF Stays, Mute
  <2>2. ASSUME NEW x \in Syms, PtrInstruction(x), UNCHANGED away PROVE RightInv'
    <3>1. Stays
      BY <1>0, <2>2, PtrInstructionKeeps DEF StepKeeps
    <3>2. Sound'
      BY <1>0, <2>2, PtrInstructionRight
    <3>3. Afar'
      BY <1>0, <2>2, <3>1, AfarStays
    <3> QED BY <1>1, <2>1, <3>1, <3>2, <3>3 DEF RightInv
  <2>3. ASSUME NEW c \in Syms, NEW l \in Labels, NEW onTrue \in BOOLEAN,
               Ifx(c, l, onTrue) \/ IfxOnFlags(c, l, onTrue)
        PROVE  RightInv'
    <3>1. Sound' /\ Afar' /\ Stays
      BY <1>0, <2>3, IfxRight
    <3> QED BY <1>1, <2>1, <3>1 DEF RightInv
  <2>4. ASSUME NEW l \in Labels, GoTo(l) PROVE RightInv'
    <3>1. Sound' /\ Afar'
      BY <1>0, <2>4, GoToRight
    <3>2. Generate(g) /\ val' = val
      BY <2>4 DEF GoTo
    <3>3. Stays
      BY <1>0, <3>2, SameRight
    <3> QED BY <1>1, <2>1, <3>1, <3>3 DEF RightInv
  <2>5. ASSUME NEW l \in Labels, Label(l) PROVE RightInv'
    <3>1. Sound' /\ Afar' /\ Stays
      BY <1>0, <2>5, LabelRight
    <3> QED BY <1>1, <2>1, <3>1 DEF RightInv
  <2> QED BY <1>3, <2>2, <2>3, <2>4, <2>5 DEF LabelNext
<1> QED BY <1>2, <1>3

(* The generated code computes what the program means, for every program   *)
(* of assignments, operations, casts, pointers and forward jumps, on any   *)
(* number of registers and whatever is evicted, spilled, reloaded, renamed *)
(* or computed one instruction early on the way (gen.cc, ralloc.cc): as    *)
(* long as none of the hazards that g.hit names was met, every byte that   *)
(* may still be read is in its register, or on the stack when it has none. *)
THEOREM LabelsAlwaysCoherent == LabelSpec => []LabelCoherent
<1>1. LabelInit => RightInv
  BY RightInvInit
<1>2. RightInv /\ [LabelNext]_labelVars => RightInv'
  BY RightInvStep
<1>3. ASSUME RightInv PROVE LabelCoherent
  <2> SUFFICES ASSUME g.hit = {}, NEW x \in Syms, g.liveTo[x] >= g.seq, NEW i \in Bytes(x),
                      val[<<x, i>>] # Junk
               PROVE  Reads(x, i) = val[<<x, i>>]
    BY DEF LabelCoherent, Coherent, Live
  <2>1. <<x, i>> \in AllBytes
    BY BytesArePlaces
  <2>2. At(g, <<x, i>>) = val[<<x, i>>]
    BY <1>3, <2>1 DEF RightInv, Sound, Means
  <2> QED BY <2>2 DEF Reads, At
<1> QED BY <1>1, <1>2, <1>3, PTL DEF LabelSpec
=============================================================================
