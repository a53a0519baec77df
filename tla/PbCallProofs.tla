---------------------------- MODULE PbCallProofs ----------------------------
(***************************************************************************)
(* Proofs about functions that call others: Receive, Send, Call, Return,   *)
(* indirect calls and port_out (PbCall, PbCallForms): the generator knows  *)
(* where what is still read is, the code of such a function computes what  *)
(* the program means, and what it gives to callees, ports and its caller   *)
(* is what the program says.                                               *)
(*                                                                         *)
(* The invariant of PbGenProofs, that a register names the byte it is the  *)
(* home of, does not survive a call as it stands: registers are given      *)
(* names by decree, names are forgotten and homes are left behind.  What   *)
(* survives is narrower, and is the invariant here: it holds of what may   *)
(* still be read (Now), unless one of two hazards was hit (Clean).  It is  *)
(* kept because no byte that is read later has a register that is          *)
(* about to be given away without being cleared: neither those of the      *)
(* parameters still to be received (Under) nor, outside main, those of     *)
(* the arguments already sent (Spared); a call then clears what is left    *)
(* and takes the names of the rest away, and the result gets registers     *)
(* nothing else is in.                                                     *)
(*                                                                         *)
(* The second half compares this with the machine, as PbRightProofs does   *)
(* for functions that call nothing.  Sure(D, o, w) are the states of Firm  *)
(* whose machine holds the meaning w; Laid and InPlace say which arguments *)
(* are in their registers, Told and Addressed where the bytes of a pointer *)
(* are while they are moved, Holding where the value of a port_out is.     *)
(* MeantInv, the invariant of FormsSpec, is about all of them.             *)
(*                                                                         *)
(* Names: XFirm, XSure, XTold, X keeps Firm, Sure or Told.                 *)
(***************************************************************************)
EXTENDS PbRightProofs, PbCallForms

-----------------------------------------------------------------------------
(* The sum of the first k sizes, however it is split.                      *)
LEMMA TotalIs ==
  ASSUME NEW N \in Nat, NEW n \in [1 .. N -> Nat]
  PROVE  /\ Total(n, 0) = 0
         /\ \A k \in 0 .. N : Total(n, k) \in Nat
         /\ \A k \in 1 .. N : Total(n, k) = Total(n, k - 1) + n[k]
<1> DEFINE K == [j \in 0 .. N |-> Nat]
           G == [a \in Nat \X (0 .. N - 1) |-> a[1] + n[a[2] + 1]]
<1>1. \A i \in 0 .. N - 1 : \A v \in K[i] : G[<<v, i>>] \in K[i + 1]
  <2> SUFFICES ASSUME NEW i \in 0 .. N - 1, NEW v \in K[i] PROVE G[<<v, i>>] \in K[i + 1]
    OBVIOUS
  <2>1. v \in Nat /\ i + 1 \in 1 .. N /\ i + 1 \in 0 .. N
    OBVIOUS
  <2>2. G[<<v, i>>] = v + n[i + 1] /\ n[i + 1] \in Nat
    BY <2>1
  <2> QED BY <2>1, <2>2
<1>2. 0 \in K[0]
  OBVIOUS
<1>k. \A j \in 0 .. N : K[j] = Nat
  OBVIOUS
<1>g. \A v \in Nat : \A i \in 0 .. N - 1 : G[<<v, i>>] = v + n[i + 1]
  OBVIOUS
<1> HIDE DEF K, G
<1>3. PICK F \in LoopRuns(K, N, 0, G) : TRUE
  BY <1>1, <1>2, LoopExists
<1>4. F[0] = 0 /\ \A k \in 0 .. N : F[k] \in Nat
  BY <1>3, <1>k DEF LoopRuns
<1>5. ASSUME NEW k \in 1 .. N PROVE F[k] = F[k - 1] + n[k]
  <2>1. k - 1 \in 0 .. N - 1 /\ k - 1 \in 0 .. N /\ (k - 1) + 1 = k
    OBVIOUS
  <2>2. F[k] = G[<<F[k - 1], k - 1>>]
    BY <1>3 DEF LoopRuns
  <2> QED BY <1>4, <1>g, <2>1, <2>2
<1>6. ASSUME NEW k \in 0 .. N PROVE Total(n, k) = F[k]
  <2> DEFINE R(f) == [m \in 0 .. k |-> IF m = 0 THEN 0 ELSE f[m - 1] + n[m]]
             h == [m \in 0 .. k |-> F[m]]
             f == CHOOSE e : e = R(e)
  <2>1. \A m \in 0 .. k : m \in 0 .. N
    OBVIOUS
  <2>2. \A m \in 0 .. k : h[m] = F[m]
    OBVIOUS
  <2>3. h = R(h)
    <3>1. \A m \in 0 .. k : h[m] = IF m = 0 THEN 0 ELSE h[m - 1] + n[m]
      <4> SUFFICES ASSUME NEW m \in 0 .. k, m # 0 PROVE h[m] = h[m - 1] + n[m]
        BY <1>4, <2>2
      <4>1. m \in 1 .. N /\ m - 1 \in 0 .. k
        OBVIOUS
      <4> QED BY <1>5, <2>2, <4>1
    <3>2. h = [m \in 0 .. k |-> h[m]]
      OBVIOUS
    <3> HIDE DEF h
    <3> QED BY <3>1, <3>2
  <2> HIDE DEF h
  <2>4. f = R(f)
    BY <2>3
  <2> HIDE DEF f
  <2>5. f[0] = 0 /\ \A m \in 1 .. k : f[m] = f[m - 1] + n[m]
    BY <2>4
  <2> DEFINE S == [m \in 0 .. k |-> {F[m]}]
  <2>6. \A m \in 0 .. k : S[m] = {F[m]}
    OBVIOUS
  <2> HIDE DEF S
  <2>7. f[0] \in S[0]
    BY <1>4, <2>5, <2>6
  <2>8. \A m \in 1 .. k : f[m - 1] \in S[m - 1] => f[m] \in S[m]
    <3> SUFFICES ASSUME NEW m \in 1 .. k, f[m - 1] \in S[m - 1] PROVE f[m] \in S[m]
      OBVIOUS
    <3>1. m \in 1 .. N /\ m - 1 \in 0 .. k /\ m \in 0 .. k
      OBVIOUS
    <3>2. S[m - 1] = {F[m - 1]} /\ S[m] = {F[m]}
      BY <2>6, <3>1
    <3>3. f[m - 1] = F[m - 1]
      BY <3>2
    <3>4. f[m] = f[m - 1] + n[m]
      BY <2>5
    <3>5. F[m] = F[m - 1] + n[m]
      BY <1>5, <3>1
    <3>6. f[m] = F[m]
      BY <3>3, <3>4, <3>5
    <3> QED BY <3>2, <3>6
  <2>9. f[k] \in S[k]
    <3>1. k \in Nat
      OBVIOUS
    <3> QED BY <2>7, <2>8, <3>1, LoopKeeps
  <2> QED BY <2>6, <2>9 DEF Total, f
<1>7. \A k \in 0 .. N : Total(n, k) = F[k]
  BY <1>6
<1>8. ASSUME NEW k \in 1 .. N PROVE Total(n, k) = Total(n, k - 1) + n[k]
  <2>1. k \in 0 .. N /\ k - 1 \in 0 .. N
    OBVIOUS
  <2> QED BY <1>5, <1>7, <2>1
<1>9. 0 \in 0 .. N
  OBVIOUS
<1>10. Total(n, 0) = 0
  BY <1>4, <1>7, <1>9
<1>11. \A k \in 0 .. N : Total(n, k) \in Nat
  BY <1>4, <1>7
<1> QED BY <1>8, <1>10, <1>11

(* It depends on those sizes only, and grows with k.                       *)
LEMMA TotalSame ==
  ASSUME NEW N \in Nat, NEW M \in Nat, NEW n \in [1 .. N -> Nat], NEW m \in [1 .. M -> Nat],
         NEW k \in Nat, k <= N, k <= M, \A j \in 1 .. k : n[j] = m[j]
  PROVE  Total(n, k) = Total(m, k)
<1> DEFINE f == [j \in 0 .. k |-> Total(n, j)]
           K == [j \in 0 .. k |-> {Total(m, j)}]
<1>1. f[0] \in K[0]
  <2>1. Total(n, 0) = 0 /\ Total(m, 0) = 0
    BY TotalIs
  <2> QED BY <2>1
<1>2. \A j \in 1 .. k : f[j - 1] \in K[j - 1] => f[j] \in K[j]
  <2> SUFFICES ASSUME NEW j \in 1 .. k, f[j - 1] \in K[j - 1] PROVE f[j] \in K[j]
    OBVIOUS
  <2>1. j - 1 \in 0 .. k /\ j \in 1 .. N /\ j \in 1 .. M
    OBVIOUS
  <2>2. Total(n, j - 1) = Total(m, j - 1)
    BY <2>1
  <2>3. Total(n, j) = Total(n, j - 1) + n[j] /\ Total(m, j) = Total(m, j - 1) + m[j]
    BY <2>1, TotalIs
  <2> QED BY <2>2, <2>3
<1>3. f[k] = Total(n, k) /\ K[k] = {Total(m, k)}
  OBVIOUS
<1> HIDE DEF f, K
<1>4. f[k] \in K[k]
  BY <1>1, <1>2, LoopKeeps
<1> QED BY <1>3, <1>4

LEMMA TotalGrows ==
  ASSUME NEW N \in Nat, NEW n \in [1 .. N -> Nat], NEW k \in 0 .. N
  PROVE  Total(n, k) <= Total(n, N)
<1> DEFINE f == [j \in 0 .. N - k |-> Total(n, k + j)]
           K == [j \in 0 .. N - k |-> {v \in Nat : Total(n, k) <= v}]
<1>1. f[0] \in K[0] /\ N - k \in Nat
  BY TotalIs
<1>2. \A j \in 1 .. N - k : f[j - 1] \in K[j - 1] => f[j] \in K[j]
  <2> SUFFICES ASSUME NEW j \in 1 .. N - k, f[j - 1] \in K[j - 1] PROVE f[j] \in K[j]
    OBVIOUS
  <2>1. j - 1 \in 0 .. N - k /\ k + j \in 1 .. N /\ k + (j - 1) = (k + j) - 1
    OBVIOUS
  <2>2. Total(n, k + j) = Total(n, (k + j) - 1) + n[k + j] /\ n[k + j] \in Nat
    BY <2>1, TotalIs
  <2>3. Total(n, k) <= Total(n, (k + j) - 1) /\ Total(n, (k + j) - 1) \in Nat /\ Total(n, k) \in Nat
    BY <2>1, TotalIs
  <2>4. f[j] = Total(n, k + j)
    BY <2>1
  <2> QED BY <2>2, <2>3, <2>4
<1>3. f[N - k] = Total(n, N) /\ K[N - k] = {v \in Nat : Total(n, k) <= v}
  <2>1. k + (N - k) = N /\ N - k \in 0 .. N - k
    OBVIOUS
  <2> QED BY <2>1
<1> HIDE DEF f, K
<1>4. f[N - k] \in K[N - k]
  BY <1>1, <1>2, LoopKeeps
<1> QED BY <1>3, <1>4

(* The parameters still to come, without the first one.                    *)
LEMMA SizeTail ==
  ASSUME NEW s \in Seq(Syms), s # <<>>
  PROVE  /\ Head(s) \in Syms /\ Tail(s) \in Seq(Syms)
         /\ Size(s) \in Nat /\ Size(Tail(s)) \in Nat
         /\ Size(s) = SizeOf[Head(s)] + Size(Tail(s))
<1> DEFINE N == Len(s)
           t == Tail(s)
           M == Len(t)
           n == [k \in 1 .. N |-> SizeOf[s[k]]]
           m == [k \in 1 .. M |-> SizeOf[t[k]]]
<1>1. /\ N \in Nat /\ N >= 1 /\ M = N - 1 /\ t \in Seq(Syms) /\ Head(s) = s[1] /\ s[1] \in Syms
      /\ \A k \in 1 .. M : t[k] = s[k + 1]
      /\ \A k \in 1 .. N : s[k] \in Syms
  OBVIOUS
<1>2. \A x \in Syms : SizeOf[x] \in Nat
  BY RegsAssumption
<1>3. n \in [1 .. N -> Nat] /\ m \in [1 .. M -> Nat] /\ M \in Nat
  BY <1>1, <1>2
<1>4. \A k \in 1 .. M : m[k] = n[k + 1]
  BY <1>1
<1>5. n[1] = SizeOf[Head(s)]
  BY <1>1
<1>6. Size(s) = Total(n, N) /\ Size(t) = Total(m, M)
  BY DEF Size
<1> HIDE DEF n, m, M, N
<1> DEFINE f == [j \in 0 .. M |-> Total(n, j + 1)]
           K == [j \in 0 .. M |-> {n[1] + Total(m, j)}]
<1>7. f[0] \in K[0]
  <2>1. f[0] = Total(n, 0 + 1) /\ K[0] = {n[1] + Total(m, 0)}
    BY <1>3
  <2>2. Total(n, 1) = Total(n, 0) + n[1] /\ 0 + 1 = 1 /\ n[1] \in Nat
    <3>1. \A k \in 1 .. N : Total(n, k) = Total(n, k - 1) + n[k]
      BY <1>1, <1>3, TotalIs
    <3>2. 1 \in 1 .. N /\ 1 - 1 = 0
      BY <1>1
    <3>3. Total(n, 1) = Total(n, 1 - 1) + n[1]
      BY <3>1, <3>2
    <3> QED BY <1>3, <3>2, <3>3
  <2>3. Total(n, 0) = 0 /\ Total(m, 0) = 0
    BY <1>1, <1>3, TotalIs
  <2> QED BY <2>1, <2>2, <2>3
<1>8. \A j \in 1 .. M : f[j - 1] \in K[j - 1] => f[j] \in K[j]
  <2> SUFFICES ASSUME NEW j \in 1 .. M, f[j - 1] \in K[j - 1] PROVE f[j] \in K[j]
    OBVIOUS
  <2>1. j - 1 \in 0 .. M /\ j \in 0 .. M /\ j + 1 \in 1 .. N /\ (j - 1) + 1 = j /\ (j + 1) - 1 = j
    BY <1>1, <1>3
  <2>2. Total(n, j) = n[1] + Total(m, j - 1)
    BY <2>1
  <2>3. Total(n, j + 1) = Total(n, j) + n[j + 1]
    BY <1>1, <1>3, <2>1, TotalIs
  <2>4. Total(m, j) = Total(m, j - 1) + m[j] /\ Total(m, j - 1) \in Nat
    BY <1>3, <2>1, TotalIs
  <2>5. n[1] \in Nat /\ m[j] \in Nat /\ m[j] = n[j + 1]
    BY <1>1, <1>3, <1>4
  <2>6. f[j] = Total(n, j + 1) /\ K[j] = {n[1] + Total(m, j)}
    BY <2>1
  <2> QED BY <2>2, <2>3, <2>4, <2>5, <2>6
<1>9. f[M] = Total(n, M + 1) /\ K[M] = {n[1] + Total(m, M)} /\ M + 1 = N
  BY <1>1, <1>3
<1> HIDE DEF f, K
<1>10. f[M] \in K[M]
  BY <1>3, <1>7, <1>8, LoopKeeps
<1>11. Total(n, N) \in Nat /\ Total(m, M) \in Nat
  <2>1. N \in 0 .. N /\ M \in 0 .. M
    BY <1>1, <1>3
  <2> QED BY <1>1, <1>3, <2>1, TotalIs
<1> QED BY <1>1, <1>5, <1>6, <1>9, <1>10, <1>11 DEF t

LEMMA SizeOfNone == Size(<<>>) = 0
<1>1. [k \in 1 .. 0 |-> SizeOf[<<>>[k]]] \in [1 .. 0 -> Nat]
  OBVIOUS
<1>2. Total([k \in 1 .. 0 |-> SizeOf[<<>>[k]]], 0) = 0
  BY <1>1, TotalIs
<1> QED BY <1>2 DEF Size

-----------------------------------------------------------------------------
(* The arguments sent to a call.                                           *)
Parcels == UNION {[0 .. n - 1 -> Byte] : n \in 1 .. MaxSize}

LEMMA ParcelIs ==
  ASSUME NEW v \in Parcels
  PROVE  /\ Length(v) \in 1 .. MaxSize /\ v \in [0 .. Length(v) - 1 -> Byte]
<1>1. PICK n \in 1 .. MaxSize : v \in [0 .. n - 1 -> Byte]
  BY DEF Parcels
<1>2. n \in Nat /\ DOMAIN v = 0 .. n - 1
  BY <1>1, RegsAssumption
<1>3. Cardinality(0 .. n - 1) = n
  BY <1>2, FS_Interval
<1> QED BY <1>1, <1>2, <1>3 DEF Length

(* The registers of the first k arguments, of s.                           *)
SentOf(s, k) == Total([m \in 1 .. Len(s) |-> Length(s[m])], k)

LEMMA SentIs ==
  ASSUME NEW s \in Seq(Parcels)
  PROVE  /\ SentOf(s, 0) = 0
         /\ \A k \in 0 .. Len(s) : SentOf(s, k) \in Nat /\ SentOf(s, k) <= SentOf(s, Len(s))
         /\ \A k \in 1 .. Len(s) : SentOf(s, k) = SentOf(s, k - 1) + Length(s[k])
<1> DEFINE n == [m \in 1 .. Len(s) |-> Length(s[m])]
<1>1. n \in [1 .. Len(s) -> Nat] /\ Len(s) \in Nat /\ \A k \in 1 .. Len(s) : n[k] = Length(s[k])
  BY ParcelIs, RegsAssumption
<1>2. \A k : SentOf(s, k) = Total(n, k)
  BY DEF SentOf
<1> HIDE DEF n
<1> QED BY <1>1, <1>2, TotalIs, TotalGrows

LEMMA SentAppend ==
  ASSUME NEW s \in Seq(Parcels), NEW v \in Parcels
  PROVE  /\ Append(s, v) \in Seq(Parcels) /\ Len(Append(s, v)) = Len(s) + 1
         /\ \A k \in 0 .. Len(s) : SentOf(Append(s, v), k) = SentOf(s, k)
         /\ SentOf(Append(s, v), Len(s) + 1) = SentOf(s, Len(s)) + Length(v)
         /\ \A k \in 1 .. Len(s) : Append(s, v)[k] = s[k]
         /\ Append(s, v)[Len(s) + 1] = v
<1> DEFINE t == Append(s, v)
           N == Len(s)
           n == [m \in 1 .. N |-> Length(s[m])]
           o == [m \in 1 .. Len(t) |-> Length(t[m])]
<1>1. /\ t \in Seq(Parcels) /\ Len(t) = N + 1 /\ N \in Nat
      /\ t[N + 1] = v /\ \A k \in 1 .. N : t[k] = s[k]
  OBVIOUS
<1>2. \A p \in Parcels : Length(p) \in Nat
  BY ParcelIs, RegsAssumption
<1>3. \A k \in 1 .. N : s[k] \in Parcels
  OBVIOUS
<1> HIDE DEF t, N
<1>4. /\ n \in [1 .. N -> Nat] /\ o \in [1 .. N + 1 -> Nat]
      /\ \A k \in 1 .. N : n[k] = o[k]
      /\ o[N + 1] = Length(v)
  <2>1. \A k \in 1 .. N + 1 : t[k] \in Parcels
    BY <1>1
  <2> QED BY <1>1, <1>2, <1>3, <2>1
<1>5. (\A k : SentOf(s, k) = Total(n, k)) /\ (\A k : SentOf(t, k) = Total(o, k))
  BY DEF SentOf, N
<1> HIDE DEF n, o
<1>6. ASSUME NEW k \in 0 .. N PROVE Total(o, k) = Total(n, k)
  <2>1. k \in Nat /\ k <= N /\ k <= N + 1 /\ N + 1 \in Nat /\ \A j \in 1 .. k : o[j] = n[j]
    BY <1>1, <1>4
  <2> QED BY <1>1, <1>4, <2>1, TotalSame
<1>7. Total(o, N + 1) = Total(o, N) + o[N + 1]
  <2>1. N + 1 \in Nat /\ N + 1 \in 1 .. N + 1 /\ (N + 1) - 1 = N
    BY <1>1
  <2> QED BY <1>4, <2>1, TotalIs
<1>8. Total(o, N + 1) = Total(n, N) + Length(v)
  <2>1. N \in 0 .. N
    BY <1>1
  <2> QED BY <1>4, <1>6, <1>7, <2>1
<1> QED BY <1>1, <1>5, <1>6, <1>8 DEF t, N

LEMMA SentAre == \A k : Sent(k) = SentOf(sent, k)
BY DEF Sent, SentOf

-----------------------------------------------------------------------------
(* What a step of the allocator cannot do: forget a hazard, or give a byte *)
(* a register below VAR_REG_START.                                         *)
Grows(h, k) == h.hit \subseteq k.hit
Low(h, k) == \A b \in Places : \/ k.home[b] = None \/ k.home[b] = h.home[b]
                               \/ k.home[b] \in VarRegs(h)

LEMMA LowTrans ==
  ASSUME NEW h, NEW k, NEW m, Low(h, k), Low(k, m), k.first = h.first
  PROVE  Low(h, m)
BY DEF Low, VarRegs

LEMMA PushGrows ==
  ASSUME NEW V, NEW D, NEW o, NEW h \in Kept(V, D, o),
         NEW x \in Syms, NEW i \in 0 .. MaxSize - 1, NEW r \in Regs
  PROVE  Grows(h, pushVariable(h, x, i, r))
<1> DEFINE m == Reserve(h, x)
           k == m.at[x] + i
           e == k # h.offset
           n == MoveSP(m, k, e)
           q == [n EXCEPT !.ram[k] = h.reg[r]]
           H == IF i \in Bytes(x) THEN n.hit ELSE n.hit \cup {"byte beyond type"}
<1>1. pushVariable(h, x, i, r) = [q EXCEPT !.hit = H]
  BY DEF pushVariable
<1>2. m \in Kept(V, D, o) /\ m.hit = h.hit /\ m.at[x] # None
  BY ReserveKeeps
<1>3. k \in Cells
  <2> HIDE DEF m
  <2> QED BY <1>2, CellIn DEF Kept
<1>4. e \in BOOLEAN
  OBVIOUS
<1> HIDE DEF m, k, e
<1>5. n \in Kept(V, D, o) /\ n.hit = m.hit
  BY <1>2, <1>3, <1>4, MoveSPKeeps
<1> HIDE DEF n
<1>6. "hit" \in DOMAIN q
  BY <1>5 DEF Kept, Gens
<1> HIDE DEF q
<1>7. pushVariable(h, x, i, r).hit = H
  BY <1>1, <1>6
<1> QED BY <1>2, <1>5, <1>7 DEF Grows

LEMMA ClearGrows ==
  ASSUME NEW V, NEW D, NEW o, NEW h \in Kept(V, D, o), NEW r \in Regs, NEW k, k = clear(h, r)
  PROVE  Grows(h, k) /\ Low(h, k) /\ k.first = h.first
<1> DEFINE b == h.bank[r]
           m == IF h.liveTo[b[1]] >= h.seq THEN pushVariable(h, b[1], b[2], r) ELSE h
<1>1. k \in Kept(V, D, o) /\ \A c \in Places : k.home[c] = h.home[c] \/ k.home[c] = None
  BY ClearKeeps
<1>2. Low(h, k) /\ k.first = h.first
  BY <1>1 DEF Low, Kept, Onward
<1>3. CASE b = None \/ h.home[b] # r
  BY <1>2, <1>3 DEF clear, Grows
<1>4. CASE b # None /\ h.home[b] = r
  <2>1. b[1] \in Syms /\ b[2] \in 0 .. MaxSize - 1
    <3>1. b \in Places
      BY <1>4 DEF Kept, Gens
    <3> QED BY <3>1, BytesArePlaces
  <2>2. k = [m EXCEPT !.home[b] = None, !.bank[r] = None]
    BY <1>4 DEF clear
  <2> HIDE DEF b
  <2>3. m \in Kept(V, D, o) /\ Grows(h, m)
    <3>1. CASE h.liveTo[b[1]] >= h.seq
      BY <2>1, <3>1, PushKeeps, PushGrows
    <3>2. CASE ~(h.liveTo[b[1]] >= h.seq)
      BY <3>2 DEF Grows
    <3> QED BY <3>1, <3>2
  <2> HIDE DEF m
  <2>4. k.hit = m.hit
    BY <2>2, <2>3 DEF Kept, Gens
  <2> QED BY <1>2, <2>3, <2>4 DEF Grows
<1> QED BY <1>3, <1>4

LEMMA FetchGrows ==
  ASSUME NEW V, NEW D, NEW o, NEW h \in Kept(V, D, o), NEW x \in Syms, h.at[x] # None,
         NEW i \in 0 .. MaxSize - 1, NEW r \in Regs, NEW k, k = fetchVariable(h, x, i, r)
  PROVE  k.hit = h.hit
<1> DEFINE c == h.at[x] + i
           e == c # h.offset \/ i > 0
           n == MoveSP(h, c, e)
<1>1. k = [n EXCEPT !.reg[r] = h.ram[c]]
  BY DEF fetchVariable
<1>2. c \in Cells /\ e \in BOOLEAN
  BY CellIn DEF Kept
<1> HIDE DEF c, e
<1>3. n \in Kept(V, D, o) /\ n.hit = h.hit
  BY <1>2, MoveSPKeeps
<1> HIDE DEF n
<1> QED BY <1>1, <1>3 DEF Kept, Gens

LEMMA EmitGrows ==
  ASSUME NEW V, NEW D, NEW o, NEW h \in Kept(V, D, o), NEW r, NEW v, NEW k, k = Emit(h, r, v)
  PROVE  k.hit = h.hit /\ k.first = h.first
BY DEF Emit, Kept, Gens

LEMMA AllocateGrows ==
  ASSUME NEW V, NEW D, NEW o, NEW h \in Kept(V, D, o),
         NEW x \in Syms, NEW i \in 0 .. MaxSize - 1, NEW k, k = Allocate(h, x, i)
  PROVE  Grows(h, k) /\ Low(h, k) /\ k.first = h.first
<1> DEFINE r == Victim(h)
           m == clear(h, r)
<1>1. r \in Regs /\ r \in VarRegs(h)
  BY VictimIn DEF Kept
<1>2. k = [occupy(m, r, x, i) EXCEPT !.home[<<x, i>>] = r]
  BY DEF Allocate
<1> HIDE DEF r
<1>3. m \in Kept(V, D, o) /\ Grows(h, m)
  BY <1>1, ClearKeeps, ClearGrows
<1> HIDE DEF m
<1>4. k.hit = m.hit
  BY <1>2, <1>3 DEF occupy, Kept, Gens
<1>5. /\ k \in Kept(V, D, o) /\ k.home[<<x, i>>] = Victim(h)
      /\ \A c \in Places : c # <<x, i>> => k.home[c] = h.home[c] \/ k.home[c] = None
  BY AllocateKeeps
<1>6. Low(h, k) /\ k.first = h.first
  BY <1>1, <1>5 DEF Low, r, Kept, Onward
<1> QED BY <1>3, <1>4, <1>6 DEF Grows

LEMMA TouchGrows ==
  ASSUME NEW V, NEW D, NEW o, NEW h \in Kept(V, D, o),
         NEW x \in Syms, NEW i \in 0 .. MaxSize - 1, NEW k, k = Touch(h, x, i)
  PROVE  Grows(h, k) /\ Low(h, k) /\ k.first = h.first
<1> DEFINE m == Allocate(h, x, i)
<1>1. CASE h.home[<<x, i>>] # None
  BY <1>1 DEF Touch, Grows, Low
<1>2. CASE h.home[<<x, i>>] = None
  <2>1. k = IF m.at[x] # None THEN fetchVariable(m, x, i, m.home[<<x, i>>]) ELSE m
    BY <1>2 DEF Touch
  <2> HIDE DEF m
  <2>2. /\ m \in Kept(V, D, o) /\ m.home[<<x, i>>] \in Regs
        /\ Grows(h, m) /\ Low(h, m) /\ m.first = h.first
    BY AllocateKeeps, AllocateGrows DEF m
  <2>3. CASE m.at[x] # None
    <3>1. k \in Kept(V, D, o) /\ k.home = m.home
      BY <2>1, <2>2, <2>3, FetchKeeps
    <3>2. k.hit = m.hit
      BY <2>1, <2>2, <2>3, FetchGrows
    <3>3. k.first = h.first
      BY <3>1 DEF Kept, Onward
    <3> QED BY <2>2, <3>1, <3>2, <3>3 DEF Grows, Low
  <2>4. CASE m.at[x] = None
    BY <2>1, <2>2, <2>4
  <2> QED BY <2>3, <2>4
<1> QED BY <1>1, <1>2

LEMMA TouchNextGrows ==
  ASSUME NEW V, NEW D, NEW o, NEW h \in Kept(V, D, o), NEW x,
         NEW y \in Syms, NEW i \in 0 .. MaxSize - 1, NEW k, k = TouchNext(h, x, y, i)
  PROVE  Grows(h, k) /\ Low(h, k) /\ k.first = h.first
<1> DEFINE m == Touch(h, y, i)
           H == m.hit \cup {"operand evicted"}
<1>0. m \in Kept(V, D, o)
  BY TouchKeeps
<1>1. Grows(h, m) /\ Low(h, m) /\ m.first = h.first
  BY TouchGrows
<1>2. k = m \/ k = [m EXCEPT !.hit = H]
  BY DEF TouchNext
<1> HIDE DEF m
<1>3. CASE k = m
  BY <1>1, <1>3
<1>4. CASE k = [m EXCEPT !.hit = H]
  <2>1. k.hit = H /\ k.home = m.home /\ k.first = m.first
    BY <1>0, <1>4 DEF Kept, Gens
  <2> QED BY <1>1, <2>1 DEF Grows, Low
<1> QED BY <1>2, <1>3, <1>4

-----------------------------------------------------------------------------
(* The states of the generator within a step.  Two hazards leave a live    *)
(* byte in a register that does not name it; before they are hit, the      *)
(* bytes of D are named by their registers.                                *)
Bad == {"star register reused", "pointer home kept"}
Clean(h) == h.hit \cap Bad = {}

(* Only the bytes of the type of a symbol have registers.                  *)
Fitting(h) == \A b \in Places : b \notin AllBytes /\ b[1] # starSym => h.home[b] = None

Firm(D, o) == {h \in Kept(Byte, {}, o) :
                 o.hit \subseteq h.hit /\ Fitting(h) /\ (Clean(h) => Backed(h, D))}

(* Nothing but b is given a register.                                      *)
Alone(h, k, b) == \A c \in Places : c # b => k.home[c] = h.home[c] \/ k.home[c] = None

(* No symbol of D has a register of S.                                     *)
Spared(D, o, S) == {h \in Firm(D, o) : Clean(h) => \A r \in S : Vacant(h, D, r)}

LEMMA FirmIs ==
  ASSUME NEW D, NEW o, NEW h \in Firm(D, o)
  PROVE  h \in Kept(Byte, {}, o) /\ (Clean(h) => h \in Kept(Byte, D, o))
BY DEF Firm, Kept

LEMMA GrowsClean ==
  ASSUME NEW h, NEW k, Grows(h, k), Clean(k)
  PROVE  Clean(h)
BY DEF Grows, Clean

LEMMA FirmStep ==
  ASSUME NEW D, NEW o, NEW h \in Firm(D, o), NEW k \in Kept(Byte, {}, o), Grows(h, k), Fitting(k),
         Clean(h) => k \in Kept(Byte, D, o)
  PROVE  k \in Firm(D, o)
<1>1. Clean(k) => Backed(k, D)
  BY GrowsClean DEF Kept
<1>2. o.hit \subseteq k.hit
  BY DEF Firm, Grows
<1> QED BY <1>1, <1>2 DEF Firm

LEMMA FittingMoves ==
  ASSUME NEW h, NEW k, NEW b \in AllBytes, Fitting(h), Alone(h, k, b)
  PROVE  Fitting(k)
BY DEF Fitting, Alone

LEMMA SparedStep ==
  ASSUME NEW D, NEW o, NEW S \in SUBSET Regs, NEW h \in Spared(D, o, S), NEW k \in Firm(D, o),
         Grows(h, k), Low(h, k), S \cap VarRegs(h) = {}
  PROVE  k \in Spared(D, o, S)
<1> SUFFICES ASSUME Clean(k), NEW r \in S, NEW c \in Places, c[1] \in D PROVE k.home[c] # r
  BY DEF Spared, Vacant
<1>1. h.home[c] # r
  BY GrowsClean DEF Spared, Vacant
<1>2. r # None
  BY RegsAssumption DEF Regs
<1> QED BY <1>1, <1>2 DEF Low

LEMMA TouchFirm ==
  ASSUME NEW D, NEW o, NEW h \in Firm(D, o), NEW x \in Syms, NEW i \in Bytes(x), NEW k, k = Touch(h, x, i)
  PROVE  k \in Firm(D, o) /\ k.home[<<x, i>>] \in Regs /\ Alone(h, k, <<x, i>>)
<1>1. <<x, i>> \in AllBytes /\ i \in 0 .. MaxSize - 1
  BY BytesArePlaces
<1>2. h \in Kept(Byte, {}, o)
  BY FirmIs
<1>3. k \in Kept(Byte, {}, o) /\ k.home[<<x, i>>] \in Regs /\ Alone(h, k, <<x, i>>)
  BY <1>1, <1>2, TouchKeeps DEF Alone
<1>4. Grows(h, k)
  BY <1>1, <1>2, TouchGrows
<1>5. Clean(h) => k \in Kept(Byte, D, o)
  <2> SUFFICES ASSUME Clean(h) PROVE k \in Kept(Byte, D, o)
    OBVIOUS
  <2>1. h \in Kept(Byte, D, o)
    BY FirmIs
  <2> QED BY <1>1, <2>1, TouchKeeps
<1>6. Fitting(k)
  BY <1>1, <1>3, FittingMoves DEF Firm
<1> QED BY <1>3, <1>4, <1>5, <1>6, FirmStep

LEMMA EmitFirm ==
  ASSUME NEW D, NEW o, NEW h \in Firm(D, o), NEW r \in Regs, NEW v \in Byte \cup {Junk},
         NEW k, k = Emit(h, r, v)
  PROVE  k \in Firm(D, o) /\ k.home = h.home /\ k.bank = h.bank /\ k.hit = h.hit /\ k.first = h.first
<1>1. h \in Kept(Byte, {}, o)
  BY FirmIs
<1>2. k \in Kept(Byte, {}, o) /\ k.home = h.home /\ k.bank = h.bank
  BY <1>1, EmitKeeps
<1>3. k.hit = h.hit /\ k.first = h.first
  BY <1>1, EmitGrows
<1>4. Backed(h, D) => Backed(k, D)
  BY <1>2 DEF Backed
<1>5. Fitting(h) => Fitting(k)
  BY <1>2 DEF Fitting
<1>6. k \in Firm(D, o)
  BY <1>2, <1>3, <1>4, <1>5 DEF Firm, Clean
<1> QED BY <1>2, <1>3, <1>6

LEMMA ClearFirm ==
  ASSUME NEW D, NEW o, NEW h \in Firm(D, o), NEW r \in Regs, NEW k, k = clear(h, r)
  PROVE  /\ k \in Firm(D, o) /\ Grows(h, k) /\ Low(h, k) /\ k.first = h.first
         /\ Clean(h) => Vacant(k, D, r)
         /\ \A c \in Places : k.home[c] = h.home[c] \/ k.home[c] = None
<1>2. h \in Kept(Byte, {}, o)
  BY FirmIs
<1>3. k \in Kept(Byte, {}, o) /\ \A c \in Places : k.home[c] = h.home[c] \/ k.home[c] = None
  BY <1>2, ClearKeeps
<1>4. Grows(h, k) /\ Low(h, k) /\ k.first = h.first
  BY <1>2, ClearGrows
<1>5. Clean(h) => k \in Kept(Byte, D, o) /\ Vacant(k, D, r)
  <2> SUFFICES ASSUME Clean(h) PROVE k \in Kept(Byte, D, o) /\ Vacant(k, D, r)
    OBVIOUS
  <2>1. h \in Kept(Byte, D, o)
    BY FirmIs
  <2>2. k \in Kept(Byte, D, o) /\ \A c \in Places : c[1] \in D => k.home[c] # r
    BY <2>1, ClearKeeps
  <2> QED BY <2>2 DEF Vacant
<1>6. Fitting(k)
  BY <1>3 DEF Firm, Fitting
<1>7. k \in Firm(D, o)
  BY <1>3, <1>4, <1>5, <1>6, FirmStep
<1> QED BY <1>3, <1>4, <1>5, <1>7

LEMMA ClearSpares ==
  ASSUME NEW D, NEW o, NEW S \in SUBSET Regs, NEW h \in Spared(D, o, S), NEW r \in Regs,
         NEW k, k = clear(h, r)
  PROVE  k \in Spared(D, o, S \cup {r})
<1>1. h \in Firm(D, o)
  BY DEF Spared
<1>2. /\ k \in Firm(D, o) /\ Grows(h, k) /\ (Clean(h) => Vacant(k, D, r))
      /\ \A c \in Places : k.home[c] = h.home[c] \/ k.home[c] = None
  BY <1>1, ClearFirm
<1> SUFFICES ASSUME Clean(k), NEW q \in S \cup {r}, NEW c \in Places, c[1] \in D PROVE k.home[c] # q
  BY <1>2 DEF Spared, Vacant
<1>3. Clean(h)
  BY <1>2, GrowsClean
<1>4. CASE q = r
  BY <1>2, <1>3, <1>4 DEF Vacant
<1>5. CASE q \in S
  <2>1. h.home[c] # q
    BY <1>3, <1>5 DEF Spared, Vacant
  <2>2. q # None
    BY <1>5, RegsAssumption DEF Regs
  <2> QED BY <1>2, <2>1, <2>2
<1> QED BY <1>4, <1>5

LEMMA HitFirm ==
  ASSUME NEW D, NEW o, NEW h \in Firm(D, o), NEW H \in Noted, h.hit \subseteq H,
         NEW k, k = [h EXCEPT !.hit = H]
  PROVE  k \in Firm(D, o) /\ k.home = h.home /\ k.bank = h.bank /\ k.first = h.first /\ Grows(h, k)
<1>1. h \in Kept(Byte, {}, o)
  BY FirmIs
<1>3. k.hit = H /\ k.home = h.home /\ k.bank = h.bank /\ k.first = h.first
  BY <1>1 DEF Kept, Gens
<1>4. Grows(h, k)
  BY <1>3 DEF Grows
<1>f. Fitting(k)
  BY <1>3 DEF Firm, Fitting
<1>5. k \in Kept(Byte, {}, o)
  BY <1>1, HitKeeps, Zenon
<1>6. Clean(h) => k \in Kept(Byte, D, o)
  <2> SUFFICES ASSUME Clean(h) PROVE k \in Kept(Byte, D, o)
    OBVIOUS
  <2>1. h \in Kept(Byte, D, o)
    BY FirmIs
  <2> QED BY <2>1, HitKeeps, Zenon
<1>7. k \in Firm(D, o)
  BY <1>4, <1>5, <1>6, <1>f, FirmStep
<1> QED BY <1>3, <1>4, <1>7

(* A hazard is marked, or not.                                             *)
LEMMA NotedMore ==
  ASSUME NEW D, NEW o, NEW h \in Firm(D, o), NEW R \in Noted
  PROVE  h.hit \cup R \in Noted
BY FirmIs DEF Kept, Gens, Noted

LEMMA NotedWith ==
  ASSUME NEW D, NEW o, NEW h \in Firm(D, o), NEW r \in Reasons
  PROVE  h.hit \cup {r} \in Noted /\ h.hit \subseteq h.hit \cup {r}
<1>1. {r} \in Noted
  BY DEF Noted
<1> QED BY <1>1, NotedMore

LEMMA NotedIs ==
  ASSUME NEW D, NEW o, NEW h \in Firm(D, o)
  PROVE  h.hit \in Noted
BY FirmIs DEF Kept, Gens

LEMMA OccupyFirm ==
  ASSUME NEW D, NEW o, NEW h \in Firm(D, o), NEW r \in Regs, Clean(h) => Vacant(h, D, r),
         NEW x \in Syms, NEW i \in 0 .. MaxSize - 1, NEW k, k = occupy(h, r, x, i)
  PROVE  k \in Firm(D, o) /\ k.home = h.home /\ k.hit = h.hit /\ k.first = h.first
<1> DEFINE b == <<x, i>>
<1>0. b \in Places /\ k = [h EXCEPT !.bank[r] = b]
  BY BytesArePlaces DEF occupy
<1> HIDE DEF b
<1>1. h \in Kept(Byte, {}, o)
  BY FirmIs
<1>2. k.home = h.home /\ k.hit = h.hit /\ k.first = h.first /\ k.bank = [h.bank EXCEPT ![r] = b]
  BY <1>0, <1>1 DEF Kept, Gens
<1>3. k \in Gens(Byte) /\ Framed(k) /\ Onward(o, k)
  BY <1>0, <1>1 DEF Kept, Gens, Framed, OnStack, Apart, Onward
<1>4. Fitting(k)
  BY <1>2 DEF Firm, Fitting
<1>5. k \in Kept(Byte, {}, o)
  BY <1>3 DEF Kept, Backed
<1>6. Clean(h) => k \in Kept(Byte, D, o)
  <2> SUFFICES ASSUME Clean(h), NEW c \in Places, c[1] \in D, k.home[c] # None
               PROVE  k.bank[k.home[c]] = c
    BY <1>3 DEF Kept, Backed
  <2>1. h.home[c] \in Regs /\ h.home[c] # r /\ h.bank[h.home[c]] = c
    BY <1>1, <1>2, FirmIs DEF Kept, Gens, Backed, Vacant
  <2>2. h.bank \in [Regs -> Places \cup {None}]
    BY <1>1 DEF Kept, Gens
  <2> QED BY <1>2, <2>1, <2>2
<1>7. Grows(h, k)
  BY <1>2 DEF Grows
<1> QED BY <1>2, <1>4, <1>5, <1>6, <1>7, FirmStep

LEMMA SettleFirm ==
  ASSUME NEW D, NEW o, NEW h \in Firm(D, o), NEW r \in Regs, Clean(h) => Vacant(h, D, r),
         NEW x \in Syms, NEW i \in Bytes(x), NEW k, k = Settled(h, r, x, i)
  PROVE  k \in Firm(D, o) /\ Gives(h, k, r, <<x, i>>) /\ k.hit = h.hit /\ k.first = h.first
<1>1. h \in Kept(Byte, {}, o) /\ <<x, i>> \in AllBytes /\ i \in 0 .. MaxSize - 1
  BY FirmIs, BytesArePlaces
<1>2. k.hit = h.hit /\ k.first = h.first
  BY <1>1 DEF Settled, occupy, Kept, Gens
<1>3. k \in Kept(Byte, {}, o) /\ Gives(h, k, r, <<x, i>>)
  <2>1. Vacant(h, {}, r)
    BY DEF Vacant
  <2> QED BY <1>1, <2>1, SettleKeeps, Zenon
<1>4. Clean(h) => k \in Kept(Byte, D, o)
  <2> SUFFICES ASSUME Clean(h) PROVE k \in Kept(Byte, D, o)
    OBVIOUS
  <2>1. h \in Kept(Byte, D, o) /\ Vacant(h, D, r)
    BY FirmIs
  <2> QED BY <1>1, <2>1, SettleKeeps, Zenon
<1>5. Alone(h, k, <<x, i>>)
  BY <1>3 DEF Gives, Alone
<1>6. Fitting(k)
  BY <1>1, <1>5, FittingMoves DEF Firm
<1>7. Grows(h, k)
  BY <1>2 DEF Grows
<1>8. k \in Firm(D, o)
  BY <1>3, <1>4, <1>6, <1>7, FirmStep
<1> QED BY <1>2, <1>3, <1>8

LEMMA TouchNextFirm ==
  ASSUME NEW D, NEW o, NEW h \in Firm(D, o), NEW x, NEW y \in Syms, NEW i \in Bytes(y),
         NEW k, k = TouchNext(h, x, y, i)
  PROVE  k \in Firm(D, o) /\ k.home[<<y, i>>] \in Regs
<1> DEFINE m == Touch(h, y, i)
           H == m.hit \cup {"operand evicted"}
<1>1. m \in Firm(D, o) /\ m.home[<<y, i>>] \in Regs
  BY TouchFirm
<1>2. k = m \/ k = [m EXCEPT !.hit = H]
  BY DEF TouchNext
<1> HIDE DEF m
<1>3. H \in Noted /\ m.hit \subseteq H
  <2>1. "operand evicted" \in Reasons
    BY DEF Reasons
  <2> QED BY <1>1, <2>1, NotedWith
<1> HIDE DEF H
<1>4. CASE k = m
  BY <1>1, <1>4
<1>5. CASE k = [m EXCEPT !.hit = H]
  <2>1. k \in Firm(D, o) /\ k.home = m.home
    BY <1>1, <1>3, <1>5, HitFirm
  <2> QED BY <1>1, <2>1
<1> QED BY <1>2, <1>4, <1>5

LEMMA RegIn ==
  ASSUME NEW D, NEW o, NEW h \in Firm(D, o), NEW r \in Regs
  PROVE  h.reg[r] \in Byte \cup {Junk}
BY FirmIs DEF Kept, Gens

LEMMA LoadFirm ==
  ASSUME NEW D, NEW o, NEW h \in Firm(D, o), NEW x \in Syms, NEW y \in Syms,
         NEW i \in Bytes(x) \cap Bytes(y)
  PROVE  Load(h, x, y, i) \in Firm(D, o)
<1> DEFINE m == Touch(h, x, i)
           k == TouchNext(m, x, y, i)
<1>1. Load(h, x, y, i) = Emit(k, m.home[<<x, i>>], k.reg[k.home[<<y, i>>]])
  BY DEF Load
<1>2. m \in Firm(D, o) /\ m.home[<<x, i>>] \in Regs
  BY TouchFirm
<1> HIDE DEF m
<1>3. k \in Firm(D, o) /\ k.home[<<y, i>>] \in Regs
  BY <1>2, TouchNextFirm
<1> HIDE DEF k
<1>4. k.reg[k.home[<<y, i>>]] \in Byte \cup {Junk}
  BY <1>3, RegIn
<1> QED BY <1>1, <1>2, <1>3, <1>4, EmitFirm

LEMMA LoadLitFirm ==
  ASSUME NEW D, NEW o, NEW h \in Firm(D, o), NEW x \in Syms, NEW i \in Bytes(x), NEW v \in Byte
  PROVE  LoadLit(h, x, i, v) \in Firm(D, o)
<1> DEFINE k == Touch(h, x, i)
<1>1. LoadLit(h, x, i, v) = Emit(k, k.home[<<x, i>>], v)
  BY DEF LoadLit
<1>2. k \in Firm(D, o) /\ k.home[<<x, i>>] \in Regs
  BY TouchFirm
<1> HIDE DEF k
<1> QED BY <1>1, <1>2, EmitFirm

LEMMA TakeFirm ==
  ASSUME NEW D, NEW o, NEW h \in Firm(D, o), NEW x \in Syms, NEW y \in Syms, y \in D,
         NEW i \in Bytes(x) \cap Bytes(y), h.home[<<y, i>>] # None
  PROVE  Take(h, x, y, i) \in Firm(D, o)
<1> DEFINE r == h.home[<<y, i>>]
           b == <<x, i>>
           c == <<y, i>>
           v == IF h.bank[r] = None THEN None ELSE <<x, h.bank[r][2]>>
           k == Take(h, x, y, i)
<1>1. b \in AllBytes /\ c \in AllBytes /\ b \in Places /\ c \in Places /\ i \in 0 .. MaxSize - 1
  BY BytesArePlaces
<1>2. h \in Kept(Byte, {}, o)
  BY FirmIs
<1>3. r \in Regs
  BY <1>1, <1>2 DEF Kept, Gens
<1>4. v \in Places \cup {None}
  <2>1. h.bank[r] \in Places \cup {None}
    BY <1>2, <1>3 DEF Kept, Gens
  <2>2. h.bank[r] # None => h.bank[r][2] \in 0 .. MaxSize - 1
    BY <2>1, BytesArePlaces
  <2> QED BY <2>2 DEF Places
<1>5. k = [h EXCEPT !.home[b] = r, !.home[c] = None, !.bank[r] = v]
  BY DEF Take
<1> HIDE DEF b, c, r, v, k
<1>6. /\ k \in Gens(Byte) /\ Framed(k) /\ Onward(o, k) /\ k.hit = h.hit
      /\ k.home = [[h.home EXCEPT ![b] = r] EXCEPT ![c] = None]
  BY <1>1, <1>2, <1>3, <1>4, <1>5 DEF Kept, Gens, Framed, OnStack, Apart, Onward
<1>7. k \in Kept(Byte, {}, o)
  BY <1>6 DEF Kept, Backed
<1>8. Alone(h, k, b)
  <2>1. h.home \in [Places -> Regs \cup {None}]
    BY <1>2 DEF Kept, Gens
  <2> QED BY <1>1, <1>6, <2>1 DEF Alone
<1>9. Fitting(k)
  BY <1>1, <1>8, FittingMoves DEF Firm
<1>10. Clean(h) => k \in Kept(Byte, D, o)
  <2> SUFFICES ASSUME Clean(h) PROVE k \in Kept(Byte, D, o)
    OBVIOUS
  <2>1. h \in Kept(Byte, D, o)
    BY FirmIs
  <2> QED BY <1>1, <2>1, TakeKeeps DEF k
<1>11. Grows(h, k)
  BY <1>6 DEF Grows
<1>12. k \in Firm(D, o)
  BY <1>7, <1>9, <1>10, <1>11, FirmStep
<1> QED BY <1>12 DEF k

-----------------------------------------------------------------------------
(* The loops of the handlers of calls.                                     *)
Arrived(k, x, c, r, i) == Settled(Emit(k, r + i, c[i]), r + i, x, i)
OutliveByte(k, r) == IF r \in VarRegs(k) /\ k.bank[r] # None
                     THEN IF LiveTo(k, r) > k.seq THEN clear(k, r) ELSE k
                     ELSE k

(* Send: each byte in its register.                                        *)
Sends(h, x, b, n) == ForBytes(LAMBDA k, i : SendByte(k, x, i, b + i), h, n)

LEMMA SendsReach ==
  ASSUME NEW x, NEW b, NEW n \in Nat, NEW K, NEW h \in K[0],
         \A i \in 0 .. n - 1 : \A k \in K[i] : SendByte(k, x, i, b + i) \in K[i + 1]
  PROVE  Sends(h, x, b, n) \in K[n]
<1> DEFINE Step(k, i) == SendByte(k, x, i, b + i)
           F(f) == [k \in 0 .. n |-> IF k = 0 THEN h ELSE Step(f[k - 1], k - 1)]
           G == [a \in Stages(K, n) \X (0 .. n - 1) |-> Step(a[1], a[2])]
           run == CHOOSE f : f = F(f)
<1>1. \A i \in 0 .. n - 1 : \A k \in K[i] : Step(k, i) \in K[i + 1]
  OBVIOUS
<1> HIDE DEF Step
<1>2. \A i \in 0 .. n - 1 : \A k \in K[i] : G[<<k, i>>] = Step(k, i)
  BY DEF Stages
<1>3. \A i \in 0 .. n - 1 : \A k \in K[i] : G[<<k, i>>] \in K[i + 1]
  BY <1>1, <1>2
<1> HIDE DEF G
<1>4. PICK f \in LoopRuns(K, n, h, G) : TRUE
  BY <1>3, LoopExists
<1>5. ASSUME NEW k \in 1 .. n PROVE f[k] = Step(f[k - 1], k - 1)
  <2>1. f[k - 1] \in K[k - 1] /\ k - 1 \in 0 .. n - 1
    BY <1>4 DEF LoopRuns
  <2> QED BY <1>2, <1>4, <2>1 DEF LoopRuns
<1>6. f = F(f)
  BY <1>4, <1>5 DEF LoopRuns
<1>7. run = F(run)
  BY <1>6
<1> HIDE DEF run
<1>8. run[0] = h /\ \A k \in 1 .. n : run[k] = Step(run[k - 1], k - 1)
  BY <1>7
<1>9. \A k \in 1 .. n : run[k - 1] \in K[k - 1] => run[k] \in K[k]
  <2> SUFFICES ASSUME NEW k \in 1 .. n, run[k - 1] \in K[k - 1] PROVE run[k] \in K[k]
    OBVIOUS
  <2>1. k - 1 \in 0 .. n - 1 /\ (k - 1) + 1 = k
    OBVIOUS
  <2> QED BY <1>1, <1>8, <2>1
<1>10. run[n] \in K[n]
  BY <1>8, <1>9, LoopKeeps
<1> QED BY <1>10 DEF Sends, ForBytes, run, Step

(* Send of a literal.                                                      *)
SendLits(h, c, b, n) == ForBytes(LAMBDA k, i : SendLitByte(k, c, i, b + i), h, n)

LEMMA SendLitsReach ==
  ASSUME NEW c, NEW b, NEW n \in Nat, NEW K, NEW h \in K[0],
         \A i \in 0 .. n - 1 : \A k \in K[i] : SendLitByte(k, c, i, b + i) \in K[i + 1]
  PROVE  SendLits(h, c, b, n) \in K[n]
<1> DEFINE Step(k, i) == SendLitByte(k, c, i, b + i)
           F(f) == [k \in 0 .. n |-> IF k = 0 THEN h ELSE Step(f[k - 1], k - 1)]
           G == [a \in Stages(K, n) \X (0 .. n - 1) |-> Step(a[1], a[2])]
           run == CHOOSE f : f = F(f)
<1>1. \A i \in 0 .. n - 1 : \A k \in K[i] : Step(k, i) \in K[i + 1]
  OBVIOUS
<1> HIDE DEF Step
<1>2. \A i \in 0 .. n - 1 : \A k \in K[i] : G[<<k, i>>] = Step(k, i)
  BY DEF Stages
<1>3. \A i \in 0 .. n - 1 : \A k \in K[i] : G[<<k, i>>] \in K[i + 1]
  BY <1>1, <1>2
<1> HIDE DEF G
<1>4. PICK f \in LoopRuns(K, n, h, G) : TRUE
  BY <1>3, LoopExists
<1>5. ASSUME NEW k \in 1 .. n PROVE f[k] = Step(f[k - 1], k - 1)
  <2>1. f[k - 1] \in K[k - 1] /\ k - 1 \in 0 .. n - 1
    BY <1>4 DEF LoopRuns
  <2> QED BY <1>2, <1>4, <2>1 DEF LoopRuns
<1>6. f = F(f)
  BY <1>4, <1>5 DEF LoopRuns
<1>7. run = F(run)
  BY <1>6
<1> HIDE DEF run
<1>8. run[0] = h /\ \A k \in 1 .. n : run[k] = Step(run[k - 1], k - 1)
  BY <1>7
<1>9. \A k \in 1 .. n : run[k - 1] \in K[k - 1] => run[k] \in K[k]
  <2> SUFFICES ASSUME NEW k \in 1 .. n, run[k - 1] \in K[k - 1] PROVE run[k] \in K[k]
    OBVIOUS
  <2>1. k - 1 \in 0 .. n - 1 /\ (k - 1) + 1 = k
    OBVIOUS
  <2> QED BY <1>1, <1>8, <2>1
<1>10. run[n] \in K[n]
  BY <1>8, <1>9, LoopKeeps
<1> QED BY <1>10 DEF SendLits, ForBytes, run, Step

(* Send in main.                                                           *)
Stars(h, x, b, n) == ForBytes(LAMBDA k, i : StarByte(k, x, i, b), h, n)

LEMMA StarsReach ==
  ASSUME NEW x, NEW b, NEW n \in Nat, NEW K, NEW h \in K[0],
         \A i \in 0 .. n - 1 : \A k \in K[i] : StarByte(k, x, i, b) \in K[i + 1]
  PROVE  Stars(h, x, b, n) \in K[n]
<1> DEFINE Step(k, i) == StarByte(k, x, i, b)
           F(f) == [k \in 0 .. n |-> IF k = 0 THEN h ELSE Step(f[k - 1], k - 1)]
           G == [a \in Stages(K, n) \X (0 .. n - 1) |-> Step(a[1], a[2])]
           run == CHOOSE f : f = F(f)
<1>1. \A i \in 0 .. n - 1 : \A k \in K[i] : Step(k, i) \in K[i + 1]
  OBVIOUS
<1> HIDE DEF Step
<1>2. \A i \in 0 .. n - 1 : \A k \in K[i] : G[<<k, i>>] = Step(k, i)
  BY DEF Stages
<1>3. \A i \in 0 .. n - 1 : \A k \in K[i] : G[<<k, i>>] \in K[i + 1]
  BY <1>1, <1>2
<1> HIDE DEF G
<1>4. PICK f \in LoopRuns(K, n, h, G) : TRUE
  BY <1>3, LoopExists
<1>5. ASSUME NEW k \in 1 .. n PROVE f[k] = Step(f[k - 1], k - 1)
  <2>1. f[k - 1] \in K[k - 1] /\ k - 1 \in 0 .. n - 1
    BY <1>4 DEF LoopRuns
  <2> QED BY <1>2, <1>4, <2>1 DEF LoopRuns
<1>6. f = F(f)
  BY <1>4, <1>5 DEF LoopRuns
<1>7. run = F(run)
  BY <1>6
<1> HIDE DEF run
<1>8. run[0] = h /\ \A k \in 1 .. n : run[k] = Step(run[k - 1], k - 1)
  BY <1>7
<1>9. \A k \in 1 .. n : run[k - 1] \in K[k - 1] => run[k] \in K[k]
  <2> SUFFICES ASSUME NEW k \in 1 .. n, run[k - 1] \in K[k - 1] PROVE run[k] \in K[k]
    OBVIOUS
  <2>1. k - 1 \in 0 .. n - 1 /\ (k - 1) + 1 = k
    OBVIOUS
  <2> QED BY <1>1, <1>8, <2>1
<1>10. run[n] \in K[n]
  BY <1>8, <1>9, LoopKeeps
<1> QED BY <1>10 DEF Stars, ForBytes, run, Step

(* Send of a literal in main.                                              *)
StarLits(h, c, b, n) == ForBytes(LAMBDA k, i : StarLitByte(k, c, i, b), h, n)

LEMMA StarLitsReach ==
  ASSUME NEW c, NEW b, NEW n \in Nat, NEW K, NEW h \in K[0],
         \A i \in 0 .. n - 1 : \A k \in K[i] : StarLitByte(k, c, i, b) \in K[i + 1]
  PROVE  StarLits(h, c, b, n) \in K[n]
<1> DEFINE Step(k, i) == StarLitByte(k, c, i, b)
           F(f) == [k \in 0 .. n |-> IF k = 0 THEN h ELSE Step(f[k - 1], k - 1)]
           G == [a \in Stages(K, n) \X (0 .. n - 1) |-> Step(a[1], a[2])]
           run == CHOOSE f : f = F(f)
<1>1. \A i \in 0 .. n - 1 : \A k \in K[i] : Step(k, i) \in K[i + 1]
  OBVIOUS
<1> HIDE DEF Step
<1>2. \A i \in 0 .. n - 1 : \A k \in K[i] : G[<<k, i>>] = Step(k, i)
  BY DEF Stages
<1>3. \A i \in 0 .. n - 1 : \A k \in K[i] : G[<<k, i>>] \in K[i + 1]
  BY <1>1, <1>2
<1> HIDE DEF G
<1>4. PICK f \in LoopRuns(K, n, h, G) : TRUE
  BY <1>3, LoopExists
<1>5. ASSUME NEW k \in 1 .. n PROVE f[k] = Step(f[k - 1], k - 1)
  <2>1. f[k - 1] \in K[k - 1] /\ k - 1 \in 0 .. n - 1
    BY <1>4 DEF LoopRuns
  <2> QED BY <1>2, <1>4, <2>1 DEF LoopRuns
<1>6. f = F(f)
  BY <1>4, <1>5 DEF LoopRuns
<1>7. run = F(run)
  BY <1>6
<1> HIDE DEF run
<1>8. run[0] = h /\ \A k \in 1 .. n : run[k] = Step(run[k - 1], k - 1)
  BY <1>7
<1>9. \A k \in 1 .. n : run[k - 1] \in K[k - 1] => run[k] \in K[k]
  <2> SUFFICES ASSUME NEW k \in 1 .. n, run[k - 1] \in K[k - 1] PROVE run[k] \in K[k]
    OBVIOUS
  <2>1. k - 1 \in 0 .. n - 1 /\ (k - 1) + 1 = k
    OBVIOUS
  <2> QED BY <1>1, <1>8, <2>1
<1>10. run[n] \in K[n]
  BY <1>8, <1>9, LoopKeeps
<1> QED BY <1>10 DEF StarLits, ForBytes, run, Step

(* Receive.                                                                *)
Arrivals(h, x, c, r, n) == ForBytes(LAMBDA k, i : Arrived(k, x, c, r, i), h, n)

LEMMA ArrivalsReach ==
  ASSUME NEW x, NEW c, NEW r, NEW n \in Nat, NEW K, NEW h \in K[0],
         \A i \in 0 .. n - 1 : \A k \in K[i] : Arrived(k, x, c, r, i) \in K[i + 1]
  PROVE  Arrivals(h, x, c, r, n) \in K[n]
<1> DEFINE Step(k, i) == Arrived(k, x, c, r, i)
           F(f) == [k \in 0 .. n |-> IF k = 0 THEN h ELSE Step(f[k - 1], k - 1)]
           G == [a \in Stages(K, n) \X (0 .. n - 1) |-> Step(a[1], a[2])]
           run == CHOOSE f : f = F(f)
<1>1. \A i \in 0 .. n - 1 : \A k \in K[i] : Step(k, i) \in K[i + 1]
  OBVIOUS
<1> HIDE DEF Step
<1>2. \A i \in 0 .. n - 1 : \A k \in K[i] : G[<<k, i>>] = Step(k, i)
  BY DEF Stages
<1>3. \A i \in 0 .. n - 1 : \A k \in K[i] : G[<<k, i>>] \in K[i + 1]
  BY <1>1, <1>2
<1> HIDE DEF G
<1>4. PICK f \in LoopRuns(K, n, h, G) : TRUE
  BY <1>3, LoopExists
<1>5. ASSUME NEW k \in 1 .. n PROVE f[k] = Step(f[k - 1], k - 1)
  <2>1. f[k - 1] \in K[k - 1] /\ k - 1 \in 0 .. n - 1
    BY <1>4 DEF LoopRuns
  <2> QED BY <1>2, <1>4, <2>1 DEF LoopRuns
<1>6. f = F(f)
  BY <1>4, <1>5 DEF LoopRuns
<1>7. run = F(run)
  BY <1>6
<1> HIDE DEF run
<1>8. run[0] = h /\ \A k \in 1 .. n : run[k] = Step(run[k - 1], k - 1)
  BY <1>7
<1>9. \A k \in 1 .. n : run[k - 1] \in K[k - 1] => run[k] \in K[k]
  <2> SUFFICES ASSUME NEW k \in 1 .. n, run[k - 1] \in K[k - 1] PROVE run[k] \in K[k]
    OBVIOUS
  <2>1. k - 1 \in 0 .. n - 1 /\ (k - 1) + 1 = k
    OBVIOUS
  <2> QED BY <1>1, <1>8, <2>1
<1>10. run[n] \in K[n]
  BY <1>8, <1>9, LoopKeeps
<1> QED BY <1>10 DEF Arrivals, ForBytes, run, Step

(* The registers saved before a call.                                      *)
Saves(h, n) == ForBytes(LAMBDA k, i : SaveByte(k, i), h, n)

LEMMA SavesReach ==
  ASSUME NEW n \in Nat, NEW K, NEW h \in K[0],
         \A i \in 0 .. n - 1 : \A k \in K[i] : SaveByte(k, i) \in K[i + 1]
  PROVE  Saves(h, n) \in K[n]
<1> DEFINE Step(k, i) == SaveByte(k, i)
           F(f) == [k \in 0 .. n |-> IF k = 0 THEN h ELSE Step(f[k - 1], k - 1)]
           G == [a \in Stages(K, n) \X (0 .. n - 1) |-> Step(a[1], a[2])]
           run == CHOOSE f : f = F(f)
<1>1. \A i \in 0 .. n - 1 : \A k \in K[i] : Step(k, i) \in K[i + 1]
  OBVIOUS
<1> HIDE DEF Step
<1>2. \A i \in 0 .. n - 1 : \A k \in K[i] : G[<<k, i>>] = Step(k, i)
  BY DEF Stages
<1>3. \A i \in 0 .. n - 1 : \A k \in K[i] : G[<<k, i>>] \in K[i + 1]
  BY <1>1, <1>2
<1> HIDE DEF G
<1>4. PICK f \in LoopRuns(K, n, h, G) : TRUE
  BY <1>3, LoopExists
<1>5. ASSUME NEW k \in 1 .. n PROVE f[k] = Step(f[k - 1], k - 1)
  <2>1. f[k - 1] \in K[k - 1] /\ k - 1 \in 0 .. n - 1
    BY <1>4 DEF LoopRuns
  <2> QED BY <1>2, <1>4, <2>1 DEF LoopRuns
<1>6. f = F(f)
  BY <1>4, <1>5 DEF LoopRuns
<1>7. run = F(run)
  BY <1>6
<1> HIDE DEF run
<1>8. run[0] = h /\ \A k \in 1 .. n : run[k] = Step(run[k - 1], k - 1)
  BY <1>7
<1>9. \A k \in 1 .. n : run[k - 1] \in K[k - 1] => run[k] \in K[k]
  <2> SUFFICES ASSUME NEW k \in 1 .. n, run[k - 1] \in K[k - 1] PROVE run[k] \in K[k]
    OBVIOUS
  <2>1. k - 1 \in 0 .. n - 1 /\ (k - 1) + 1 = k
    OBVIOUS
  <2> QED BY <1>1, <1>8, <2>1
<1>10. run[n] \in K[n]
  BY <1>8, <1>9, LoopKeeps
<1> QED BY <1>10 DEF Saves, ForBytes, run, Step

(* The registers of the result, cleared.                                   *)
Clears(h, n) == ForBytes(LAMBDA k, i : clear(k, i), h, n)

LEMMA ClearsReach ==
  ASSUME NEW n \in Nat, NEW K, NEW h \in K[0],
         \A i \in 0 .. n - 1 : \A k \in K[i] : clear(k, i) \in K[i + 1]
  PROVE  Clears(h, n) \in K[n]
<1> DEFINE Step(k, i) == clear(k, i)
           F(f) == [k \in 0 .. n |-> IF k = 0 THEN h ELSE Step(f[k - 1], k - 1)]
           G == [a \in Stages(K, n) \X (0 .. n - 1) |-> Step(a[1], a[2])]
           run == CHOOSE f : f = F(f)
<1>1. \A i \in 0 .. n - 1 : \A k \in K[i] : Step(k, i) \in K[i + 1]
  OBVIOUS
<1> HIDE DEF Step
<1>2. \A i \in 0 .. n - 1 : \A k \in K[i] : G[<<k, i>>] = Step(k, i)
  BY DEF Stages
<1>3. \A i \in 0 .. n - 1 : \A k \in K[i] : G[<<k, i>>] \in K[i + 1]
  BY <1>1, <1>2
<1> HIDE DEF G
<1>4. PICK f \in LoopRuns(K, n, h, G) : TRUE
  BY <1>3, LoopExists
<1>5. ASSUME NEW k \in 1 .. n PROVE f[k] = Step(f[k - 1], k - 1)
  <2>1. f[k - 1] \in K[k - 1] /\ k - 1 \in 0 .. n - 1
    BY <1>4 DEF LoopRuns
  <2> QED BY <1>2, <1>4, <2>1 DEF LoopRuns
<1>6. f = F(f)
  BY <1>4, <1>5 DEF LoopRuns
<1>7. run = F(run)
  BY <1>6
<1> HIDE DEF run
<1>8. run[0] = h /\ \A k \in 1 .. n : run[k] = Step(run[k - 1], k - 1)
  BY <1>7
<1>9. \A k \in 1 .. n : run[k - 1] \in K[k - 1] => run[k] \in K[k]
  <2> SUFFICES ASSUME NEW k \in 1 .. n, run[k - 1] \in K[k - 1] PROVE run[k] \in K[k]
    OBVIOUS
  <2>1. k - 1 \in 0 .. n - 1 /\ (k - 1) + 1 = k
    OBVIOUS
  <2> QED BY <1>1, <1>8, <2>1
<1>10. run[n] \in K[n]
  BY <1>8, <1>9, LoopKeeps
<1> QED BY <1>10 DEF Clears, ForBytes, run, Step

(* The registers of the result, named.                                     *)
Results(h, x, n) == ForBytes(LAMBDA k, i : Settled(k, i, x, i), h, n)

LEMMA ResultsReach ==
  ASSUME NEW x, NEW n \in Nat, NEW K, NEW h \in K[0],
         \A i \in 0 .. n - 1 : \A k \in K[i] : Settled(k, i, x, i) \in K[i + 1]
  PROVE  Results(h, x, n) \in K[n]
<1> DEFINE Step(k, i) == Settled(k, i, x, i)
           F(f) == [k \in 0 .. n |-> IF k = 0 THEN h ELSE Step(f[k - 1], k - 1)]
           G == [a \in Stages(K, n) \X (0 .. n - 1) |-> Step(a[1], a[2])]
           run == CHOOSE f : f = F(f)
<1>1. \A i \in 0 .. n - 1 : \A k \in K[i] : Step(k, i) \in K[i + 1]
  OBVIOUS
<1> HIDE DEF Step
<1>2. \A i \in 0 .. n - 1 : \A k \in K[i] : G[<<k, i>>] = Step(k, i)
  BY DEF Stages
<1>3. \A i \in 0 .. n - 1 : \A k \in K[i] : G[<<k, i>>] \in K[i + 1]
  BY <1>1, <1>2
<1> HIDE DEF G
<1>4. PICK f \in LoopRuns(K, n, h, G) : TRUE
  BY <1>3, LoopExists
<1>5. ASSUME NEW k \in 1 .. n PROVE f[k] = Step(f[k - 1], k - 1)
  <2>1. f[k - 1] \in K[k - 1] /\ k - 1 \in 0 .. n - 1
    BY <1>4 DEF LoopRuns
  <2> QED BY <1>2, <1>4, <2>1 DEF LoopRuns
<1>6. f = F(f)
  BY <1>4, <1>5 DEF LoopRuns
<1>7. run = F(run)
  BY <1>6
<1> HIDE DEF run
<1>8. run[0] = h /\ \A k \in 1 .. n : run[k] = Step(run[k - 1], k - 1)
  BY <1>7
<1>9. \A k \in 1 .. n : run[k - 1] \in K[k - 1] => run[k] \in K[k]
  <2> SUFFICES ASSUME NEW k \in 1 .. n, run[k - 1] \in K[k - 1] PROVE run[k] \in K[k]
    OBVIOUS
  <2>1. k - 1 \in 0 .. n - 1 /\ (k - 1) + 1 = k
    OBVIOUS
  <2> QED BY <1>1, <1>8, <2>1
<1>10. run[n] \in K[n]
  BY <1>8, <1>9, LoopKeeps
<1> QED BY <1>10 DEF Results, ForBytes, run, Step

(* The address of an indirect call in main.                                *)
TargetStars(h, p, n) == ForBytes(LAMBDA k, i : TargetStar(k, p, i), h, n)

LEMMA TargetStarsReach ==
  ASSUME NEW p, NEW n \in Nat, NEW K, NEW h \in K[0],
         \A i \in 0 .. n - 1 : \A k \in K[i] : TargetStar(k, p, i) \in K[i + 1]
  PROVE  TargetStars(h, p, n) \in K[n]
<1> DEFINE Step(k, i) == TargetStar(k, p, i)
           F(f) == [k \in 0 .. n |-> IF k = 0 THEN h ELSE Step(f[k - 1], k - 1)]
           G == [a \in Stages(K, n) \X (0 .. n - 1) |-> Step(a[1], a[2])]
           run == CHOOSE f : f = F(f)
<1>1. \A i \in 0 .. n - 1 : \A k \in K[i] : Step(k, i) \in K[i + 1]
  OBVIOUS
<1> HIDE DEF Step
<1>2. \A i \in 0 .. n - 1 : \A k \in K[i] : G[<<k, i>>] = Step(k, i)
  BY DEF Stages
<1>3. \A i \in 0 .. n - 1 : \A k \in K[i] : G[<<k, i>>] \in K[i + 1]
  BY <1>1, <1>2
<1> HIDE DEF G
<1>4. PICK f \in LoopRuns(K, n, h, G) : TRUE
  BY <1>3, LoopExists
<1>5. ASSUME NEW k \in 1 .. n PROVE f[k] = Step(f[k - 1], k - 1)
  <2>1. f[k - 1] \in K[k - 1] /\ k - 1 \in 0 .. n - 1
    BY <1>4 DEF LoopRuns
  <2> QED BY <1>2, <1>4, <2>1 DEF LoopRuns
<1>6. f = F(f)
  BY <1>4, <1>5 DEF LoopRuns
<1>7. run = F(run)
  BY <1>6
<1> HIDE DEF run
<1>8. run[0] = h /\ \A k \in 1 .. n : run[k] = Step(run[k - 1], k - 1)
  BY <1>7
<1>9. \A k \in 1 .. n : run[k - 1] \in K[k - 1] => run[k] \in K[k]
  <2> SUFFICES ASSUME NEW k \in 1 .. n, run[k - 1] \in K[k - 1] PROVE run[k] \in K[k]
    OBVIOUS
  <2>1. k - 1 \in 0 .. n - 1 /\ (k - 1) + 1 = k
    OBVIOUS
  <2> QED BY <1>1, <1>8, <2>1
<1>10. run[n] \in K[n]
  BY <1>8, <1>9, LoopKeeps
<1> QED BY <1>10 DEF TargetStars, ForBytes, run, Step

(* The address of an indirect call.                                        *)
TargetBytes(h, p, n) == ForBytes(LAMBDA k, i : TargetByte(k, p, i), h, n)

LEMMA TargetBytesReach ==
  ASSUME NEW p, NEW n \in Nat, NEW K, NEW h \in K[0],
         \A i \in 0 .. n - 1 : \A k \in K[i] : TargetByte(k, p, i) \in K[i + 1]
  PROVE  TargetBytes(h, p, n) \in K[n]
<1> DEFINE Step(k, i) == TargetByte(k, p, i)
           F(f) == [k \in 0 .. n |-> IF k = 0 THEN h ELSE Step(f[k - 1], k - 1)]
           G == [a \in Stages(K, n) \X (0 .. n - 1) |-> Step(a[1], a[2])]
           run == CHOOSE f : f = F(f)
<1>1. \A i \in 0 .. n - 1 : \A k \in K[i] : Step(k, i) \in K[i + 1]
  OBVIOUS
<1> HIDE DEF Step
<1>2. \A i \in 0 .. n - 1 : \A k \in K[i] : G[<<k, i>>] = Step(k, i)
  BY DEF Stages
<1>3. \A i \in 0 .. n - 1 : \A k \in K[i] : G[<<k, i>>] \in K[i + 1]
  BY <1>1, <1>2
<1> HIDE DEF G
<1>4. PICK f \in LoopRuns(K, n, h, G) : TRUE
  BY <1>3, LoopExists
<1>5. ASSUME NEW k \in 1 .. n PROVE f[k] = Step(f[k - 1], k - 1)
  <2>1. f[k - 1] \in K[k - 1] /\ k - 1 \in 0 .. n - 1
    BY <1>4 DEF LoopRuns
  <2> QED BY <1>2, <1>4, <2>1 DEF LoopRuns
<1>6. f = F(f)
  BY <1>4, <1>5 DEF LoopRuns
<1>7. run = F(run)
  BY <1>6
<1> HIDE DEF run
<1>8. run[0] = h /\ \A k \in 1 .. n : run[k] = Step(run[k - 1], k - 1)
  BY <1>7
<1>9. \A k \in 1 .. n : run[k - 1] \in K[k - 1] => run[k] \in K[k]
  <2> SUFFICES ASSUME NEW k \in 1 .. n, run[k - 1] \in K[k - 1] PROVE run[k] \in K[k]
    OBVIOUS
  <2>1. k - 1 \in 0 .. n - 1 /\ (k - 1) + 1 = k
    OBVIOUS
  <2> QED BY <1>1, <1>8, <2>1
<1>10. run[n] \in K[n]
  BY <1>8, <1>9, LoopKeeps
<1> QED BY <1>10 DEF TargetBytes, ForBytes, run, Step

(* What outlives a return.                                                 *)
Outlives(h, n) == ForBytes(LAMBDA k, i : OutliveByte(k, i), h, n)

LEMMA OutlivesReach ==
  ASSUME NEW n \in Nat, NEW K, NEW h \in K[0],
         \A i \in 0 .. n - 1 : \A k \in K[i] : OutliveByte(k, i) \in K[i + 1]
  PROVE  Outlives(h, n) \in K[n]
<1> DEFINE Step(k, i) == OutliveByte(k, i)
           F(f) == [k \in 0 .. n |-> IF k = 0 THEN h ELSE Step(f[k - 1], k - 1)]
           G == [a \in Stages(K, n) \X (0 .. n - 1) |-> Step(a[1], a[2])]
           run == CHOOSE f : f = F(f)
<1>1. \A i \in 0 .. n - 1 : \A k \in K[i] : Step(k, i) \in K[i + 1]
  OBVIOUS
<1> HIDE DEF Step
<1>2. \A i \in 0 .. n - 1 : \A k \in K[i] : G[<<k, i>>] = Step(k, i)
  BY DEF Stages
<1>3. \A i \in 0 .. n - 1 : \A k \in K[i] : G[<<k, i>>] \in K[i + 1]
  BY <1>1, <1>2
<1> HIDE DEF G
<1>4. PICK f \in LoopRuns(K, n, h, G) : TRUE
  BY <1>3, LoopExists
<1>5. ASSUME NEW k \in 1 .. n PROVE f[k] = Step(f[k - 1], k - 1)
  <2>1. f[k - 1] \in K[k - 1] /\ k - 1 \in 0 .. n - 1
    BY <1>4 DEF LoopRuns
  <2> QED BY <1>2, <1>4, <2>1 DEF LoopRuns
<1>6. f = F(f)
  BY <1>4, <1>5 DEF LoopRuns
<1>7. run = F(run)
  BY <1>6
<1> HIDE DEF run
<1>8. run[0] = h /\ \A k \in 1 .. n : run[k] = Step(run[k - 1], k - 1)
  BY <1>7
<1>9. \A k \in 1 .. n : run[k - 1] \in K[k - 1] => run[k] \in K[k]
  <2> SUFFICES ASSUME NEW k \in 1 .. n, run[k - 1] \in K[k - 1] PROVE run[k] \in K[k]
    OBVIOUS
  <2>1. k - 1 \in 0 .. n - 1 /\ (k - 1) + 1 = k
    OBVIOUS
  <2> QED BY <1>1, <1>8, <2>1
<1>10. run[n] \in K[n]
  BY <1>8, <1>9, LoopKeeps
<1> QED BY <1>10 DEF Outlives, ForBytes, run, Step

(* The bytes of a returned value.                                          *)
ReturnBytes(h, x, n) == ForBytes(LAMBDA k, i : ReturnByte(k, x, i), h, n)

LEMMA ReturnBytesReach ==
  ASSUME NEW x, NEW n \in Nat, NEW K, NEW h \in K[0],
         \A i \in 0 .. n - 1 : \A k \in K[i] : ReturnByte(k, x, i) \in K[i + 1]
  PROVE  ReturnBytes(h, x, n) \in K[n]
<1> DEFINE Step(k, i) == ReturnByte(k, x, i)
           F(f) == [k \in 0 .. n |-> IF k = 0 THEN h ELSE Step(f[k - 1], k - 1)]
           G == [a \in Stages(K, n) \X (0 .. n - 1) |-> Step(a[1], a[2])]
           run == CHOOSE f : f = F(f)
<1>1. \A i \in 0 .. n - 1 : \A k \in K[i] : Step(k, i) \in K[i + 1]
  OBVIOUS
<1> HIDE DEF Step
<1>2. \A i \in 0 .. n - 1 : \A k \in K[i] : G[<<k, i>>] = Step(k, i)
  BY DEF Stages
<1>3. \A i \in 0 .. n - 1 : \A k \in K[i] : G[<<k, i>>] \in K[i + 1]
  BY <1>1, <1>2
<1> HIDE DEF G
<1>4. PICK f \in LoopRuns(K, n, h, G) : TRUE
  BY <1>3, LoopExists
<1>5. ASSUME NEW k \in 1 .. n PROVE f[k] = Step(f[k - 1], k - 1)
  <2>1. f[k - 1] \in K[k - 1] /\ k - 1 \in 0 .. n - 1
    BY <1>4 DEF LoopRuns
  <2> QED BY <1>2, <1>4, <2>1 DEF LoopRuns
<1>6. f = F(f)
  BY <1>4, <1>5 DEF LoopRuns
<1>7. run = F(run)
  BY <1>6
<1> HIDE DEF run
<1>8. run[0] = h /\ \A k \in 1 .. n : run[k] = Step(run[k - 1], k - 1)
  BY <1>7
<1>9. \A k \in 1 .. n : run[k - 1] \in K[k - 1] => run[k] \in K[k]
  <2> SUFFICES ASSUME NEW k \in 1 .. n, run[k - 1] \in K[k - 1] PROVE run[k] \in K[k]
    OBVIOUS
  <2>1. k - 1 \in 0 .. n - 1 /\ (k - 1) + 1 = k
    OBVIOUS
  <2> QED BY <1>1, <1>8, <2>1
<1>10. run[n] \in K[n]
  BY <1>8, <1>9, LoopKeeps
<1> QED BY <1>10 DEF ReturnBytes, ForBytes, run, Step

-----------------------------------------------------------------------------
(* Assignments.                                                            *)
LEMMA LoadsFirm ==
  ASSUME NEW D, NEW o, NEW h \in Firm(D, o), NEW x \in Syms, NEW y \in Syms, SizeOf[x] = SizeOf[y]
  PROVE  Loads(h, x, y, SizeOf[x]) \in Firm(D, o)
<1> DEFINE n == SizeOf[x]
           K == [j \in 0 .. n |-> Firm(D, o)]
<1>1. n \in Nat /\ h \in K[0]
  BY RegsAssumption
<1>2. ASSUME NEW i \in 0 .. n - 1, NEW k \in K[i] PROVE Load(k, x, y, i) \in K[i + 1]
  <2>1. k \in Firm(D, o) /\ i \in Bytes(x) \cap Bytes(y) /\ K[i + 1] = Firm(D, o)
    BY <1>1 DEF Bytes
  <2> HIDE DEF K
  <2> QED BY <2>1, LoadFirm
<1> HIDE DEF K
<1>3. Loads(h, x, y, n) \in K[n]
  BY <1>1, <1>2, LoadsReach
<1> QED BY <1>1, <1>3 DEF K

LEMMA MovesFirm ==
  ASSUME NEW D, NEW o, NEW h \in Firm(D, o), NEW x \in Syms, NEW y \in Syms, SizeOf[x] = SizeOf[y],
         y \in D
  PROVE  Moves(h, x, y, SizeOf[y]) \in Firm(D, o)
<1> DEFINE n == SizeOf[y]
           K == [j \in 0 .. n |-> Firm(D, o)]
<1>1. n \in Nat /\ h \in K[0]
  BY RegsAssumption
<1>2. ASSUME NEW i \in 0 .. n - 1, NEW k \in K[i] PROVE MoveByte(k, x, y, i) \in K[i + 1]
  <2> DEFINE H == k.hit \cup {"spilled temporary"}
  <2>1. k \in Firm(D, o) /\ i \in Bytes(x) \cap Bytes(y) /\ K[i + 1] = Firm(D, o)
    BY <1>1 DEF Bytes
  <2> HIDE DEF K
  <2>2. CASE k.home[<<y, i>>] = None
    <3>1. MoveByte(k, x, y, i) = [k EXCEPT !.hit = H]
      BY <2>2 DEF MoveByte
    <3>2. H \in Noted /\ k.hit \subseteq H
      <4>1. "spilled temporary" \in Reasons
        BY DEF Reasons
      <4> QED BY <2>1, <4>1, NotedWith
    <3> HIDE DEF H
    <3> QED BY <2>1, <3>1, <3>2, HitFirm
  <2>3. CASE k.home[<<y, i>>] # None
    BY <2>1, <2>3, TakeFirm DEF MoveByte
  <2> QED BY <2>2, <2>3
<1> HIDE DEF K
<1>3. Moves(h, x, y, n) \in K[n]
  BY <1>1, <1>2, MovesReach
<1> QED BY <1>1, <1>3 DEF K

LEMMA AssignCodeFirm ==
  ASSUME NEW D, NEW o, NEW h \in Firm(D, o), NEW x \in Syms, NEW y \in Syms, SizeOf[x] = SizeOf[y],
         y \in D
  PROVE  AssignCode(h, x, y) \in Firm(D, o)
<1>1. AssignCode(h, x, y) = IF Dying(h, y) THEN Moves(h, x, y, SizeOf[y])
                            ELSE Loads(h, x, y, SizeOf[x])
  BY DEF AssignCode, Moves, MoveByte, Loads, ForBytes
<1> QED BY <1>1, MovesFirm, LoadsFirm

LEMMA LoadLitsFirm ==
  ASSUME NEW D, NEW o, NEW h \in Firm(D, o), NEW x \in Syms, NEW c \in [Bytes(x) -> Byte]
  PROVE  LoadLits(h, x, c, SizeOf[x]) \in Firm(D, o)
<1> DEFINE n == SizeOf[x]
           K == [j \in 0 .. n |-> Firm(D, o)]
<1>1. n \in Nat /\ h \in K[0]
  BY RegsAssumption
<1>2. ASSUME NEW i \in 0 .. n - 1, NEW k \in K[i] PROVE LoadLit(k, x, i, c[i]) \in K[i + 1]
  <2>1. k \in Firm(D, o) /\ i \in Bytes(x) /\ c[i] \in Byte /\ K[i + 1] = Firm(D, o)
    BY <1>1 DEF Bytes
  <2> HIDE DEF K
  <2> QED BY <2>1, LoadLitFirm
<1> HIDE DEF K
<1>3. LoadLits(h, x, c, n) \in K[n]
  BY <1>1, <1>2, LoadLitsReach
<1> QED BY <1>1, <1>3 DEF K

-----------------------------------------------------------------------------
(* Send.                                                                   *)
LEMMA SparedSame ==
  ASSUME NEW D, NEW o, NEW S, NEW h \in Spared(D, o, S), NEW k \in Firm(D, o),
         k.home = h.home, Grows(h, k)
  PROVE  k \in Spared(D, o, S)
BY GrowsClean DEF Spared, Vacant

LEMMA SparedLess ==
  ASSUME NEW D, NEW o, NEW S, NEW T \in SUBSET S
  PROVE  Spared(D, o, S) \subseteq Spared(D, o, T)
BY DEF Spared

(* The registers below r that are not allocated.                           *)
Below(r, o) == {q \in Regs : q < r /\ q < o.first}

LEMMA FirstIs ==
  ASSUME NEW D, NEW o, NEW h \in Firm(D, o)
  PROVE  h.first = o.first /\ o.first \in 0 .. REG_CNT - 2 /\ h.seq = o.seq /\ h.liveTo = o.liveTo
BY FirmIs DEF Kept, Onward, Gens

LEMMA SendByteFirm ==
  ASSUME NEW D, NEW o, NEW r \in Regs, NEW h \in Spared(D, o, Below(r, o)),
         NEW x \in Syms, NEW i \in Bytes(x)
  PROVE  SendByte(h, x, i, r) \in Spared(D, o, Below(r + 1, o))
<1> DEFINE b == <<x, i>>
           S == Below(r + 1, o)
           a == clear(h, r)
           e == occupy(a, r, x, i)
           k == Touch(e, x, i)
           m == Emit(k, r, k.reg[k.home[b]])
           H == m.hit \cup {"argument evicted"}
<1>0. h \in Firm(D, o) /\ b \in Places /\ i \in 0 .. MaxSize - 1
  BY BytesArePlaces DEF Spared
<1>1. SendByte(h, x, i, r) = m \/ SendByte(h, x, i, r) = [m EXCEPT !.hit = H]
  BY DEF SendByte
<1>2. S \subseteq Below(r, o) \cup {r} /\ S \in SUBSET Regs /\ Below(r, o) \in SUBSET Regs
  BY DEF Below, Regs
<1>v. S \cap VarRegs(o) = {}
  BY <1>0, FirstIs DEF Below, Regs, VarRegs
<1> HIDE DEF b, S
<1>3. a \in Spared(D, o, S)
  <2>1. a \in Spared(D, o, Below(r, o) \cup {r})
    BY <1>2, ClearSpares
  <2> QED BY <1>2, <2>1, SparedLess
<1>4. a \in Firm(D, o) /\ Grows(h, a) /\ (Clean(h) => Vacant(a, D, r))
  BY <1>0, ClearFirm
<1> HIDE DEF a
<1>e. e = occupy(a, r, x, i)
  OBVIOUS
<1> HIDE DEF e
<1>5. e \in Firm(D, o) /\ e.home = a.home /\ e.hit = a.hit
  <2>1. Clean(a) => Vacant(a, D, r)
    BY <1>4, GrowsClean
  <2> QED BY <1>0, <1>4, <1>e, <2>1, OccupyFirm
<1>6. e \in Spared(D, o, S)
  BY <1>3, <1>5, SparedSame DEF Grows
<1>7. k \in Firm(D, o) /\ k.home[b] \in Regs
  BY <1>5, TouchFirm DEF b
<1>8. Grows(e, k) /\ Low(e, k)
  <2>1. e \in Kept(Byte, {}, o)
    BY <1>5, FirmIs
  <2> QED BY <1>0, <2>1, TouchGrows
<1>9. k \in Spared(D, o, S)
  <2>1. S \cap VarRegs(e) = {}
    BY <1>v, <1>5, FirstIs DEF VarRegs
  <2> QED BY <1>2, <1>6, <1>7, <1>8, <2>1, SparedStep
<1> HIDE DEF k
<1>10. m \in Firm(D, o) /\ m.home = k.home /\ m.hit = k.hit
  <2>1. k.reg[k.home[b]] \in Byte \cup {Junk}
    BY <1>7, RegIn
  <2> QED BY <1>7, <2>1, EmitFirm
<1>11. m \in Spared(D, o, S)
  BY <1>9, <1>10, SparedSame DEF Grows
<1> HIDE DEF m
<1>12. H \in Noted /\ m.hit \subseteq H
  <2>1. "argument evicted" \in Reasons
    BY DEF Reasons
  <2> QED BY <1>10, <2>1, NotedWith
<1> HIDE DEF H
<1>13. CASE SendByte(h, x, i, r) = m
  BY <1>11, <1>13 DEF S
<1>14. CASE SendByte(h, x, i, r) = [m EXCEPT !.hit = H]
  <2> DEFINE q == [m EXCEPT !.hit = H]
  <2>1. q \in Firm(D, o) /\ q.home = m.home /\ Grows(m, q)
    BY <1>10, <1>12, HitFirm
  <2> HIDE DEF q
  <2>2. q \in Spared(D, o, S)
    BY <1>11, <2>1, SparedSame
  <2> QED BY <1>14, <2>2 DEF q, S
<1> QED BY <1>1, <1>13, <1>14

LEMMA SendLitByteFirm ==
  ASSUME NEW D, NEW o, NEW r \in Regs, NEW h \in Spared(D, o, Below(r, o)),
         NEW c, NEW i, c[i] \in Byte
  PROVE  SendLitByte(h, c, i, r) \in Spared(D, o, Below(r + 1, o))
<1> DEFINE S == Below(r + 1, o)
           a == clear(h, r)
           m == Emit(a, r, c[i])
<1>1. SendLitByte(h, c, i, r) = m
  BY DEF SendLitByte
<1>2. S \subseteq Below(r, o) \cup {r} /\ S \in SUBSET Regs /\ Below(r, o) \in SUBSET Regs
  BY DEF Below, Regs
<1> HIDE DEF S
<1>3. a \in Spared(D, o, S)
  <2>1. a \in Spared(D, o, Below(r, o) \cup {r})
    BY <1>2, ClearSpares
  <2> QED BY <1>2, <2>1, SparedLess
<1> HIDE DEF a
<1>4. a \in Firm(D, o)
  BY <1>3 DEF Spared
<1>5. m \in Firm(D, o) /\ m.home = a.home /\ m.hit = a.hit
  BY <1>4, EmitFirm
<1> HIDE DEF m
<1>6. m \in Spared(D, o, S)
  BY <1>3, <1>5, SparedSame DEF Grows
<1> QED BY <1>1, <1>6 DEF S

(* The bytes of an argument, from register b on.                           *)
LEMMA SendsFirm ==
  ASSUME NEW D, NEW o, NEW b \in Nat, NEW h \in Spared(D, o, Below(b, o)), NEW x \in Syms,
         b + SizeOf[x] <= REG_CNT - 1
  PROVE  Sends(h, x, b, SizeOf[x]) \in Spared(D, o, Below(b + SizeOf[x], o))
<1> DEFINE n == SizeOf[x]
           K == [j \in 0 .. n |-> Spared(D, o, Below(b + j, o))]
<1>1. n \in Nat /\ h \in K[0] /\ n = SizeOf[x]
  BY RegsAssumption
<1>2. ASSUME NEW i \in 0 .. n - 1, NEW k \in K[i] PROVE SendByte(k, x, i, b + i) \in K[i + 1]
  <2>1. /\ k \in Spared(D, o, Below(b + i, o)) /\ i \in Bytes(x) /\ b + i \in Regs
        /\ K[i + 1] = Spared(D, o, Below((b + i) + 1, o))
    BY <1>1, RegsAssumption DEF Bytes, Regs
  <2> HIDE DEF K
  <2> QED BY <2>1, SendByteFirm
<1>3. K[n] = Spared(D, o, Below(b + n, o))
  BY <1>1
<1> HIDE DEF K, n
<1>4. Sends(h, x, b, n) \in K[n]
  BY <1>1, <1>2, SendsReach
<1> QED BY <1>1, <1>3, <1>4

LEMMA SendLitsFirm ==
  ASSUME NEW D, NEW o, NEW b \in Nat, NEW h \in Spared(D, o, Below(b, o)), NEW c \in Parcels,
         b + Length(c) <= REG_CNT - 1
  PROVE  SendLits(h, c, b, Length(c)) \in Spared(D, o, Below(b + Length(c), o))
<1> DEFINE n == Length(c)
           K == [j \in 0 .. n |-> Spared(D, o, Below(b + j, o))]
<1>0. n \in 1 .. MaxSize /\ c \in [0 .. n - 1 -> Byte] /\ n \in Nat /\ n = Length(c)
  BY ParcelIs, RegsAssumption
<1> HIDE DEF n
<1>1. h \in K[0]
  BY <1>0
<1>2. ASSUME NEW i \in 0 .. n - 1, NEW k \in K[i] PROVE SendLitByte(k, c, i, b + i) \in K[i + 1]
  <2>1. /\ k \in Spared(D, o, Below(b + i, o)) /\ c[i] \in Byte /\ b + i \in Regs
        /\ K[i + 1] = Spared(D, o, Below((b + i) + 1, o))
    <3>1. i \in Nat /\ i <= n - 1 /\ i \in 0 .. n /\ i + 1 \in 0 .. n /\ b + (i + 1) = (b + i) + 1
      BY <1>0
    <3>2. c[i] \in Byte
      BY <1>0
    <3>3. b + i \in Regs
      <4>1. b + n <= REG_CNT - 1
        BY <1>0
      <4> QED BY <1>0, <3>1, <4>1, RegsAssumption DEF Regs
    <3>4. K[i] = Spared(D, o, Below(b + i, o)) /\ K[i + 1] = Spared(D, o, Below(b + (i + 1), o))
      BY <3>1
    <3> HIDE DEF K
    <3> QED BY <3>1, <3>2, <3>3, <3>4
  <2> HIDE DEF K
  <2> QED BY <2>1, SendLitByteFirm
<1>3. K[n] = Spared(D, o, Below(b + n, o))
  BY <1>0
<1> HIDE DEF K
<1>4. SendLits(h, c, b, n) \in K[n]
  BY <1>0, <1>1, <1>2, SendLitsReach
<1> QED BY <1>0, <1>3, <1>4

-----------------------------------------------------------------------------
(* Send in main: the machine's registers of the other bank.                *)
OtherRegs == [Regs -> Byte \cup {Junk}]

LEMMA StarByteFirm ==
  ASSUME NEW D, NEW o, NEW p \in Firm(D, o) \X OtherRegs, NEW x \in Syms, NEW i \in Bytes(x), NEW r
  PROVE  StarByte(p, x, i, r) \in Firm(D, o) \X OtherRegs
<1> DEFINE m == Touch(p[1], x, i)
           q == [p[2] EXCEPT ![r + i] = m.reg[m.home[<<x, i>>]]]
<1>1. StarByte(p, x, i, r) = <<m, q>> /\ p[1] \in Firm(D, o) /\ p[2] \in OtherRegs
  BY DEF StarByte
<1>2. m \in Firm(D, o) /\ m.home[<<x, i>>] \in Regs
  BY <1>1, TouchFirm
<1> HIDE DEF m
<1>3. m.reg[m.home[<<x, i>>]] \in Byte \cup {Junk}
  BY <1>2, RegIn
<1>4. q \in OtherRegs
  BY <1>1, <1>3 DEF OtherRegs
<1> QED BY <1>1, <1>2, <1>4

(* The register a literal goes through is free again: no byte of D had it. *)
LEMMA StarLitByteFirm ==
  ASSUME NEW D, starSym \notin D, NEW o, NEW p \in Firm(D, o) \X OtherRegs,
         NEW c, NEW i \in 0 .. MaxSize - 1, c[i] \in Byte, NEW r
  PROVE  StarLitByte(p, c, i, r) \in Firm(D, o) \X OtherRegs
<1> DEFINE b == <<starSym, i>>
           h == p[1]
           s == h.home[b]
           k == Touch(h, starSym, i)
           t == k.home[b]
           m == Emit(k, t, c[i])
           H == IF s # None /\ h.bank[s] # None THEN m.hit \cup {"star register reused"} ELSE m.hit
           e == [m EXCEPT !.bank[t] = None]
           u == [e EXCEPT !.hit = H]
           q == [p[2] EXCEPT ![r + i] = c[i]]
<1>0. h \in Firm(D, o) /\ p[2] \in OtherRegs /\ starSym \in Syms /\ b \in Places /\ b[1] = starSym
  BY BytesArePlaces, CallAssumption
<1>1. StarLitByte(p, c, i, r) = <<[m EXCEPT !.bank[m.home[b]] = None, !.hit = H], q>>
  BY DEF StarLitByte, LoadLit
<1>2. q \in OtherRegs
  BY <1>0 DEF OtherRegs
<1>h. h \in Kept(Byte, {}, o)
  BY <1>0, FirmIs
<1> HIDE DEF h, q
<1>3. k \in Kept(Byte, {}, o) /\ k.home[b] \in Regs /\ Alone(h, k, b) /\ Grows(h, k) /\ (s # None => k = h)
  <2>1. k \in Kept(Byte, {}, o) /\ k.home[b] \in Regs /\ Alone(h, k, b) /\ (s # None => k = h)
    BY <1>0, <1>h, TouchKeeps DEF Alone
  <2>2. Grows(h, k)
    BY <1>0, <1>h, TouchGrows
  <2> QED BY <2>1, <2>2
<1>4. Clean(h) => k \in Kept(Byte, D, o)
  <2> SUFFICES ASSUME Clean(h) PROVE k \in Kept(Byte, D, o)
    OBVIOUS
  <2>1. h \in Kept(Byte, D, o)
    BY <1>0, FirmIs
  <2> QED BY <1>0, <2>1, TouchKeeps
<1>5. Fitting(k)
  BY <1>0, <1>3 DEF Firm, Fitting, Alone
<1>6. k \in Firm(D, o)
  BY <1>0, <1>3, <1>4, <1>5, FirmStep
<1>n. s = None => k.bank[t] = b \/ ~Clean(h)
  <2>1. ASSUME s = None PROVE k.bank[t] = b
    <3> DEFINE a == Allocate(h, starSym, i)
               z == clear(h, Victim(h))
    <3>1. k = IF a.at[starSym] # None THEN fetchVariable(a, starSym, i, a.home[b]) ELSE a
      BY <2>1 DEF Touch
    <3>2. Victim(h) \in Regs
      BY <1>h, VictimIn DEF Kept
    <3>3. a = [occupy(z, Victim(h), starSym, i) EXCEPT !.home[b] = Victim(h)]
      BY DEF Allocate
    <3>4. z \in Kept(Byte, {}, o)
      BY <1>h, <3>2, ClearKeeps
    <3>5. a \in Kept(Byte, {}, o) /\ a.home[b] = Victim(h)
      BY <1>0, <1>h, AllocateKeeps
    <3> HIDE DEF z
    <3>6. a.bank[Victim(h)] = b
      BY <3>2, <3>3, <3>4 DEF occupy, Kept, Gens, b
    <3> HIDE DEF a
    <3>7. k.home = a.home /\ k.bank = a.bank
      <4>1. CASE a.at[starSym] # None
        BY <1>0, <3>1, <3>2, <3>5, <4>1, FetchKeeps
      <4>2. CASE a.at[starSym] = None
        BY <3>1, <4>2
      <4> QED BY <4>1, <4>2
    <3> QED BY <3>5, <3>6, <3>7
  <2> QED BY <2>1
<1> HIDE DEF k
<1>7. m \in Firm(D, o) /\ m.home = k.home /\ m.bank = k.bank /\ m.hit = k.hit
  BY <1>3, <1>6, EmitFirm
<1> HIDE DEF m
<1>8. H \in Noted /\ m.hit \subseteq H
  <2>1. m.hit \cup {"star register reused"} \in Noted
    <3>1. "star register reused" \in Reasons
      BY DEF Reasons
    <3> QED BY <1>7, <3>1, NotedWith
  <2>2. m.hit \in Noted
    BY <1>7, NotedIs
  <2> QED BY <2>1, <2>2
<1>9. Clean(m) /\ (s # None => h.bank[s] = None) => \A d \in Places : d[1] \in D => m.home[d] # t
  <2> SUFFICES ASSUME Clean(m), s # None => h.bank[s] = None, NEW d \in Places, d[1] \in D, m.home[d] = t
               PROVE  FALSE
    OBVIOUS
  <2>1. t # None /\ t \in Regs
    BY <1>3, RegsAssumption DEF Regs
  <2>2. m.bank[t] = d
    BY <1>7, <2>1 DEF Firm, Backed
  <2>3. Clean(h)
    BY <1>3, <1>7 DEF Grows, Clean
  <2>4. CASE s = None
    BY <1>0, <1>7, <1>n, <2>2, <2>3, <2>4
  <2>5. CASE s # None
    <3>1. t = s /\ m.bank = h.bank
      BY <1>3, <1>7, <2>5
    <3>2. d = None
      BY <2>2, <2>5, <3>1
    <3> QED BY <3>2, RegsAssumption DEF Places
  <2> QED BY <2>4, <2>5
<1>10. e \in Gens(Byte) /\ Framed(e) /\ Onward(o, e) /\ e.home = m.home /\ e.hit = m.hit
       /\ e.bank = [m.bank EXCEPT ![t] = None]
  <2>1. m \in Kept(Byte, {}, o)
    BY <1>7, FirmIs
  <2> QED BY <1>3, <2>1 DEF Kept, Gens, Framed, OnStack, Apart, Onward
<1> HIDE DEF e
<1>11. u \in Kept(Byte, {}, o) /\ u.home = m.home /\ u.bank = e.bank /\ u.hit = H
  <2>1. e \in Kept(Byte, {}, o)
    BY <1>10 DEF Kept, Backed
  <2>2. u \in Kept(Byte, {}, o)
    <3> HIDE DEF H
    <3> QED BY <1>8, <2>1, HitKeeps, Zenon
  <2>3. u.home = e.home /\ u.bank = e.bank /\ u.hit = H
    BY <1>10 DEF Gens
  <2> QED BY <1>10, <2>2, <2>3
<1>12. u = [m EXCEPT !.bank[m.home[b]] = None, !.hit = H]
  BY <1>7 DEF u, e, t
<1> HIDE DEF u
<1>13. Clean(u) => Backed(u, D)
  <2> SUFFICES ASSUME Clean(u), NEW d \in Places, d[1] \in D, u.home[d] # None
               PROVE  u.bank[u.home[d]] = d
    BY DEF Backed
  <2>1. Clean(m) /\ (s # None => h.bank[s] = None)
    BY <1>8, <1>11 DEF Clean, Bad
  <2>2. m.home[d] # t /\ m.home[d] \in Regs
    BY <1>9, <1>11, <2>1, <1>7, FirmIs DEF Kept, Gens
  <2>3. m.bank[m.home[d]] = d /\ m.bank \in [Regs -> Places \cup {None}]
    <3>1. Backed(m, D)
      BY <1>7, <2>1 DEF Firm
    <3>2. m.bank \in [Regs -> Places \cup {None}]
      BY <1>7, FirmIs DEF Kept, Gens
    <3>3. m.home[d] # None
      BY <1>11
    <3> QED BY <3>1, <3>2, <3>3 DEF Backed
  <2> QED BY <1>10, <1>11, <2>2, <2>3
<1>14. Fitting(u) /\ o.hit \subseteq u.hit
  BY <1>7, <1>8, <1>11 DEF Firm, Fitting
<1>15. u \in Firm(D, o)
  BY <1>11, <1>13, <1>14 DEF Firm
<1> QED BY <1>1, <1>2, <1>12, <1>15

LEMMA StarsFirm ==
  ASSUME NEW D, NEW o, NEW p \in Firm(D, o) \X OtherRegs, NEW x \in Syms, NEW b
  PROVE  Stars(p, x, b, SizeOf[x]) \in Firm(D, o) \X OtherRegs
<1> DEFINE n == SizeOf[x]
           K == [j \in 0 .. n |-> Firm(D, o) \X OtherRegs]
<1>1. n \in Nat /\ p \in K[0]
  BY RegsAssumption
<1>2. ASSUME NEW i \in 0 .. n - 1, NEW k \in K[i] PROVE StarByte(k, x, i, b) \in K[i + 1]
  <2>1. k \in Firm(D, o) \X OtherRegs /\ i \in Bytes(x) /\ K[i + 1] = Firm(D, o) \X OtherRegs
    BY <1>1 DEF Bytes
  <2> HIDE DEF K
  <2> QED BY <2>1, StarByteFirm
<1> HIDE DEF K
<1>3. Stars(p, x, b, n) \in K[n]
  BY <1>1, <1>2, StarsReach
<1> QED BY <1>1, <1>3 DEF K

LEMMA StarLitsFirm ==
  ASSUME NEW D, starSym \notin D, NEW o, NEW p \in Firm(D, o) \X OtherRegs, NEW c \in Parcels, NEW b
  PROVE  StarLits(p, c, b, Length(c)) \in Firm(D, o) \X OtherRegs
<1> DEFINE n == Length(c)
           K == [j \in 0 .. n |-> Firm(D, o) \X OtherRegs]
<1>0. n \in 1 .. MaxSize /\ c \in [0 .. n - 1 -> Byte] /\ n \in Nat /\ n = Length(c)
  BY ParcelIs, RegsAssumption
<1> HIDE DEF n
<1>1. p \in K[0]
  BY <1>0
<1>2. ASSUME NEW i \in 0 .. n - 1, NEW k \in K[i] PROVE StarLitByte(k, c, i, b) \in K[i + 1]
  <2>1. /\ k \in Firm(D, o) \X OtherRegs /\ c[i] \in Byte /\ i \in 0 .. MaxSize - 1
        /\ K[i + 1] = Firm(D, o) \X OtherRegs
    BY <1>0, RegsAssumption
  <2> HIDE DEF K
  <2> QED BY <2>1, StarLitByteFirm
<1>3. K[n] = Firm(D, o) \X OtherRegs
  BY <1>0
<1> HIDE DEF K
<1>4. StarLits(p, c, b, n) \in K[n]
  BY <1>0, <1>1, <1>2, StarLitsReach
<1> QED BY <1>0, <1>3, <1>4

-----------------------------------------------------------------------------
(* Receive: nothing has a register from r on.                              *)
Under(r) == {h \in Gens(Byte) : \A b \in Places : h.home[b] = None \/ h.home[b] < r}

LEMMA ArrivedFirm ==
  ASSUME NEW D, NEW o, NEW q \in Regs, NEW k \in Firm(D, o) \cap Under(q), NEW x \in Syms,
         NEW i \in Bytes(x), NEW v \in Byte, NEW e, e = Emit(k, q, v), NEW m, m = Settled(e, q, x, i)
  PROVE  e \in Firm(D, o) /\ Vacant(k, D, q) /\ Vacant(e, D, q) /\ m \in Firm(D, o) \cap Under(q + 1)
<1>1. e \in Firm(D, o) /\ e.home = k.home
  BY EmitFirm
<1>2. \A b \in Places : k.home[b] # q
  <2> SUFFICES ASSUME NEW b \in Places, k.home[b] = q PROVE FALSE
    OBVIOUS
  <2>1. q # None /\ q \in Nat
    BY RegsAssumption DEF Regs
  <2>2. q < q
    BY <2>1 DEF Under
  <2> QED BY <2>1, <2>2
<1>3. Vacant(k, D, q) /\ Vacant(e, D, q)
  BY <1>1, <1>2 DEF Vacant
<1>4. m \in Firm(D, o) /\ Gives(e, m, q, <<x, i>>)
  BY <1>1, <1>3, SettleFirm
<1>5. m \in Gens(Byte)
  BY <1>4, FirmIs DEF Kept
<1>6. \A b \in Places : m.home[b] = None \/ m.home[b] < q + 1
  <2> SUFFICES ASSUME NEW b \in Places, m.home[b] # None PROVE m.home[b] < q + 1
    OBVIOUS
  <2>1. m.home[b] = q \/ m.home[b] = k.home[b]
    BY <1>1, <1>4 DEF Gives
  <2>2. q \in Nat /\ (m.home[b] = k.home[b] => k.home[b] \in Regs /\ k.home[b] < q)
    BY DEF Under, Gens, Regs
  <2> QED BY <2>1, <2>2 DEF Regs
<1> QED BY <1>1, <1>3, <1>4, <1>5, <1>6 DEF Under

LEMMA ArrivalsFirm ==
  ASSUME NEW D, NEW o, NEW r \in Nat, NEW h \in Firm(D, o) \cap Under(r), NEW x \in Syms,
         NEW c \in [Bytes(x) -> Byte], r + SizeOf[x] <= REG_CNT - 1
  PROVE  Arrivals(h, x, c, r, SizeOf[x]) \in Firm(D, o) \cap Under(r + SizeOf[x])
<1> DEFINE n == SizeOf[x]
           K == [j \in 0 .. n |-> Firm(D, o) \cap Under(r + j)]
<1>1. n \in Nat /\ h \in K[0] /\ n = SizeOf[x]
  BY RegsAssumption
<1>2. ASSUME NEW i \in 0 .. n - 1, NEW k \in K[i] PROVE Arrived(k, x, c, r, i) \in K[i + 1]
  <2> DEFINE q == r + i
  <2>1. /\ k \in Firm(D, o) \cap Under(q) /\ i \in Bytes(x) /\ q \in Regs /\ c[i] \in Byte
        /\ K[i + 1] = Firm(D, o) \cap Under(q + 1)
    BY <1>1, RegsAssumption DEF Bytes, Regs
  <2>2. Arrived(k, x, c, r, i) = Settled(Emit(k, q, c[i]), q, x, i)
    BY DEF Arrived
  <2> HIDE DEF K, q
  <2> QED BY <2>1, <2>2, ArrivedFirm
<1>3. K[n] = Firm(D, o) \cap Under(r + n)
  BY <1>1
<1> HIDE DEF K, n
<1>4. Arrivals(h, x, c, r, n) \in K[n]
  BY <1>1, <1>2, ArrivalsReach
<1> QED BY <1>1, <1>3, <1>4

-----------------------------------------------------------------------------
(* The arguments counted before a call are among those sent.               *)
LEMMA CountedIs ==
  ASSUME sent \in Seq(Parcels)
  PROVE  Counted \in Nat /\ Counted <= lastReg /\ lastReg \in Nat
<1> DEFINE S == {Sent(k) : k \in {m \in 0 .. Len(sent) : Sent(m) < ARG_REG_CNT}}
<1>1. Len(sent) \in Nat /\ 0 \in 0 .. Len(sent) /\ Len(sent) \in 0 .. Len(sent)
  OBVIOUS
<1>2. \A k \in 0 .. Len(sent) : Sent(k) \in Nat /\ Sent(k) <= lastReg
  BY SentIs, SentAre DEF lastReg
<1>3. Sent(0) = 0 /\ ARG_REG_CNT \in Nat \ {0}
  BY SentIs, SentAre, CallAssumption
<1>4. S \in SUBSET Nat /\ S # {} /\ \A v \in S : v < ARG_REG_CNT
  BY <1>1, <1>2, <1>3
<1>5. \A v \in S : v <= lastReg
  BY <1>2
<1> HIDE DEF S
<1>6. Max(S) \in S
  <2> DEFINE T == {ARG_REG_CNT - v : v \in S}
  <2>1. T \in SUBSET Nat /\ T # {}
    <3>1. ASSUME NEW v \in S PROVE ARG_REG_CNT - v \in Nat
      <4>1. v \in Nat /\ v < ARG_REG_CNT
        BY <1>4
      <4> QED BY <1>3, <4>1
    <3> QED BY <1>4, <3>1
  <2> HIDE DEF T
  <2>2. PICK m \in T : \A k \in T : m <= k
    BY <2>1, LeastExists
  <2>3. PICK w \in S : m = ARG_REG_CNT - w
    BY <2>2 DEF T
  <2>4. \A v \in S : w >= v
    <3> SUFFICES ASSUME NEW v \in S PROVE w >= v
      OBVIOUS
    <3>1. m <= ARG_REG_CNT - v
      BY <2>2 DEF T
    <3> QED BY <1>3, <1>4, <2>3, <3>1
  <2> QED BY <2>4 DEF Max
<1> QED BY <1>1, <1>2, <1>4, <1>5, <1>6 DEF Counted, S, lastReg

-----------------------------------------------------------------------------
(* A call outside main.                                                    *)
LEMMA ForgottenFirm ==
  ASSUME NEW D, NEW o, NEW S, NEW h \in Spared(D, o, S), None \notin S, NEW b \in Places,
         NEW H \in Noted, h.hit \subseteq H,
         NEW k, k = [h EXCEPT !.home[b] = None, !.hit = H]
  PROVE  k \in Spared(D, o, S)
<1> DEFINE e == [h EXCEPT !.home[b] = None]
<1>1. h \in Kept(Byte, {}, o) /\ h \in Firm(D, o)
  BY FirmIs DEF Spared
<1>2. e \in Gens(Byte) /\ Framed(e) /\ Onward(o, e) /\ e.hit = h.hit /\ e.bank = h.bank
      /\ e.home = [h.home EXCEPT ![b] = None] /\ e.first = h.first
  BY <1>1 DEF Kept, Gens, Framed, OnStack, Apart, Onward
<1>3. k = [e EXCEPT !.hit = H]
  OBVIOUS
<1> HIDE DEF e
<1>4. h.home \in [Places -> Regs \cup {None}]
  BY <1>1 DEF Kept, Gens
<1>5. \A c \in Places : e.home[c] = h.home[c] \/ e.home[c] = None
  BY <1>2, <1>4
<1>6. e \in Kept(Byte, {}, o)
  BY <1>2 DEF Kept, Backed
<1>7. Fitting(e)
  BY <1>1, <1>5 DEF Firm, Fitting
<1>8. Clean(h) => Backed(e, D)
  BY <1>1, <1>2, <1>5 DEF Firm, Backed
<1>9. e \in Firm(D, o)
  BY <1>1, <1>2, <1>6, <1>7, <1>8 DEF Firm, Clean
<1>10. k \in Firm(D, o) /\ k.home = e.home /\ Grows(e, k)
  <2> DEFINE q == [e EXCEPT !.hit = H]
  <2>1. H \in Noted /\ e.hit \subseteq H /\ q = [e EXCEPT !.hit = H]
    BY <1>2
  <2>2. k = q
    BY <1>3
  <2> HIDE DEF q
  <2>3. q \in Firm(D, o) /\ q.home = e.home /\ Grows(e, q)
    BY <1>9, <2>1, HitFirm
  <2> QED BY <2>2, <2>3
<1>11. e \in Spared(D, o, S)
  BY <1>2, <1>5, <1>9 DEF Spared, Vacant, Clean
<1> QED BY <1>10, <1>11, SparedSame

(* What is read after the instruction.                                     *)
Later(o) == {x \in Syms : o.liveTo[x] > o.seq}

LEMMA SaveByteFirm ==
  ASSUME NEW o, NEW S \in SUBSET Regs, NEW D, D = Later(o), NEW h \in Spared(D, o, S), NEW r \in Regs
  PROVE  SaveByte(h, r) \in Spared(D, o, IF r < Counted THEN S ELSE S \cup {r})
<1> DEFINE b == h.bank[r]
           k == clear(h, r)
           H == IF k.home[b] = None THEN k.hit ELSE k.hit \cup {"home forgotten"}
<1>1. h \in Firm(D, o) /\ h \in Kept(Byte, {}, o) /\ h.seq = o.seq /\ h.liveTo = o.liveTo
  BY FirmIs, FirstIs DEF Spared
<1>2. b \in Places \cup {None} /\ r # None
  BY <1>1, RegsAssumption DEF Kept, Gens, Regs
<1>3. CASE r < Counted
  BY <1>3 DEF SaveByte
<1>4. CASE ~(r < Counted) /\ (b = None \/ (b # None /\ LiveTo(h, r) <= h.seq))
  <2>1. SaveByte(h, r) = h
    BY <1>4 DEF SaveByte
  <2>2. b \notin Places \/ b[1] \notin D
    <3> SUFFICES ASSUME b \in Places, b[1] \in D PROVE FALSE
      OBVIOUS
    <3>1. b # None
      BY RegsAssumption DEF Places
    <3>2. h.liveTo[b[1]] \in Nat /\ h.seq \in Nat /\ h.liveTo[b[1]] > h.seq
      BY <1>1 DEF Later, Kept, Gens
    <3> QED BY <1>4, <3>1, <3>2 DEF LiveTo
  <2>3. Clean(h) => Vacant(h, D, r)
    <3> SUFFICES ASSUME Clean(h), NEW c \in Places, c[1] \in D, h.home[c] = r PROVE FALSE
      BY DEF Vacant
    <3>1. b = c
      BY <1>1, <1>2 DEF Firm, Backed
    <3> QED BY <2>2, <3>1
  <2>4. h \in Spared(D, o, S \cup {r})
    BY <2>3 DEF Spared
  <2> QED BY <1>4, <2>1, <2>4
<1>5. CASE ~(r < Counted) /\ b # None /\ ~(LiveTo(h, r) <= h.seq)
  <2>1. SaveByte(h, r) = [k EXCEPT !.home[b] = None, !.hit = H]
    BY <1>5 DEF SaveByte
  <2>2. k \in Spared(D, o, S \cup {r})
    BY ClearSpares
  <2>3. b \in Places
    BY <1>2, <1>5
  <2>4. None \notin S \cup {r}
    <3>1. None \notin Regs
      BY RegsAssumption DEF Regs
    <3> QED BY <3>1
  <2> HIDE DEF b, k
  <2>5. H \in Noted /\ k.hit \subseteq H
    <3>1. k \in Firm(D, o)
      BY <2>2 DEF Spared
    <3>2. k.hit \cup {"home forgotten"} \in Noted
      <4>1. {"home forgotten"} \in Noted
        BY DEF Noted, Reasons
      <4> QED BY <3>1, <4>1, NotedMore
    <3>3. k.hit \in Noted
      BY <3>1, NotedIs
    <3> QED BY <3>2, <3>3
  <2> DEFINE T == S \cup {r}
             e == SaveByte(h, r)
  <2>6. k \in Spared(D, o, T) /\ None \notin T /\ e = [k EXCEPT !.home[b] = None, !.hit = H]
    BY <2>1, <2>2, <2>4
  <2> HIDE DEF T, H, e
  <2>7. e \in Spared(D, o, T)
    BY <2>3, <2>5, <2>6, ForgottenFirm
  <2> QED BY <1>5, <2>7 DEF T, e
<1> QED BY <1>3, <1>4, <1>5

(* All registers below VAR_REG_START are spared then.                      *)
LEMMA SavesFirm ==
  ASSUME NEW o, NEW D, D = Later(o), o.first <= ARG_REG_CNT, sent \in Seq(Parcels),
         NEW h \in Spared(D, o, Below(lastReg, o))
  PROVE  Saves(h, ARG_REG_CNT) \in Spared(D, o, 0 .. o.first - 1)
<1> DEFINE n == ARG_REG_CNT
           S(j) == {q \in Regs : (q < o.first /\ q < Counted) \/ (q >= Counted /\ q < j)}
           K == [j \in 0 .. n |-> Spared(D, o, S(j))]
<1>0. n \in Nat /\ n <= REG_CNT - 2 /\ Counted \in Nat /\ Counted <= lastReg /\ lastReg \in Nat
  BY CallAssumption, CountedIs, RegsAssumption
<1>f. o.first \in 0 .. REG_CNT - 2
  BY FirstIs DEF Spared
<1>1. h \in K[0]
  <2>1. S(0) \in SUBSET Below(lastReg, o)
    BY <1>0, <1>f, RegsAssumption DEF Below, Regs
  <2>2. K[0] = Spared(D, o, S(0))
    BY <1>0
  <2> HIDE DEF S, K
  <2> QED BY <2>1, <2>2, SparedLess
<1>2. ASSUME NEW i \in 0 .. n - 1, NEW k \in K[i] PROVE SaveByte(k, i) \in K[i + 1]
  <2> DEFINE T == IF i < Counted THEN S(i) ELSE S(i) \cup {i}
  <2>0. i \in 0 .. n /\ i + 1 \in 0 .. n /\ i \in Nat
    BY <1>0
  <2>1. k \in Spared(D, o, S(i)) /\ S(i) \in SUBSET Regs /\ K[i + 1] = Spared(D, o, S(i + 1))
    BY <2>0
  <2>r. i \in Regs
    BY <1>0, RegsAssumption DEF Regs
  <2>2. S(i + 1) \in SUBSET T
    BY <1>0, <1>f, <2>0, <2>r DEF Regs
  <2> HIDE DEF K, S
  <2>3. SaveByte(k, i) \in Spared(D, o, T)
    BY <2>1, <2>r, SaveByteFirm
  <2> HIDE DEF T
  <2> QED BY <2>1, <2>2, <2>3, SparedLess
<1>3. K[n] = Spared(D, o, S(n))
  BY <1>0
<1>s. 0 .. o.first - 1 \in SUBSET S(n)
  BY <1>0, <1>f, RegsAssumption DEF Regs
<1> HIDE DEF K, S, n
<1>4. Saves(h, n) \in K[n]
  BY <1>0, <1>1, <1>2, SavesReach
<1> DEFINE T == 0 .. o.first - 1
           Q == S(n)
<1>t. T \in SUBSET Q
  BY <1>s
<1> HIDE DEF T, Q
<1>5. Spared(D, o, Q) \subseteq Spared(D, o, T)
  BY <1>t, SparedLess
<1> QED BY <1>3, <1>4, <1>5 DEF n, T, Q

LEMMA InvalidateFirm ==
  ASSUME NEW D, NEW o, NEW h \in Spared(D, o, 0 .. o.first - 1), NEW k, k = Invalidate(h)
  PROVE  k \in Spared(D, o, Regs)
<1> DEFINE hm == [b \in Places |-> IF b \in Dropped(h) THEN None ELSE h.home[b]]
           bk == [r \in Regs |-> IF r \in VarRegs(h) THEN None ELSE h.bank[r]]
           ht == IF \E b \in Dropped(h) : Newer(h, b) THEN h.hit \cup {"live register dropped"} ELSE h.hit
<1>1. h \in Firm(D, o) /\ h \in Kept(Byte, {}, o) /\ h.first = o.first /\ o.first \in 0 .. REG_CNT - 2
  BY FirmIs, FirstIs DEF Spared
<1>2. k = [h EXCEPT !.home = hm, !.bank = bk, !.hit = ht]
  BY DEF Invalidate
<1>3. hm \in [Places -> Regs \cup {None}] /\ \A c \in Places : hm[c] = h.home[c] \/ hm[c] = None
  BY <1>1 DEF Kept, Gens
<1>4. bk \in [Regs -> Places \cup {None}]
  BY <1>1 DEF Kept, Gens
<1>5. ht \in Noted /\ h.hit \subseteq ht
  <2>1. h.hit \in Noted
    BY <1>1, NotedIs
  <2>2. h.hit \cup {"live register dropped"} \in Noted
    <3>1. {"live register dropped"} \in Noted
      BY DEF Noted, Reasons
    <3> QED BY <1>1, <3>1, NotedMore
  <2> QED BY <2>1, <2>2
<1>6. Clean(h) => \A c \in Places : c[1] \in D => hm[c] = None
  <2> SUFFICES ASSUME Clean(h), NEW c \in Places, c[1] \in D, h.home[c] # None PROVE c \in Dropped(h)
    OBVIOUS
  <2>1. h.home[c] \in Regs /\ h.bank[h.home[c]] = c /\ h.home[c] \notin 0 .. o.first - 1
    BY <1>1 DEF Kept, Gens, Firm, Backed, Spared, Vacant
  <2>2. h.home[c] \in VarRegs(h)
    BY <1>1, <2>1, RegsAssumption DEF VarRegs, Regs
  <2>3. c # None
    BY RegsAssumption DEF Places
  <2> QED BY <2>1, <2>2, <2>3 DEF Dropped
<1> HIDE DEF hm, bk, ht
<1>7. k \in Gens(Byte) /\ Framed(k) /\ Onward(o, k) /\ k.home = hm /\ k.hit = ht
  <2> DEFINE a == [h EXCEPT !.home = hm]
             b == [a EXCEPT !.bank = bk]
  <2>1. a \in Gens(Byte) /\ Framed(a) /\ Onward(o, a) /\ a.home = hm
    BY <1>1, <1>3 DEF Kept, Gens, Framed, OnStack, Apart, Onward
  <2>k. k = [b EXCEPT !.hit = ht]
    BY <1>2
  <2> HIDE DEF a
  <2>2. b \in Gens(Byte) /\ Framed(b) /\ Onward(o, b) /\ b.home = hm
    BY <1>4, <2>1 DEF Gens, Framed, OnStack, Apart, Onward
  <2> HIDE DEF b
  <2>3. /\ k \in Gens(Byte) /\ k.home = b.home /\ k.hit = ht /\ k.at = b.at /\ k.top = b.top
        /\ k.seq = b.seq /\ k.liveTo = b.liveTo /\ k.first = b.first
    BY <1>5, <2>2, <2>k DEF Gens
  <2>4. Framed(k)
    BY <2>2, <2>3 DEF Framed, OnStack, Apart
  <2>5. Onward(o, k)
    BY <2>2, <2>3 DEF Onward
  <2> QED BY <2>2, <2>3, <2>4, <2>5
<1>8. k \in Kept(Byte, {}, o)
  BY <1>7 DEF Kept, Backed
<1>9. Fitting(k)
  BY <1>1, <1>3, <1>7 DEF Firm, Fitting
<1>10. Clean(k) => \A c \in Places : c[1] \in D => k.home[c] = None
  BY <1>5, <1>6, <1>7 DEF Clean
<1>11. k \in Firm(D, o)
  BY <1>1, <1>5, <1>7, <1>8, <1>9, <1>10 DEF Firm, Backed
<1>12. None \notin Regs
  BY RegsAssumption DEF Regs
<1> QED BY <1>10, <1>11, <1>12 DEF Spared, Vacant

LEMMA PreCallFirm ==
  ASSUME NEW D, NEW o, NEW S, NEW h \in Spared(D, o, S), NEW k, k = preCall(h)
  PROVE  k \in Spared(D, o, S)
<1>1. h \in Firm(D, o) /\ h \in Kept(Byte, {}, o)
  BY FirmIs DEF Spared
<1>2. h.top \in Cells
  <2>1. OnStack(h) \subseteq AllBytes
    BY DEF OnStack
  <2>2. h.top <= Cardinality(AllBytes) /\ h.top \in Nat
    BY <1>1, <2>1, AllBytesFinite, FS_Subset DEF Kept, Framed, Gens
  <2> QED BY <2>2, AllBytesFinite, RegsAssumption DEF Cells
<1> DEFINE t == h.top
           e == TRUE
<1>3. k = MoveSP(h, t, e) /\ e \in BOOLEAN /\ t \in Cells
  BY <1>2 DEF preCall
<1> HIDE DEF t, e
<1>4. k \in Kept(Byte, {}, o) /\ k.home = h.home /\ k.bank = h.bank /\ k.hit = h.hit
  BY <1>1, <1>3, MoveSPKeeps
<1>5. k \in Firm(D, o)
  BY <1>1, <1>4 DEF Firm, Fitting, Backed, Clean
<1> QED BY <1>4, <1>5, SparedSame DEF Grows

LEMMA CalleeFirm ==
  ASSUME NEW D, NEW o, NEW S, NEW h \in Spared(D, o, S), NEW regs \in OtherRegs, NEW c,
         NEW k, k = Callee(h, regs, c)
  PROVE  k \in Spared(D, o, S)
<1> DEFINE m == [q \in Cells |-> IF q < h.top THEN h.ram[q] ELSE Junk]
<1>1. h \in Firm(D, o) /\ h \in Kept(Byte, {}, o)
  BY FirmIs DEF Spared
<1>2. k = [h EXCEPT !.reg = regs, !.ram = m]
  BY DEF Callee
<1>3. m \in [Cells -> Byte \cup {Junk}]
  BY <1>1 DEF Kept, Gens
<1> HIDE DEF m
<1>4. /\ k \in Gens(Byte) /\ Framed(k) /\ Onward(o, k)
      /\ k.home = h.home /\ k.bank = h.bank /\ k.hit = h.hit
  <2> DEFINE a == [h EXCEPT !.reg = regs]
  <2>1. /\ a \in Gens(Byte) /\ Framed(a) /\ Onward(o, a)
        /\ a.home = h.home /\ a.bank = h.bank /\ a.hit = h.hit
    BY <1>1 DEF Kept, Gens, Framed, OnStack, Apart, Onward, OtherRegs
  <2>k. k = [a EXCEPT !.ram = m]
    BY <1>2
  <2> HIDE DEF a
  <2> QED BY <1>3, <2>1, <2>k DEF Gens, Framed, OnStack, Apart, Onward
<1>5. k \in Firm(D, o)
  BY <1>1, <1>4 DEF Firm, Kept, Fitting, Backed, Clean
<1> QED BY <1>4, <1>5, SparedSame DEF Grows

LEMMA ReturnedIn ==
  ASSUME NEW x \in Syms, NEW c \in [Bytes(x) -> Byte]
  PROVE  Returned(c, SizeOf[x]) \in OtherRegs
<1>1. SizeOf[x] \in Nat
  BY RegsAssumption
<1>2. \A r \in Regs : r < SizeOf[x] => c[r] \in Byte
  BY <1>1 DEF Bytes, Regs
<1> QED BY <1>2 DEF Returned, OtherRegs

(* The registers of the result are cleared in main.                        *)
LEMMA ClearsFirm ==
  ASSUME NEW D, NEW o, NEW h \in Firm(D, o), NEW n \in 0 .. MaxSize
  PROVE  Clears(h, n) \in Spared(D, o, 0 .. n - 1)
<1> DEFINE K == [j \in 0 .. n |-> Spared(D, o, 0 .. j - 1)]
<1>0. n \in Nat /\ n <= REG_CNT - 1
  BY RegsAssumption, CallAssumption
<1>1. h \in K[0]
  BY <1>0 DEF Spared
<1>2. ASSUME NEW i \in 0 .. n - 1, NEW k \in K[i] PROVE clear(k, i) \in K[i + 1]
  <2>1. /\ k \in Spared(D, o, 0 .. i - 1) /\ K[i + 1] = Spared(D, o, 0 .. (i + 1) - 1)
        /\ 0 .. i - 1 \in SUBSET Regs /\ i \in Regs /\ 0 .. (i + 1) - 1 = (0 .. i - 1) \cup {i}
    BY <1>0, RegsAssumption DEF Regs
  <2> HIDE DEF K
  <2> DEFINE S == 0 .. i - 1
  <2>2. S \in SUBSET Regs /\ k \in Spared(D, o, S) /\ K[i + 1] = Spared(D, o, S \cup {i})
    BY <2>1
  <2> HIDE DEF S
  <2> QED BY <2>1, <2>2, ClearSpares
<1>3. K[n] = Spared(D, o, 0 .. n - 1)
  BY <1>0
<1> HIDE DEF K
<1>4. Clears(h, n) \in K[n]
  BY <1>0, <1>1, <1>2, ClearsReach
<1> QED BY <1>3, <1>4

(* The registers the result is in name it.                                 *)
Rest(o, x) == Later(o) \ {x}

LEMMA ResultsFirm ==
  ASSUME NEW o, NEW x \in Syms \ {starSym}, NEW D, D = Rest(o, x),
         NEW h \in Spared(D, o, 0 .. SizeOf[x] - 1)
  PROVE  Results(h, x, SizeOf[x]) \in Firm(Later(o), o)
<1> DEFINE n == SizeOf[x]
           S(j) == j .. n - 1
           Named_(k, j) == \A i \in 0 .. j - 1 : k.home[<<x, i>>] = i /\ k.bank[i] = <<x, i>>
           K == [j \in 0 .. n |-> {k \in Spared(D, o, S(j)) : Named_(k, j)}]
<1>0. n \in Nat /\ n \in 1 .. MaxSize /\ n <= REG_CNT - 1 /\ n = SizeOf[x]
  BY RegsAssumption, CallAssumption
<1>1. h \in K[0]
  BY <1>0
<1>2. ASSUME NEW i \in 0 .. n - 1, NEW k \in K[i] PROVE Settled(k, i, x, i) \in K[i + 1]
  <2> DEFINE b == <<x, i>>
             m == Settled(k, i, x, i)
  <2>1. /\ k \in Spared(D, o, S(i)) /\ Named_(k, i)
        /\ K[i + 1] = {e \in Spared(D, o, S(i + 1)) : Named_(e, i + 1)}
    BY <1>0
  <2>2. i \in Bytes(x) /\ i \in Regs /\ i \in S(i) /\ S(i + 1) \subseteq S(i) \ {i} /\ S(i) \subseteq Regs
    BY <1>0, RegsAssumption DEF Bytes, Regs
  <2>3. \A j \in 0 .. i - 1 : j \in Regs /\ j # i /\ <<x, j>> \in Places
    BY <1>0, RegsAssumption DEF Regs, Places
  <2>4. b \in Places /\ (\A j \in 0 .. (i + 1) - 1 : j = i \/ j \in 0 .. i - 1)
    BY <2>2, BytesArePlaces
  <2>5. m \in Firm(D, o) /\ Gives(k, m, i, b) /\ m.hit = k.hit
    <3>1. k \in Firm(D, o) /\ (Clean(k) => Vacant(k, D, i))
      BY <2>1, <2>2 DEF Spared
    <3> QED BY <2>2, <3>1, SettleFirm
  <2> HIDE DEF K, S, m, b
  <2>6. Named_(m, i + 1)
    <3> SUFFICES ASSUME NEW j \in 0 .. (i + 1) - 1 PROVE m.home[<<x, j>>] = j /\ m.bank[j] = <<x, j>>
      OBVIOUS
    <3>1. CASE j = i
      BY <2>2, <2>4, <2>5, <3>1 DEF Gives, b
    <3>2. CASE j \in 0 .. i - 1
      <4>1. <<x, j>> # b
        BY <2>3, <3>2 DEF b
      <4> QED BY <2>1, <2>3, <2>5, <3>2, <4>1 DEF Gives
    <3> QED BY <2>4, <3>1, <3>2
  <2>7. m \in Spared(D, o, S(i + 1))
    <3> SUFFICES ASSUME Clean(m), NEW r \in S(i + 1), NEW c \in Places, c[1] \in D PROVE m.home[c] # r
      BY <2>5 DEF Spared, Vacant
    <3>1. Clean(k) /\ r \in S(i) /\ r # i
      BY <2>2, <2>5 DEF Clean
    <3>2. k.home[c] # r
      BY <2>1, <3>1 DEF Spared, Vacant
    <3> QED BY <2>5, <3>1, <3>2 DEF Gives
  <2> QED BY <2>1, <2>6, <2>7 DEF m
<1>3. K[n] = {k \in Spared(D, o, S(n)) : Named_(k, n)}
  BY <1>0
<1> DEFINE m == Results(h, x, n)
<1> HIDE DEF K, n
<1>4. m \in K[n]
  BY <1>0, <1>1, <1>2, ResultsReach
<1>5. m \in Firm(D, o) /\ Named_(m, n)
  BY <1>3, <1>4 DEF Spared
<1> HIDE DEF m
<1>6. Clean(m) => Backed(m, Later(o))
  <2> SUFFICES ASSUME Clean(m), NEW c \in Places, c[1] \in Later(o), m.home[c] # None
               PROVE  m.bank[m.home[c]] = c
    BY DEF Backed
  <2>1. CASE c[1] # x
    BY <1>5, <2>1 DEF Rest, Firm, Backed
  <2>2. CASE c[1] = x
    <3>1. c \in AllBytes
      BY <1>5, <2>2 DEF Firm, Fitting
    <3>2. c[2] \in Bytes(x) /\ c = <<x, c[2]>>
      BY <2>2, <3>1, BytesArePlaces
    <3>3. c[2] \in 0 .. n - 1
      BY <1>0, <3>2 DEF Bytes
    <3> QED BY <1>5, <3>2, <3>3
  <2> QED BY <2>1, <2>2
<1> QED BY <1>0, <1>5, <1>6 DEF Firm, m

(* The machine and the names after the call.                               *)
LEMMA CalledFirm ==
  ASSUME NEW D, NEW o, NEW x \in Syms, NEW c \in [Bytes(x) -> Byte],
         NEW h \in Firm(D, o), ~isMain => h \in Spared(D, o, 0 .. o.first - 1)
  PROVE  Called(h, x, c) \in Spared(D, o, 0 .. SizeOf[x] - 1)
<1> DEFINE n == SizeOf[x]
<1>0. n \in 0 .. MaxSize /\ n \in Nat /\ 0 .. n - 1 \in SUBSET Regs
  BY RegsAssumption, CallAssumption DEF Regs
<1>1. CASE isMain
  <2> DEFINE e == Clears(h, n)
             k == preCall(e)
             regs == [r \in Regs |-> IF r < n THEN c[r] ELSE k.reg[r]]
  <2>1. Called(h, x, c) = Callee(k, regs, c)
    BY <1>1 DEF Called, Clears, ForBytes
  <2>2. e \in Spared(D, o, 0 .. n - 1)
    BY <1>0, ClearsFirm
  <2> HIDE DEF e
  <2>3. k \in Spared(D, o, 0 .. n - 1)
    BY <2>2, PreCallFirm
  <2> HIDE DEF k
  <2>4. regs \in OtherRegs
    <3>1. \A r \in Regs : r < n => c[r] \in Byte
      BY <1>0 DEF Bytes, Regs
    <3>2. \A r \in Regs : k.reg[r] \in Byte \cup {Junk}
      BY <2>3, RegIn DEF Spared
    <3> QED BY <3>1, <3>2 DEF OtherRegs
  <2> HIDE DEF regs, n
  <2> QED BY <2>1, <2>3, <2>4, CalleeFirm DEF n
<1>2. CASE ~isMain
  <2> DEFINE e == preCall(h)
             k == Invalidate(e)
             regs == Returned(c, n)
  <2>1. Called(h, x, c) = Callee(k, regs, c)
    BY <1>2 DEF Called
  <2>2. e \in Spared(D, o, 0 .. o.first - 1)
    BY <1>2, PreCallFirm
  <2> HIDE DEF e
  <2>3. k \in Spared(D, o, Regs)
    BY <2>2, InvalidateFirm
  <2> HIDE DEF k
  <2>4. regs \in OtherRegs
    BY ReturnedIn
  <2> HIDE DEF regs, n
  <2>5. Callee(k, regs, c) \in Spared(D, o, Regs)
    BY <2>3, <2>4, CalleeFirm
  <2> DEFINE S == 0 .. n - 1
  <2>6. S \in SUBSET Regs
    BY <1>0
  <2> HIDE DEF S
  <2>7. Spared(D, o, Regs) \subseteq Spared(D, o, S)
    BY <2>6, SparedLess
  <2> QED BY <2>1, <2>5, <2>7 DEF S, n
<1> QED BY <1>1, <1>2

-----------------------------------------------------------------------------
(* The address of an indirect call.                                        *)
LEMMA TouchNames ==
  ASSUME NEW o, NEW h \in Kept(Byte, {}, o), NEW x \in Syms, NEW i \in 0 .. MaxSize - 1,
         h.home[<<x, i>>] = None, NEW k, k = Touch(h, x, i)
  PROVE  k.bank[k.home[<<x, i>>]] = <<x, i>>
<1> DEFINE b == <<x, i>>
           a == Allocate(h, x, i)
           z == clear(h, Victim(h))
<1>0. b \in Places
  BY BytesArePlaces
<1>1. k = IF a.at[x] # None THEN fetchVariable(a, x, i, a.home[b]) ELSE a
  BY DEF Touch
<1>2. Victim(h) \in Regs
  BY VictimIn DEF Kept
<1>3. a = [occupy(z, Victim(h), x, i) EXCEPT !.home[b] = Victim(h)]
  BY DEF Allocate
<1>4. z \in Kept(Byte, {}, o)
  BY <1>2, ClearKeeps
<1>5. a \in Kept(Byte, {}, o) /\ a.home[b] = Victim(h)
  BY AllocateKeeps
<1> HIDE DEF z
<1>6. a.bank[Victim(h)] = b
  BY <1>0, <1>2, <1>3, <1>4 DEF occupy, Kept, Gens
<1> HIDE DEF a, b
<1>7. k.home = a.home /\ k.bank = a.bank
  <2>1. CASE a.at[x] # None
    BY <1>1, <1>2, <1>5, <2>1, FetchKeeps
  <2>2. CASE a.at[x] = None
    BY <1>1, <2>2
  <2> QED BY <2>1, <2>2
<1> QED BY <1>5, <1>6, <1>7 DEF b

(* Byte b has no register, or one that names it.                           *)
NamedByte(h, b) == h.home[b] # None => h.bank[h.home[b]] = b

LEMMA TargetByteFirm ==
  ASSUME NEW D, NEW o, NEW h \in Spared(D, o, 0 .. o.first - 1),
         NEW p \in Syms, p \notin D, SizeOf[p] = 2, NEW i \in {0, 1}, Clean(h) => NamedByte(h, <<p, i>>),
         NEW u, u = TargetByte(h, p, i)
  PROVE  /\ u \in Spared(D, o, 0 .. o.first - 1) /\ Grows(h, u)
         /\ h \in Firm(D \cup {p}, o) => \A j \in Bytes(p) : j # i /\ Clean(u) => NamedByte(u, <<p, j>>)
<1> DEFINE b == <<p, i>>
           k == Touch(h, p, i)
           r == TargetReg(i)
           old == k.home[b]
           e == Emit(k, r, k.reg[old])
           m == [e EXCEPT !.bank[old] = None, !.home[b] = r]
           S == 0 .. o.first - 1
<1>0. /\ b \in AllBytes /\ b \in Places /\ i \in 0 .. MaxSize - 1 /\ i \in Bytes(p)
      /\ h \in Firm(D, o) /\ h \in Kept(Byte, {}, o) /\ h.first = o.first /\ o.first \in 0 .. REG_CNT - 2
  <2>1. i \in Bytes(p)
    BY DEF Bytes
  <2> QED BY <2>1, BytesArePlaces, FirmIs, FirstIs DEF Spared
<1>r. r \in Regs
  BY CallAssumption, RegsAssumption DEF TargetReg, Regs
<1>1. k \in Firm(D, o) /\ old \in Regs /\ Alone(h, k, b)
  BY <1>0, TouchFirm
<1>2. Grows(h, k) /\ Low(h, k)
  BY <1>0, TouchGrows
<1>3. k \in Spared(D, o, S)
  <2>1. S \in SUBSET Regs /\ S \cap VarRegs(h) = {}
    BY <1>0, RegsAssumption DEF Regs, VarRegs
  <2> HIDE DEF S
  <2> QED BY <1>1, <1>2, <2>1, SparedStep DEF S
<1>4. Clean(k) => k.bank[old] = b
  <2> SUFFICES ASSUME Clean(k) PROVE k.bank[old] = b
    OBVIOUS
  <2>1. CASE h.home[b] = None
    BY <1>0, <2>1, TouchNames
  <2>2. CASE h.home[b] # None
    <3>1. k = h
      BY <2>2 DEF Touch
    <3> QED BY <2>2, <3>1 DEF NamedByte
  <2> QED BY <2>1, <2>2
<1>5. h \in Firm(D \cup {p}, o) => k \in Firm(D \cup {p}, o)
  BY <1>0, TouchFirm
<1> HIDE DEF k, S, b, r
<1>6. e \in Firm(D, o) /\ e.home = k.home /\ e.bank = k.bank /\ e.hit = k.hit
  <2>1. k.reg[old] \in Byte \cup {Junk}
    BY <1>1, RegIn
  <2> HIDE DEF old
  <2> QED BY <1>1, <1>r, <2>1, EmitFirm
<1> HIDE DEF e
<1>7. e \in Kept(Byte, {}, o)
  BY <1>6, FirmIs
<1>8. /\ m \in Gens(Byte) /\ Framed(m) /\ Onward(o, m) /\ m.hit = e.hit
      /\ m.home = [e.home EXCEPT ![b] = r] /\ m.bank = [e.bank EXCEPT ![old] = None]
  <2> DEFINE a == [e EXCEPT !.bank[old] = None]
  <2>1. /\ a \in Gens(Byte) /\ Framed(a) /\ Onward(o, a) /\ a.hit = e.hit
        /\ a.home = e.home /\ a.bank = [e.bank EXCEPT ![old] = None]
    BY <1>1, <1>7 DEF Kept, Gens, Framed, OnStack, Apart, Onward
  <2>m. m = [a EXCEPT !.home[b] = r]
    OBVIOUS
  <2> HIDE DEF a, m
  <2>2. /\ m \in Gens(Byte) /\ m.home = [a.home EXCEPT ![b] = r] /\ m.bank = a.bank /\ m.hit = a.hit
        /\ m.seq = a.seq /\ m.liveTo = a.liveTo /\ m.first = a.first /\ m.at = a.at /\ m.top = a.top
    BY <1>0, <1>r, <2>1, <2>m DEF Gens
  <2>3. Framed(m)
    BY <2>1, <2>2 DEF Framed, OnStack, Apart
  <2>4. Onward(o, m)
    BY <2>1, <2>2 DEF Onward
  <2> QED BY <2>1, <2>2, <2>3, <2>4
<1> HIDE DEF m
<1>t. e.home \in [Places -> Regs \cup {None}] /\ e.bank \in [Regs -> Places \cup {None}]
  BY <1>7 DEF Kept, Gens
<1>9. \A c \in Places : m.home[c] = IF c = b THEN r ELSE k.home[c]
  BY <1>6, <1>8, <1>t
<1>10. \A q \in Regs : q # old => m.bank[q] = k.bank[q]
  BY <1>6, <1>8, <1>t
(* Who was named in k still is, but for b.                                 *)
<1>11. ASSUME NEW c \in Places, c # b, Clean(k), k.home[c] \in Regs, k.bank[k.home[c]] = c
       PROVE  m.home[c] = k.home[c] /\ m.bank[m.home[c]] = c
  <2>1. k.home[c] # old
    BY <1>4, <1>11
  <2> QED BY <1>9, <1>10, <1>11, <2>1
<1>12. \A c \in Places : c[1] \in D => c # b
  BY DEF b
<1>13. Clean(m) => Backed(m, D)
  <2> SUFFICES ASSUME Clean(m), NEW c \in Places, c[1] \in D, m.home[c] # None
               PROVE  m.bank[m.home[c]] = c
    BY DEF Backed
  <2>1. Clean(k) /\ c # b /\ k.home[c] = m.home[c] /\ k.home[c] \in Regs
    BY <1>6, <1>8, <1>9, <1>12, <1>t DEF Clean
  <2>2. k.bank[k.home[c]] = c
    BY <1>1, <2>1 DEF Firm, Backed
  <2> QED BY <1>11, <2>1, <2>2
<1>14. Fitting(m)
  BY <1>0, <1>1, <1>9 DEF Firm, Fitting
<1>15. m \in Firm(D, o)
  <2>1. m \in Kept(Byte, {}, o)
    BY <1>8 DEF Kept, Backed
  <2>2. o.hit \subseteq m.hit
    BY <1>6, <1>8 DEF Firm
  <2> QED BY <1>13, <1>14, <2>1, <2>2 DEF Firm
<1>16. m \in Spared(D, o, S)
  <2> SUFFICES ASSUME Clean(m), NEW q \in S, NEW c \in Places, c[1] \in D PROVE m.home[c] # q
    BY <1>15 DEF Spared, Vacant
  <2>1. Clean(k) /\ m.home[c] = k.home[c]
    BY <1>6, <1>8, <1>9, <1>12 DEF Clean
  <2> QED BY <1>3, <2>1 DEF Spared, Vacant
<1>17. ASSUME h \in Firm(D \cup {p}, o), NEW j \in Bytes(p), j # i, Clean(m)
       PROVE  NamedByte(m, <<p, j>>)
  <2> SUFFICES ASSUME m.home[<<p, j>>] # None PROVE m.bank[m.home[<<p, j>>]] = <<p, j>>
    BY DEF NamedByte
  <2> DEFINE c == <<p, j>>
  <2>1. c \in Places /\ c # b /\ c[1] \in D \cup {p}
    BY <1>17, BytesArePlaces DEF b
  <2> HIDE DEF c
  <2>a. m.home[c] # None
    BY DEF c
  <2>b. Clean(k)
    BY <1>6, <1>8, <1>17 DEF Clean
  <2>c. k.home[c] = m.home[c] /\ e.home[c] = k.home[c]
    BY <1>6, <1>9, <2>1
  <2>2. Clean(k) /\ k.home[c] = m.home[c] /\ k.home[c] \in Regs
    BY <1>t, <2>1, <2>a, <2>b, <2>c
  <2>3. k.bank[k.home[c]] = c
    BY <1>5, <1>17, <2>1, <2>2, RegsAssumption DEF Firm, Backed, Regs
  <2> QED BY <1>11, <2>1, <2>2, <2>3 DEF c
<1> DEFINE bb == k.bank[r]
           lost(q) == m.reg[q] # h.reg[q]
           H1 == IF bb # None /\ bb[1] # p /\ k.home[bb] = r /\ k.liveTo[bb[1]] > k.seq
                 THEN {"live register overwritten"} ELSE {}
           H2 == IF (\E j \in Bytes(p) : j > i /\ h.home[<<p, j>>] = r)
                    \/ (\E j \in 0 .. i - 1 : lost(TargetReg(j)))
                 THEN {"pointer overwritten"} ELSE {}
           H3 == IF \E q \in 0 .. lastReg - 1 : lost(q) THEN {"argument evicted"} ELSE {}
           H  == m.hit \cup H1 \cup H2 \cup H3
<1>18. u = [m EXCEPT !.hit = H]
  BY DEF TargetByte, m, e, k, b, r, TargetReg
<1>19. H \in Noted /\ m.hit \subseteq H
  <2>1. m.hit \in Noted
    BY <1>15, NotedIs
  <2>2. H1 \in Noted /\ H2 \in Noted /\ H3 \in Noted
    BY DEF Noted, Reasons
  <2> HIDE DEF H1, H2, H3
  <2> QED BY <2>1, <2>2 DEF Noted
<1> HIDE DEF H
<1>20. u \in Firm(D, o) /\ u.home = m.home /\ u.bank = m.bank /\ Grows(m, u)
  BY <1>15, <1>18, <1>19, HitFirm
<1>21. u \in Spared(D, o, S)
  BY <1>16, <1>20, SparedSame
<1>22. Grows(h, u)
  BY <1>2, <1>6, <1>8, <1>20 DEF Grows
<1>23. Clean(u) => Clean(m)
  BY <1>20, GrowsClean
<1>24. h \in Firm(D \cup {p}, o) => \A j \in Bytes(p) : j # i /\ Clean(u) => NamedByte(u, <<p, j>>)
  BY <1>17, <1>20, <1>23 DEF NamedByte
<1> QED BY <1>21, <1>22, <1>24 DEF S

LEMMA FirmLess ==
  ASSUME NEW o, NEW D, NEW E \in SUBSET D
  PROVE  Firm(D, o) \subseteq Firm(E, o) /\ \A S : Spared(D, o, S) \subseteq Spared(E, o, S)
<1>1. \A h : Backed(h, D) => Backed(h, E)
  BY DEF Backed
<1>2. Firm(D, o) \subseteq Firm(E, o)
  BY <1>1 DEF Firm
<1> QED BY <1>2 DEF Spared, Vacant

(* What may still be read, and the same but for what is read in the        *)
(* instruction only.                                                       *)
Now(o) == {x \in Syms : o.liveTo[x] >= o.seq}

LEMMA RestIs ==
  ASSUME NEW D, NEW o, NEW h \in Firm(D, o)
  PROVE  Later(o) \in SUBSET Now(o) /\ \A x \in Syms : Rest(o, x) \in SUBSET Later(o)
<1>1. o.seq \in Nat /\ o.liveTo \in [Syms -> Nat]
  BY FirmIs DEF Kept, Gens, Onward
<1> QED BY <1>1 DEF Later, Now, Rest

(* What is saved before a call keeps the names of what has a register.     *)
LEMMA SaveByteStays ==
  ASSUME NEW D, NEW o, NEW h \in Firm(D, o), NEW r \in Regs
  PROVE  SaveByte(h, r) \in Firm(D, o)
<1> DEFINE b == h.bank[r]
           k == clear(h, r)
           H == IF k.home[b] = None THEN k.hit ELSE k.hit \cup {"home forgotten"}
           e == [k EXCEPT !.home[b] = None, !.hit = H]
<1>1. SaveByte(h, r) = h \/ (b # None /\ SaveByte(h, r) = e)
  BY DEF SaveByte
<1>2. b \in Places \cup {None}
  BY FirmIs DEF Kept, Gens
<1>3. k \in Firm(D, o)
  BY ClearFirm
<1>4. CASE b # None /\ SaveByte(h, r) = e
  <2> DEFINE S == {}
  <2>1. b \in Places
    BY <1>2, <1>4
  <2> HIDE DEF k, b
  <2>2. H \in Noted /\ k.hit \subseteq H
    <3>1. k.hit \cup {"home forgotten"} \in Noted
      <4>1. {"home forgotten"} \in Noted
        BY DEF Noted, Reasons
      <4> QED BY <1>3, <4>1, NotedMore
    <3>2. k.hit \in Noted
      BY <1>3, NotedIs
    <3> QED BY <3>1, <3>2
  <2>3. k \in Spared(D, o, S) /\ None \notin S
    BY <1>3 DEF Spared
  <2>4. Spared(D, o, S) \subseteq Firm(D, o)
    BY DEF Spared
  <2> HIDE DEF S, H
  <2>5. e \in Spared(D, o, S)
    BY <2>1, <2>2, <2>3, ForgottenFirm
  <2> QED BY <1>4, <2>4, <2>5
<1> QED BY <1>1, <1>4

LEMMA SavesStay ==
  ASSUME NEW D, NEW o, NEW h \in Firm(D, o)
  PROVE  Saves(h, ARG_REG_CNT) \in Firm(D, o)
<1> DEFINE n == ARG_REG_CNT
           K == [j \in 0 .. n |-> Firm(D, o)]
<1>0. n \in Nat /\ 0 .. n - 1 \subseteq Regs
  BY CallAssumption, RegsAssumption DEF Regs
<1>1. h \in K[0]
  BY <1>0
<1>2. ASSUME NEW i \in 0 .. n - 1, NEW k \in K[i] PROVE SaveByte(k, i) \in K[i + 1]
  <2>1. k \in Firm(D, o) /\ i \in Regs /\ K[i + 1] = Firm(D, o)
    BY <1>0
  <2> HIDE DEF K
  <2> QED BY <2>1, SaveByteStays
<1>3. K[n] = Firm(D, o)
  BY <1>0
<1> HIDE DEF K, n
<1>4. Saves(h, n) \in K[n]
  BY <1>0, <1>1, <1>2, SavesReach
<1> QED BY <1>3, <1>4 DEF n

(* Both bytes of the address: the second one is named by its register      *)
(* still when the first has been moved.                                    *)
LEMMA TargetBytesFirm ==
  ASSUME NEW D, NEW o, NEW p \in Syms, p \notin D, SizeOf[p] = 2,
         NEW h \in Spared(D, o, 0 .. o.first - 1), h \in Firm(D \cup {p}, o)
  PROVE  TargetBytes(h, p, 2) \in Spared(D, o, 0 .. o.first - 1)
<1> DEFINE S == 0 .. o.first - 1
           M == {k \in Spared(D, o, S) : Clean(k) => NamedByte(k, <<p, 1>>)}
           K == [j \in 0 .. 2 |-> IF j = 0 THEN {h} ELSE IF j = 1 THEN M ELSE Spared(D, o, S)]
<1>0. 0 \in Bytes(p) /\ 1 \in Bytes(p)
  BY DEF Bytes
<1>1. h \in K[0] /\ K[1] = M /\ K[2] = Spared(D, o, S) /\ K[0] = {h}
  OBVIOUS
<1>2. TargetByte(h, p, 0) \in M
  <2>1. Clean(h) => NamedByte(h, <<p, 0>>)
    <3>1. <<p, 0>> \in Places /\ <<p, 0>>[1] = p
      BY <1>0, BytesArePlaces
    <3> QED BY <3>1 DEF Firm, Backed, NamedByte
  <2> DEFINE u == TargetByte(h, p, 0)
             i == 0
  <2>2. i \in {0, 1} /\ 1 # i /\ u = TargetByte(h, p, i) /\ (Clean(h) => NamedByte(h, <<p, i>>))
    BY <2>1
  <2> HIDE DEF u, i
  <2>3. u \in Spared(D, o, S) /\ \A j \in Bytes(p) : j # i /\ Clean(u) => NamedByte(u, <<p, j>>)
    BY <2>2, TargetByteFirm
  <2>4. Clean(u) => NamedByte(u, <<p, 1>>)
    BY <1>0, <2>2, <2>3
  <2>5. u \in M
    BY <2>3, <2>4
  <2> QED BY <2>5 DEF u
<1>3. \A k \in M : TargetByte(k, p, 1) \in Spared(D, o, S)
  BY TargetByteFirm
<1> HIDE DEF K
<1>4. \A i \in 0 .. 2 - 1 : \A k \in K[i] : TargetByte(k, p, i) \in K[i + 1]
  <2> SUFFICES ASSUME NEW i \in 0 .. 1, NEW k \in K[i] PROVE TargetByte(k, p, i) \in K[i + 1]
    OBVIOUS
  <2>1. CASE i = 0
    BY <1>1, <1>2, <2>1
  <2>2. CASE i = 1
    BY <1>1, <1>3, <2>2
  <2> QED BY <2>1, <2>2
<1>5. TargetBytes(h, p, 2) \in K[2]
  <2> HIDE DEF M, S
  <2> QED BY <1>1, <1>4, TargetBytesReach
<1> QED BY <1>1, <1>5

LEMMA TargetStarFirm ==
  ASSUME NEW D, NEW o, NEW q \in Firm(D, o) \X OtherRegs, NEW p \in Syms, NEW i \in Bytes(p)
  PROVE  TargetStar(q, p, i) \in Firm(D, o) \X OtherRegs
<1> DEFINE m == Touch(q[1], p, i)
           w == [q[2] EXCEPT ![TargetReg(i)] = m.reg[m.home[<<p, i>>]]]
<1>1. TargetStar(q, p, i) = <<m, w>> /\ q[1] \in Firm(D, o) /\ q[2] \in OtherRegs
  BY DEF TargetStar
<1>2. m \in Firm(D, o) /\ m.home[<<p, i>>] \in Regs
  BY <1>1, TouchFirm
<1> HIDE DEF m
<1>3. m.reg[m.home[<<p, i>>]] \in Byte \cup {Junk}
  BY <1>2, RegIn
<1>4. w \in OtherRegs
  BY <1>1, <1>3 DEF OtherRegs
<1> QED BY <1>1, <1>2, <1>4

LEMMA TargetStarsFirm ==
  ASSUME NEW D, NEW o, NEW q \in Firm(D, o) \X OtherRegs, NEW p \in Syms, SizeOf[p] = 2
  PROVE  TargetStars(q, p, 2) \in Firm(D, o) \X OtherRegs
<1> DEFINE F == Firm(D, o) \X OtherRegs
           K == [j \in 0 .. 2 |-> F]
<1>1. q \in K[0] /\ K[2] = F
  OBVIOUS
<1>2. \A i \in 0 .. 2 - 1 : \A k \in K[i] : TargetStar(k, p, i) \in K[i + 1]
  <2> SUFFICES ASSUME NEW i \in 0 .. 2 - 1, NEW k \in K[i] PROVE TargetStar(k, p, i) \in K[i + 1]
    OBVIOUS
  <2>1. k \in F /\ i \in Bytes(p) /\ K[i + 1] = F
    BY DEF Bytes
  <2> HIDE DEF K
  <2> QED BY <2>1, TargetStarFirm
<1> HIDE DEF K
<1>3. TargetStars(q, p, 2) \in K[2]
  BY <1>1, <1>2, TargetStarsReach
<1> QED BY <1>1, <1>3

-----------------------------------------------------------------------------
(* Return.                                                                 *)
LEMMA FetchFirm ==
  ASSUME NEW D, NEW o, NEW h \in Firm(D, o), NEW x \in Syms, h.at[x] # None, NEW i \in Bytes(x),
         NEW r \in Regs, NEW k, k = fetchVariable(h, x, i, r)
  PROVE  k \in Firm(D, o)
<1>1. h \in Kept(Byte, {}, o) /\ i \in 0 .. MaxSize - 1
  BY FirmIs, BytesArePlaces
<1>2. k \in Kept(Byte, {}, o) /\ k.home = h.home /\ k.bank = h.bank
  BY <1>1, FetchKeeps
<1>3. k.hit = h.hit
  BY <1>1, FetchGrows
<1>g. Grows(h, k)
  BY <1>3 DEF Grows
<1>4. Clean(h) => k \in Kept(Byte, D, o)
  BY <1>2, FirmIs DEF Kept, Backed
<1>5. Fitting(k)
  BY <1>2 DEF Firm, Fitting
<1> QED BY <1>2, <1>g, <1>4, <1>5, FirmStep

LEMMA ReturnByteFirm ==
  ASSUME NEW D, NEW o, NEW h \in Firm(D, o), NEW x \in Syms, NEW i \in Bytes(x)
  PROVE  ReturnByte(h, x, i) \in Firm(D, o)
<1> DEFINE held == \E r \in Regs : h.bank[r] = <<x, i>>
           k == IF held THEN Touch(h, x, i) ELSE h
           m == IF held THEN Emit(k, i, k.reg[k.home[<<x, i>>]])
                ELSE IF h.at[x] # None THEN fetchVariable(h, x, i, i)
                ELSE Emit(h, i, Junk)
           H == m.hit \cup {"result overwritten"}
           e == [m EXCEPT !.hit = H]
<1>1. ReturnByte(h, x, i) \in {h, m, e}
  BY DEF ReturnByte
<1>2. i \in Regs
  BY CallAssumption, RegsAssumption, BytesArePlaces DEF Regs
<1>3. m \in Firm(D, o)
  <2>1. CASE held
    <3>1. k = Touch(h, x, i) /\ m = Emit(k, i, k.reg[k.home[<<x, i>>]])
      BY <2>1
    <3> HIDE DEF k
    <3>2. k \in Firm(D, o) /\ k.home[<<x, i>>] \in Regs
      BY <3>1, TouchFirm
    <3>3. k.reg[k.home[<<x, i>>]] \in Byte \cup {Junk}
      BY <3>2, RegIn
    <3> HIDE DEF m
    <3> QED BY <1>2, <3>1, <3>2, <3>3, EmitFirm
  <2>2. CASE ~held /\ h.at[x] # None
    <3>1. m = fetchVariable(h, x, i, i)
      BY <2>2
    <3> HIDE DEF m
    <3> QED BY <1>2, <2>2, <3>1, FetchFirm
  <2>3. CASE ~held /\ h.at[x] = None
    <3>1. m = Emit(h, i, Junk) /\ Junk \in Byte \cup {Junk}
      BY <2>3
    <3> HIDE DEF m
    <3> QED BY <1>2, <3>1, EmitFirm
  <2> QED BY <2>1, <2>2, <2>3
<1> HIDE DEF m
<1>4. H \in Noted /\ m.hit \subseteq H
  <2>1. {"result overwritten"} \in Noted
    BY DEF Noted, Reasons
  <2> QED BY <1>3, <2>1, NotedMore
<1> HIDE DEF H
<1>5. e \in Firm(D, o)
  BY <1>3, <1>4, HitFirm
<1> HIDE DEF e
<1> QED BY <1>1, <1>3, <1>5

LEMMA ReturnBytesFirm ==
  ASSUME NEW D, NEW o, NEW h \in Firm(D, o), NEW x \in Syms
  PROVE  ReturnBytes(h, x, SizeOf[x]) \in Firm(D, o)
<1> DEFINE n == SizeOf[x]
           K == [j \in 0 .. n |-> Firm(D, o)]
<1>1. n \in Nat /\ h \in K[0]
  BY RegsAssumption
<1>2. ASSUME NEW i \in 0 .. n - 1, NEW k \in K[i] PROVE ReturnByte(k, x, i) \in K[i + 1]
  <2>1. k \in Firm(D, o) /\ i \in Bytes(x) /\ K[i + 1] = Firm(D, o)
    BY <1>1 DEF Bytes
  <2> HIDE DEF K
  <2> QED BY <2>1, ReturnByteFirm
<1> HIDE DEF K
<1>3. ReturnBytes(h, x, n) \in K[n]
  BY <1>1, <1>2, ReturnBytesReach
<1> QED BY <1>1, <1>3 DEF K

LEMMA OutlivesFirm ==
  ASSUME NEW D, NEW o, NEW h \in Firm(D, o)
  PROVE  Outlives(h, REG_CNT - 1) \in Firm(D, o)
<1> DEFINE n == REG_CNT - 1
           K == [j \in 0 .. n |-> Firm(D, o)]
<1>1. n \in Nat /\ 0 .. n - 1 \subseteq Regs
  BY RegsAssumption DEF Regs
<1>2. h \in K[0] /\ K[n] = Firm(D, o)
  BY <1>1
<1>3. ASSUME NEW i \in 0 .. n - 1, NEW k \in K[i] PROVE OutliveByte(k, i) \in K[i + 1]
  <2>1. k \in Firm(D, o) /\ i \in Regs /\ K[i + 1] = Firm(D, o)
    BY <1>1
  <2> HIDE DEF K
  <2>2. clear(k, i) \in Firm(D, o)
    BY <2>1, ClearFirm
  <2> QED BY <2>1, <2>2 DEF OutliveByte
<1> HIDE DEF K, n
<1>4. Outlives(h, n) \in K[n]
  BY <1>1, <1>2, <1>3, OutlivesReach
<1> QED BY <1>2, <1>4 DEF n

-----------------------------------------------------------------------------
(* The invariant.  Between two instructions the registers name what may    *)
(* still be read; the registers of the parameters that have not been       *)
(* received are the home of nothing yet, and, outside main, those of the   *)
(* arguments that have been sent are the home of nothing any more.         *)
GenFirm ==
  /\ g \in Firm(Now(g), g) /\ g.seq \in 1 .. MaxSeq + 1
  /\ g.liveTo[starSym] = 0 /\ g.first <= ARG_REG_CNT

Bytewise == [AllBytes -> Byte \cup {Junk}]

Packed ==
  /\ params \in Seq(Syms) /\ sent \in Seq(Parcels) /\ lastReg <= ARG_REG_CNT
  /\ params # <<>> => /\ sent = <<>> /\ Size(params) <= g.first
                      /\ g \in Under(g.first - Size(params))
  /\ ~isMain => g \in Spared(Now(g), g, Below(lastReg, g))

CallInv ==
  /\ GenFirm /\ Packed
  /\ val \in Bytewise /\ next = None
  /\ isMain \in BOOLEAN /\ done \in BOOLEAN /\ other \in OtherRegs

(* The next instruction.                                                   *)
Stepped(h) == [h EXCEPT !.seq = @ + 1]

LEMMA StepFirm ==
  ASSUME NEW o, NEW D, Later(o) \in SUBSET D, NEW h \in Firm(D, o), NEW k, k = Stepped(h)
  PROVE  /\ k \in Firm(Now(k), k) /\ k.seq = o.seq + 1 /\ k.liveTo = o.liveTo /\ k.first = o.first
         /\ k.home = h.home /\ k.bank = h.bank /\ k.hit = h.hit /\ Now(k) = Later(o)
         /\ k \in Gens(Byte)
<1>1. h \in Gens(Byte) /\ Framed(h) /\ Onward(o, h)
  BY FirmIs DEF Kept
<1>2. /\ k \in Gens(Byte) /\ k.seq = h.seq + 1 /\ k.at = h.at /\ k.top = h.top /\ k.first = h.first
      /\ k.home = h.home /\ k.bank = h.bank /\ k.liveTo = h.liveTo /\ k.hit = h.hit
  BY <1>1 DEF Gens, Stepped
<1>3. Now(k) = Later(o)
  <2>1. h.seq \in Nat /\ h.liveTo \in [Syms -> Nat]
    BY <1>1 DEF Gens
  <2> QED BY <1>1, <1>2, <2>1 DEF Now, Later, Onward
<1>4. Framed(k) /\ Onward(k, k) /\ Fitting(k)
  BY <1>1, <1>2 DEF Framed, OnStack, Apart, Onward, Fitting, Firm
<1>5. Clean(k) => Backed(k, Now(k))
  BY <1>2, <1>3 DEF Firm, Backed, Clean
<1>6. k \in Kept(Byte, {}, k)
  BY <1>2, <1>4 DEF Kept, Backed
<1> QED BY <1>1, <1>2, <1>3, <1>4, <1>5, <1>6 DEF Firm, Onward

LEMMA StepSpared ==
  ASSUME NEW o, NEW D, Later(o) \in SUBSET D, NEW S, NEW h \in Spared(D, o, S),
         NEW k, k = Stepped(h)
  PROVE  k \in Spared(Now(k), k, S)
<1>1. h \in Firm(D, o)
  BY DEF Spared
<1>2. k \in Firm(Now(k), k) /\ k.home = h.home /\ k.hit = h.hit /\ Now(k) = Later(o)
  BY <1>1, StepFirm
<1> QED BY <1>2 DEF Spared, Vacant, Clean

LEMMA GenerateFirm ==
  ASSUME GenFirm, NEW D, Later(g) \in SUBSET D, NEW h \in Firm(D, g), Generate(h)
  PROVE  /\ GenFirm' /\ g'.first = g.first /\ g'.home = h.home /\ g' \in Gens(Byte)
         /\ g' = Stepped(h)
<1>1. g' = Stepped(h) /\ g.seq <= MaxSeq
  BY DEF Generate, Stepped
<1>2. /\ g' \in Firm(Now(g'), g') /\ g'.seq = g.seq + 1 /\ g'.liveTo = g.liveTo /\ g'.first = g.first
      /\ g'.home = h.home /\ g' \in Gens(Byte)
  <2> DEFINE o == g
             k == Stepped(h)
  <2>1. h \in Firm(D, o) /\ Later(o) \in SUBSET D /\ k = Stepped(h)
    OBVIOUS
  <2> HIDE DEF o, k
  <2>2. /\ k \in Firm(Now(k), k) /\ k.seq = o.seq + 1 /\ k.liveTo = o.liveTo /\ k.first = o.first
        /\ k.home = h.home /\ k \in Gens(Byte)
    BY <2>1, StepFirm
  <2>3. g' = k
    BY <1>1, <2>1
  <2> QED BY <2>2, <2>3 DEF o
<1>3. g'.seq \in 1 .. MaxSeq + 1
  BY <1>1, <1>2, GenAssumption DEF GenFirm
<1> QED BY <1>1, <1>2, <1>3 DEF GenFirm

LEMMA ReadIs ==
  ASSUME CallInv, NEW x \in Syms, g.liveTo[x] >= g.seq
  PROVE  x \in Now(g) /\ x # starSym
<1>1. g.seq >= 1
  BY DEF CallInv, GenFirm
<1> QED BY <1>1 DEF CallInv, GenFirm, Now

LEMMA ValueFirm ==
  ASSUME val \in Bytewise, NEW x \in Syms, NEW v, \A i \in Bytes(x) : v[i] \in Byte \cup {Junk}
  PROVE  Value(val, x, v) \in Bytewise
<1>1. \A b \in AllBytes : b[1] = x => b[2] \in Bytes(x)
  BY BytesArePlaces
<1> QED BY <1>1 DEF Value, Bytewise

LEMMA BytesIn ==
  ASSUME val \in Bytewise, NEW y \in Syms, NEW i \in Bytes(y)
  PROVE  BytesOf(y)[i] \in Byte \cup {Junk}
<1>1. <<y, i>> \in AllBytes
  BY BytesArePlaces
<1> QED BY <1>1 DEF BytesOf, Bytewise

LEMMA LastIs ==
  ASSUME sent \in Seq(Parcels)
  PROVE  lastReg \in Nat /\ (sent = <<>> => lastReg = 0)
<1>1. lastReg = SentOf(sent, Len(sent)) /\ Len(sent) \in 0 .. Len(sent)
  BY SentAre DEF lastReg
<1> QED BY <1>1, SentIs

(* Nothing is below register 0.                                            *)
LEMMA BelowNone ==
  ASSUME NEW D, NEW o, NEW h \in Firm(D, o), NEW k
  PROVE  h \in Spared(D, o, Below(0, k))
<1>1. Below(0, k) = {}
  BY RegsAssumption DEF Below, Regs
<1> QED BY <1>1 DEF Spared

LEMMA SentNone ==
  ASSUME sent' = <<>>, GenFirm', params' = <<>>
  PROVE  Packed'
<1>1. lastReg' = 0 /\ sent' \in Seq(Parcels)
  <2>0. <<>> \in Seq(Parcels)
    OBVIOUS
  <2>1. SentOf(<<>>, 0) = 0 /\ <<>> \in Seq(Parcels)
    <3> DEFINE s == <<>>
    <3> HIDE DEF s
    <3>1. s \in Seq(Parcels) => SentOf(s, 0) = 0
      BY SentIs
    <3> QED BY <2>0, <3>1 DEF s
  <2>2. lastReg' = SentOf(sent', Len(sent'))
    BY DEF lastReg, Sent, SentOf
  <2> QED BY <2>1, <2>2
<1>2. 0 <= ARG_REG_CNT
  BY CallAssumption
<1>3. g' \in Spared(Now(g'), g', Below(0, g'))
  BY BelowNone DEF GenFirm
<1> QED BY <1>1, <1>2, <1>3 DEF Packed

(* The actions.                                                            *)
LEMMA BodyFirm ==
  ASSUME CallInv, GenFirm', val' \in Bytewise, Ready, sent = <<>>, next' = None,
         UNCHANGED <<isMain, params, sent, other, done>>
  PROVE  CallInv'
<1>1. Packed'
  BY SentNone DEF Ready
<1> QED BY <1>1 DEF CallInv, Bytewise, OtherRegs

LEMMA AssignFirm ==
  ASSUME CallInv, NEW x \in Syms, NEW y \in Syms, Body(Assign(x, y))
  PROVE  CallInv'
<1> DEFINE h == AssignCode(g, x, y)
           D == Now(g)
<1>1. /\ Ready /\ sent = <<>> /\ UNCHANGED <<isMain, params, sent, other, done>>
      /\ SizeOf[x] = SizeOf[y] /\ Generate(h) /\ next' = None /\ g.liveTo[y] >= g.seq
      /\ val' = Value(val, x, BytesOf(y))
  BY DEF Body, Assign, Readable
<1>2. GenFirm /\ g \in Firm(D, g) /\ Later(g) \in SUBSET D /\ y \in D
  BY <1>1, ReadIs, RestIs DEF CallInv, GenFirm
<1> HIDE DEF D
<1>3. h \in Firm(D, g)
  BY <1>1, <1>2, AssignCodeFirm
<1> HIDE DEF h
<1>4. GenFirm'
  BY <1>1, <1>2, <1>3, GenerateFirm
<1>5. val' \in Bytewise
  <2>1. Bytes(x) = Bytes(y) /\ val \in Bytewise
    BY <1>1 DEF Bytes, CallInv
  <2> QED BY <1>1, <2>1, BytesIn, ValueFirm
<1> QED BY <1>1, <1>4, <1>5, BodyFirm

LEMMA LiteralIn ==
  ASSUME CallInv, NEW x \in Syms, NEW c \in Literals(x), val' = Value(val, x, c)
  PROVE  c \in [Bytes(x) -> Byte] /\ val' \in Bytewise
<1>1. c \in [Bytes(x) -> Byte] /\ val \in Bytewise
  BY GenAssumption DEF CallInv
<1>2. \A i \in Bytes(x) : c[i] \in Byte \cup {Junk}
  BY <1>1
<1> QED BY <1>1, <1>2, ValueFirm

LEMMA AssignLitFirm ==
  ASSUME CallInv, NEW x \in Syms, NEW c \in Literals(x), Body(AssignLit(x, c))
  PROVE  CallInv'
<1> DEFINE h == LoadLits(g, x, c, SizeOf[x])
           D == Now(g)
<1>1. /\ Ready /\ sent = <<>> /\ UNCHANGED <<isMain, params, sent, other, done>>
      /\ Generate(h) /\ next' = None /\ val' = Value(val, x, c)
  BY DEF Body, AssignLit, LoadLits, ForBytes
<1>2. GenFirm /\ g \in Firm(D, g) /\ Later(g) \in SUBSET D
  BY RestIs DEF CallInv, GenFirm
<1>l. c \in [Bytes(x) -> Byte] /\ val' \in Bytewise
  BY <1>1, LiteralIn
<1> HIDE DEF D
<1>3. h \in Firm(D, g)
  BY <1>l, <1>2, LoadLitsFirm
<1> HIDE DEF h
<1>4. GenFirm'
  BY <1>1, <1>2, <1>3, GenerateFirm
<1> QED BY <1>1, <1>4, <1>l, BodyFirm

LEMMA RoomIs ==
  ASSUME NEW f \in 0 .. REG_CNT - 2, NEW a \in Nat, NEW b \in Nat, NEW n \in Nat, a = n + b, a <= f
  PROVE  f - a \in Nat /\ (f - a) + n <= REG_CNT - 1 /\ (f - a) + n = f - b /\ b <= f
BY RegsAssumption

(* The registers of the parameter x that is received next: there is room   *)
(* for it, and nothing has one of them yet.                                *)
LEMMA ReceiveRoom ==
  ASSUME CallInv, params # <<>>, NEW x \in Syms, x = Head(params)
  PROVE  /\ g.first - Size(params) \in Nat /\ (g.first - Size(params)) + SizeOf[x] <= REG_CNT - 1
         /\ (g.first - Size(params)) + SizeOf[x] = g.first - Size(Tail(params))
         /\ Size(Tail(params)) <= g.first
         /\ g \in Under(g.first - Size(params)) /\ Tail(params) \in Seq(Syms)
<1>1. /\ Size(params) <= g.first /\ g \in Under(g.first - Size(params)) /\ params \in Seq(Syms)
      /\ g \in Firm(Now(g), g)
  BY DEF CallInv, Packed, GenFirm
<1> DEFINE n == SizeOf[x]
           f == g.first
           a == Size(params)
           b == Size(Tail(params))
<1>2. a = n + b /\ b \in Nat /\ a \in Nat /\ Tail(params) \in Seq(Syms)
  BY <1>1, SizeTail
<1>3. f \in 0 .. REG_CNT - 2 /\ n \in Nat
  BY <1>1, FirstIs, RegsAssumption
<1>4. a <= f
  BY <1>1
<1> HIDE DEF n, f, a, b
<1>5. f - a \in Nat /\ (f - a) + n <= REG_CNT - 1 /\ (f - a) + n = f - b /\ b <= f
  BY <1>2, <1>3, <1>4, RoomIs
<1> QED BY <1>1, <1>2, <1>5 DEF n, f, a, b

LEMMA ReceiveFirm ==
  ASSUME CallInv, NEW x \in Syms, NEW c \in Literals(x), Receive(x, c)
  PROVE  CallInv'
<1> DEFINE r == g.first - Size(params)
           n == SizeOf[x]
           h == Arrivals(g, x, c, r, n)
           D == Now(g)
           t == Tail(params)
<1>1. /\ params # <<>> /\ x = Head(params) /\ Generate(h) /\ val' = Value(val, x, c) /\ params' = t
      /\ UNCHANGED <<next, isMain, sent, other, done>>
  BY DEF Receive, Arrivals, Arrived, Settled, ForBytes
<1>2. GenFirm /\ g \in Firm(D, g) /\ Later(g) \in SUBSET D
  BY RestIs DEF CallInv, GenFirm
<1>3. c \in [Bytes(x) -> Byte] /\ val' \in Bytewise
  BY <1>1, LiteralIn
<1>4. sent = <<>>
  BY <1>1 DEF CallInv, Packed
<1> HIDE DEF D, r, t
<1>7. /\ r \in Nat /\ r + n <= REG_CNT - 1 /\ r + n = g.first - Size(t) /\ Size(t) <= g.first
      /\ g \in Under(r) /\ t \in Seq(Syms)
  BY <1>1, ReceiveRoom DEF r, t
<1>8. h \in Firm(D, g) /\ h \in Under(r + n)
  BY <1>2, <1>3, <1>7, ArrivalsFirm
<1> HIDE DEF h, n
<1>9. GenFirm' /\ g'.first = g.first /\ g'.home = h.home /\ g' \in Gens(Byte)
  BY <1>1, <1>2, <1>8, GenerateFirm
<1>10. g' \in Under(g'.first - Size(params'))
  BY <1>1, <1>7, <1>8, <1>9 DEF Under
<1>11. Packed'
  <2>1. lastReg' = 0
    BY <1>1, <1>4, LastIs DEF lastReg, Sent, CallInv, Packed
  <2>2. g' \in Spared(Now(g'), g', Below(lastReg', g'))
    BY <1>9, <2>1, BelowNone DEF GenFirm
  <2>3. lastReg' <= ARG_REG_CNT
    BY <2>1, CallAssumption
  <2> QED BY <1>1, <1>4, <1>7, <1>9, <1>10, <2>2, <2>3 DEF Packed, CallInv
<1> QED BY <1>1, <1>3, <1>9, <1>11 DEF CallInv, Bytewise, OtherRegs

LEMMA SentFirm ==
  ASSUME CallInv, NEW v \in Parcels, Ready, Fits(v), sent' = Append(sent, v), GenFirm',
         UNCHANGED <<val, next, isMain, params, done>>, other' \in OtherRegs,
         ~isMain => g' \in Spared(Now(g'), g', Below(lastReg + Length(v), g'))
  PROVE  CallInv'
<1>1. sent \in Seq(Parcels) /\ params = <<>>
  BY DEF CallInv, Packed, Ready
<1>2. sent' \in Seq(Parcels) /\ lastReg' = lastReg + Length(v)
  <2> DEFINE t == Append(sent, v)
             N == Len(sent)
  <2>1. /\ t \in Seq(Parcels) /\ Len(t) = N + 1 /\ SentOf(t, N + 1) = SentOf(sent, N) + Length(v)
    BY <1>1, SentAppend
  <2> HIDE DEF t
  <2>2. sent' = t
    BY DEF t
  <2>3. lastReg' = SentOf(sent', Len(sent')) /\ lastReg = SentOf(sent, N)
    BY DEF lastReg, Sent, SentOf
  <2> QED BY <2>1, <2>2, <2>3
<1>3. Packed'
  BY <1>1, <1>2 DEF Packed, Fits, Ready
<1> QED BY <1>3 DEF CallInv, Bytewise

(* An argument goes to the bank of the function itself.                    *)
LEMMA PlainFirm ==
  ASSUME CallInv, NEW D, D = Now(g), NEW r, NEW h \in Spared(D, g, Below(r, g)), Generate(h)
  PROVE  GenFirm' /\ g' \in Spared(Now(g'), g', Below(r, g'))
<1>1. GenFirm /\ g \in Firm(D, g) /\ Later(g) \in SUBSET D /\ h \in Firm(D, g)
  BY RestIs DEF CallInv, GenFirm, Spared
<1>2. GenFirm' /\ g'.first = g.first /\ g' = Stepped(h)
  BY <1>1, GenerateFirm
<1>3. Below(r, g') = Below(r, g)
  BY <1>2 DEF Below
<1> DEFINE o == g
           k == g'
           S == Below(r, g)
<1>4. Later(o) \in SUBSET D /\ h \in Spared(D, o, S) /\ k = Stepped(h)
  BY <1>1, <1>2
<1> HIDE DEF o, k, S
<1>5. k \in Spared(Now(k), k, S)
  BY <1>4, StepSpared
<1> QED BY <1>2, <1>3, <1>5 DEF k, S

LEMMA StarredFirm ==
  ASSUME CallInv, NEW D, Later(g) \in SUBSET D, NEW s \in Firm(D, g) \X OtherRegs,
         Generate(s[1]), other' = s[2]
  PROVE  GenFirm' /\ other' \in OtherRegs
<1>1. s[1] \in Firm(D, g) /\ s[2] \in OtherRegs /\ GenFirm
  BY DEF CallInv
<1> DEFINE h == s[1]
<1> HIDE DEF h
<1>2. h \in Firm(D, g) /\ Generate(h)
  BY <1>1 DEF h
<1>3. GenFirm'
  BY <1>1, <1>2, GenerateFirm
<1> QED BY <1>1, <1>3

(* The operand of a Send has a value, and there is room for it.            *)
LEMMA OperandIs ==
  ASSUME CallInv, NEW x \in Syms, Readable(x), NEW v, v = BytesOf(x)
  PROVE  v \in Parcels /\ Length(v) = SizeOf[x] /\ \A i \in Bytes(x) : v[i] = val[<<x, i>>] /\ v[i] \in Byte
<1> DEFINE n == SizeOf[x]
<1>1. n \in 1 .. MaxSize
  BY RegsAssumption
<1>2. \A i \in Bytes(x) : v[i] = val[<<x, i>>] /\ v[i] \in Byte
  <2> SUFFICES ASSUME NEW i \in Bytes(x) PROVE v[i] = val[<<x, i>>] /\ v[i] \in Byte
    OBVIOUS
  <2>1. v[i] = val[<<x, i>>] /\ val[<<x, i>>] # Junk
    BY DEF BytesOf, Readable
  <2>2. v[i] \in Byte \cup {Junk}
    BY BytesIn DEF CallInv
  <2> QED BY <2>1, <2>2
<1>3. v \in [0 .. n - 1 -> Byte]
  <2>1. v = [i \in Bytes(x) |-> v[i]]
    BY DEF BytesOf
  <2> QED BY <1>2, <2>1 DEF Bytes
<1>4. v \in Parcels
  BY <1>1, <1>3 DEF Parcels
<1>5. DOMAIN v = 0 .. n - 1 /\ Cardinality(0 .. n - 1) = n
  BY <1>1, <1>3, FS_Interval
<1> QED BY <1>2, <1>4, <1>5 DEF Length

LEMMA SendRoom ==
  ASSUME CallInv, NEW v \in Parcels, Fits(v), NEW n, n = Length(v)
  PROVE  /\ g \in Firm(Now(g), g) /\ Later(g) \in SUBSET Now(g) /\ other \in OtherRegs
         /\ lastReg \in Nat /\ lastReg + n <= REG_CNT - 1
         /\ (~isMain => g \in Spared(Now(g), g, Below(lastReg, g)))
<1>1. lastReg \in Nat
  BY LastIs DEF CallInv, Packed
<1>2. lastReg + n <= ARG_REG_CNT /\ n \in Nat
  BY ParcelIs, RegsAssumption DEF Fits
<1>3. lastReg + n <= REG_CNT - 1
  BY <1>1, <1>2, CallAssumption, RegsAssumption
<1> QED BY <1>1, <1>3, RestIs DEF CallInv, Packed, GenFirm

LEMMA SendFirm ==
  ASSUME CallInv, NEW x \in Syms, Send(x)
  PROVE  CallInv'
<1> DEFINE v == BytesOf(x)
           n == SizeOf[x]
           D == Now(g)
           s == Stars(<<g, other>>, x, lastReg, n)
           h == Sends(g, x, lastReg, n)
<1>1. v \in Parcels /\ Length(v) = n
  BY OperandIs DEF Send
<1>2. Ready /\ Fits(v) /\ sent' = Append(sent, v) /\ UNCHANGED <<val, next, isMain, params, done>>
  BY DEF Send, SendBytes
<1>3. isMain => Generate(s[1]) /\ other' = s[2]
  BY <1>1 DEF Send, SendBytes, Stars
<1>4. ~isMain => Generate(h) /\ other' = other
  BY <1>1 DEF Send, SendBytes, Sends
<1>5. /\ g \in Firm(D, g) /\ Later(g) \in SUBSET D /\ lastReg \in Nat /\ other \in OtherRegs
      /\ lastReg + n <= REG_CNT - 1 /\ (~isMain => g \in Spared(D, g, Below(lastReg, g)))
  BY <1>1, <1>2, SendRoom
<1> HIDE DEF v
<1>6. CASE isMain
  <2>1. <<g, other>> \in Firm(D, g) \X OtherRegs
    BY <1>5
  <2> HIDE DEF D, n
  <2>2. s \in Firm(D, g) \X OtherRegs
    BY <2>1, StarsFirm DEF n
  <2> HIDE DEF s
  <2>3. GenFirm' /\ other' \in OtherRegs
    BY <1>3, <1>5, <1>6, <2>2, StarredFirm
  <2> QED BY <1>1, <1>2, <1>6, <2>3, SentFirm
<1>7. CASE ~isMain
  <2> DEFINE m == lastReg + n
  <2> HIDE DEF D
  <2>1. h \in Spared(D, g, Below(m, g))
    BY <1>5, <1>7, SendsFirm
  <2> HIDE DEF h, n, m
  <2>2. GenFirm' /\ g' \in Spared(Now(g'), g', Below(m, g'))
    BY <1>4, <1>7, <2>1, PlainFirm DEF D
  <2>3. other' \in OtherRegs /\ m = lastReg + Length(v)
    BY <1>1, <1>4, <1>5, <1>7 DEF m
  <2> QED BY <1>1, <1>2, <1>7, <2>2, <2>3, SentFirm
<1> QED BY <1>6, <1>7

LEMMA StarSymDead == ASSUME CallInv PROVE starSym \notin Now(g)
BY DEF CallInv, GenFirm, Now

LEMMA SendLitFirm ==
  ASSUME CallInv, NEW c \in Arguments, SendLit(c)
  PROVE  CallInv'
<1> DEFINE n == Length(c)
           D == Now(g)
           s == StarLits(<<g, other>>, c, lastReg, n)
           h == SendLits(g, c, lastReg, n)
<1>1. c \in Parcels /\ n \in 1 .. MaxSize /\ n = Length(c)
  BY CallAssumption, ParcelIs DEF Parcels
<1>2. Ready /\ Fits(c) /\ sent' = Append(sent, c) /\ UNCHANGED <<val, next, isMain, params, done>>
  BY DEF SendLit, SendBytes
<1>3. isMain => Generate(s[1]) /\ other' = s[2]
  BY DEF SendLit, SendBytes, StarLits
<1>4. ~isMain => Generate(h) /\ other' = other
  BY DEF SendLit, SendBytes, SendLits
<1>5. /\ g \in Firm(D, g) /\ Later(g) \in SUBSET D /\ lastReg \in Nat /\ other \in OtherRegs
      /\ lastReg + n <= REG_CNT - 1 /\ (~isMain => g \in Spared(D, g, Below(lastReg, g)))
  BY <1>1, <1>2, SendRoom
<1>6. CASE isMain
  <2>1. <<g, other>> \in Firm(D, g) \X OtherRegs /\ starSym \notin D
    BY <1>5, StarSymDead
  <2> HIDE DEF D
  <2>2. s \in Firm(D, g) \X OtherRegs
    BY <1>1, <2>1, StarLitsFirm
  <2> HIDE DEF s
  <2>3. GenFirm' /\ other' \in OtherRegs
    BY <1>3, <1>5, <1>6, <2>2, StarredFirm
  <2> QED BY <1>1, <1>2, <1>6, <2>3, SentFirm
<1>7. CASE ~isMain
  <2> DEFINE m == lastReg + n
  <2> HIDE DEF D
  <2>1. h \in Spared(D, g, Below(m, g))
    BY <1>1, <1>5, <1>7, SendLitsFirm
  <2> HIDE DEF h, n, m
  <2>2. GenFirm' /\ g' \in Spared(Now(g'), g', Below(m, g'))
    BY <1>4, <1>7, <2>1, PlainFirm DEF D
  <2>3. other' \in OtherRegs /\ m = lastReg + Length(c)
    BY <1>1, <1>4, <1>5, <1>7 DEF m
  <2> QED BY <1>1, <1>2, <1>7, <2>2, <2>3, SentFirm
<1> QED BY <1>6, <1>7

LEMMA SavedFirm ==
  ASSUME CallInv, ~isMain
  PROVE  /\ Saved \in Firm(Now(g), g)
         /\ Saved \in Spared(Later(g), g, 0 .. g.first - 1)
<1> DEFINE N == Now(g)
           D == Later(g)
           S == Below(lastReg, g)
<1>1. Saved = Saves(g, ARG_REG_CNT)
  BY DEF Saved, Saves, ForBytes
<1>2. /\ g \in Firm(N, g) /\ g \in Spared(N, g, S) /\ D \in SUBSET N
      /\ g.first <= ARG_REG_CNT /\ sent \in Seq(Parcels)
  BY RestIs DEF CallInv, GenFirm, Packed
<1> HIDE DEF N, S
<1>3. g \in Spared(D, g, S)
  <2> HIDE DEF D
  <2> QED BY <1>2, FirmLess
<1>4. Saves(g, ARG_REG_CNT) \in Spared(D, g, 0 .. g.first - 1)
  BY <1>2, <1>3, SavesFirm DEF S
<1>5. Saves(g, ARG_REG_CNT) \in Firm(N, g)
  BY <1>2, SavesStay
<1> QED BY <1>1, <1>4, <1>5 DEF N

LEMMA CallFromFirm ==
  ASSUME CallInv, NEW x \in Syms, NEW c \in Literals(x), NEW D, D = Rest(g, x), NEW h \in Firm(D, g),
         ~isMain => h \in Spared(D, g, 0 .. g.first - 1), CallFrom(h, x, c)
  PROVE  CallInv'
<1> DEFINE n == SizeOf[x]
           k == Called(h, x, c)
           m == Results(k, x, n)
           L == Later(g)
<1>1. /\ Ready /\ Generate(m) /\ val' = Value(val, x, c) /\ sent' = <<>>
      /\ UNCHANGED <<next, isMain, params, done>> /\ g.liveTo[x] >= g.seq
      /\ other' = IF isMain THEN Returned(c, n) ELSE other
  BY DEF CallFrom, ResultHome, Results, Settled, ForBytes, Writable
<1>2. x \in Syms \ {starSym} /\ GenFirm /\ other \in OtherRegs
  BY <1>1, ReadIs DEF CallInv
<1>3. c \in [Bytes(x) -> Byte] /\ val' \in Bytewise
  BY <1>1, LiteralIn
<1>4. k \in Spared(D, g, 0 .. n - 1)
  BY <1>3, CalledFirm
<1> HIDE DEF k
<1>5. m \in Firm(L, g)
  BY <1>2, <1>4, ResultsFirm
<1> HIDE DEF m
<1>6. GenFirm'
  <2>1. Later(g) \in SUBSET L
    OBVIOUS
  <2> HIDE DEF L
  <2> QED BY <1>1, <1>2, <1>5, <2>1, GenerateFirm
<1>7. Packed'
  BY <1>1, <1>6, SentNone DEF Ready
<1>8. other' \in OtherRegs
  <2>1. Returned(c, n) \in OtherRegs
    BY <1>3, ReturnedIn
  <2> HIDE DEF n
  <2> QED BY <1>1, <1>2, <2>1
<1> QED BY <1>1, <1>3, <1>6, <1>7, <1>8 DEF CallInv, Bytewise

LEMMA CallFirm ==
  ASSUME CallInv, NEW x \in Syms, NEW c \in Literals(x), Call(x, c)
  PROVE  CallInv'
<1> DEFINE h == Saved
           D == Rest(g, x)
<1>1. CallFrom(h, x, c)
  BY DEF Call
<1>2. D \in SUBSET Later(g) /\ Later(g) \in SUBSET Now(g) /\ D \in SUBSET Now(g) /\ g \in Firm(Now(g), g)
  BY RestIs DEF CallInv, GenFirm
<1> HIDE DEF h, D
<1>3. CASE isMain
  <2>1. h = g
    BY <1>3 DEF h, Saved
  <2>2. h \in Firm(D, g)
    BY <1>2, <2>1, FirmLess
  <2> QED BY <1>1, <1>3, <2>2, CallFromFirm DEF D
<1>4. CASE ~isMain
  <2>1. h \in Firm(Now(g), g) /\ h \in Spared(Later(g), g, 0 .. g.first - 1)
    BY <1>4, SavedFirm DEF h
  <2>2. h \in Firm(D, g)
    BY <1>2, <2>1, FirmLess
  <2>3. h \in Spared(D, g, 0 .. g.first - 1)
    BY <1>2, <2>1, FirmLess
  <2> QED BY <1>1, <2>2, <2>3, CallFromFirm DEF D
<1> QED BY <1>3, <1>4

LEMMA ReturnFirm ==
  ASSUME CallInv, NEW x \in Syms, Return(x)
  PROVE  CallInv'
<1> DEFINE e == Outlives(g, REG_CNT - 1)
           h == ReturnBytes(e, x, SizeOf[x])
           D == Now(g)
<1>1. /\ Ready /\ sent = <<>> /\ Generate(h) /\ done' = TRUE
      /\ UNCHANGED <<val, next, isMain, params, sent, other>>
  BY DEF Return, Stored, Outlives, OutliveByte, ReturnBytes, ForBytes
<1>2. GenFirm /\ g \in Firm(D, g) /\ Later(g) \in SUBSET D
  BY RestIs DEF CallInv, GenFirm
<1> HIDE DEF D
<1>3. e \in Firm(D, g)
  BY <1>2, OutlivesFirm
<1> HIDE DEF e
<1>4. h \in Firm(D, g)
  BY <1>3, ReturnBytesFirm
<1> HIDE DEF h
<1>5. GenFirm'
  BY <1>1, <1>2, <1>4, GenerateFirm
<1>6. Packed'
  BY <1>1, <1>5, SentNone DEF Ready
<1> QED BY <1>1, <1>5, <1>6 DEF CallInv, Bytewise, OtherRegs

LEMMA CallNextFirm ==
  ASSUME CallInv, CallNext
  PROVE  CallInv'
<1>1. CASE \E x \in Syms : \E c \in Literals(x) : Receive(x, c)
  BY <1>1, ReceiveFirm
<1>2. CASE \E x \in Syms, y \in Syms : Body(Assign(x, y))
  BY <1>2, AssignFirm
<1>3. CASE \E x \in Syms : \E c \in Literals(x) : Body(AssignLit(x, c))
  BY <1>3, AssignLitFirm
<1>4. CASE \E x \in Syms : Send(x) \/ Return(x)
  BY <1>4, SendFirm, ReturnFirm
<1>5. CASE \E c \in Arguments : SendLit(c)
  BY <1>5, SendLitFirm
<1>6. CASE \E x \in Syms : \E c \in Literals(x) : Call(x, c)
  BY <1>6, CallFirm
<1> QED BY <1>1, <1>2, <1>3, <1>4, <1>5, <1>6 DEF CallNext

-----------------------------------------------------------------------------
(* The other forms of a call.                                              *)
PortIs ==
  \/ port = <<>>
  \/ /\ sent = <<>> /\ params = <<>>
     /\ \/ \E v \in Syms : port = <<v>>
        \/ \E v \in Syms, n \in Arguments : port = <<v, n>>

FormsInv == CallInv /\ PortIs /\ stale \in Nat \cup {None}

(* Outside main, before sF is moved: what is read after the call is named  *)
(* by its register, and none is that of an argument.  What is not marked   *)
(* is as the moves of the address left it.                                 *)
Unmarked(h, u, p, x) == h.hit = {} => h = u /\ Rest(g, x) \in SUBSET Rest(g, p)

LEMMA PCallSpared ==
  ASSUME CallInv, ~isMain, NEW p \in Syms, NEW x \in Syms, SizeOf[p] = 2, g.liveTo[p] >= g.seq,
         NEW s, s = Saved, NEW u, u = TargetBytes(s, p, 2), NEW h,
         h = IF p = x \/ g.liveTo[p] <= g.seq THEN u ELSE [u EXCEPT !.hit = @ \cup {"pointer home kept"}]
  PROVE  /\ s \in Firm(Rest(g, p) \cup {p}, g) /\ s \in Spared(Rest(g, p), g, 0 .. g.first - 1)
         /\ h \in Spared(Rest(g, x), g, 0 .. g.first - 1) /\ Unmarked(h, u, p, x)
<1> DEFINE marked  == [u EXCEPT !.hit = @ \cup {"pointer home kept"}]
           D == Rest(g, x)
           E == Rest(g, p)
           N == Now(g)
           L == Later(g)
           S == 0 .. g.first - 1
<1>1. /\ g \in Firm(N, g) /\ D \in SUBSET L /\ E \in SUBSET L /\ L \in SUBSET N
      /\ p \in N /\ p \notin E /\ D \in SUBSET N
  BY ReadIs, RestIs DEF CallInv, GenFirm, Rest
<1>2. s \in Firm(E \cup {p}, g) /\ s \in Spared(E, g, S)
  <2>1. s \in Firm(N, g) /\ s \in Spared(L, g, S)
    BY SavedFirm
  <2>2. E \cup {p} \in SUBSET N
    BY <1>1
  <2> HIDE DEF N, L, E, S
  <2> QED BY <1>1, <2>1, <2>2, FirmLess
<1>3. u \in Spared(E, g, S) /\ u \in Firm(E, g)
  <2> HIDE DEF E
  <2>1. u \in Spared(E, g, S)
    BY <1>1, <1>2, TargetBytesFirm
  <2> QED BY <2>1 DEF Spared
<1>4. CASE p = x \/ g.liveTo[p] <= g.seq
  <2>1. h = u
    BY <1>4
  <2>2. D \in SUBSET E
    <3>1. CASE p = x
      BY <3>1
    <3>2. CASE g.liveTo[p] <= g.seq
      <4>1. g.liveTo[p] \in Nat /\ g.seq \in Nat
        <5>1. g \in Gens(Byte)
          BY <1>1, FirmIs DEF Kept
        <5> QED BY <5>1 DEF Gens
      <4>2. p \notin L
        BY <3>2, <4>1 DEF Later
      <4> QED BY <1>1, <4>2 DEF Rest
    <3> QED BY <1>4, <3>1, <3>2
  <2> HIDE DEF D, E, S
  <2>3. h \in Spared(D, g, S)
    <3>1. Spared(E, g, S) \subseteq Spared(D, g, S)
      BY <2>2, FirmLess
    <3> QED BY <1>3, <2>1, <3>1
  <2> QED BY <1>2, <2>1, <2>2, <2>3 DEF D, E, S, Unmarked
<1>5. CASE ~(p = x \/ g.liveTo[p] <= g.seq)
  <2> DEFINE H == u.hit \cup {"pointer home kept"}
  <2>1. h = marked /\ marked = [u EXCEPT !.hit = H]
    BY <1>5
  <2> HIDE DEF marked, D, E, S
  <2>2. H \in Noted /\ u.hit \subseteq H /\ "pointer home kept" \in H
    <3>1. {"pointer home kept"} \in Noted
      BY DEF Noted, Reasons
    <3> QED BY <1>3, <3>1, NotedMore
  <2> HIDE DEF H
  <2>3. marked \in Firm(E, g)
    BY <1>3, <2>1, <2>2, HitFirm
  <2>4. marked.hit = H
    <3>1. u \in Gens(Byte)
      BY <1>3, FirmIs DEF Kept
    <3> QED BY <2>1, <3>1 DEF Gens
  <2>5. ~Clean(marked)
    BY <2>2, <2>4 DEF Clean, Bad
  <2>6. marked \in Firm(D, g)
    BY <2>3, <2>5 DEF Firm
  <2> QED BY <1>2, <2>1, <2>2, <2>4, <2>5, <2>6 DEF Spared, D, E, S, Unmarked
<1> QED BY <1>4, <1>5

LEMMA PCallFirm ==
  ASSUME CallInv, NEW p \in Syms, NEW x \in Syms, NEW c \in Literals(x), PCall(p, x, c)
  PROVE  CallInv'
<1> DEFINE starred == TargetStars(<<g, other>>, p, 2)
           loaded  == TargetBytes(Saved, p, 2)
           k       == IF p = x \/ g.liveTo[p] <= g.seq THEN loaded
                      ELSE [loaded EXCEPT !.hit = @ \cup {"pointer home kept"}]
           h       == IF isMain THEN starred[1] ELSE k
           D       == Rest(g, x)
           N       == Now(g)
           S       == 0 .. g.first - 1
<1>1. CallFrom(h, x, c) /\ SizeOf[p] = 2 /\ g.liveTo[p] >= g.seq
  BY DEF PCall, Readable, TargetStars, TargetBytes
<1>2. g \in Firm(N, g) /\ D \in SUBSET N /\ other \in OtherRegs
  BY <1>1, RestIs DEF CallInv, GenFirm
<1>3. CASE isMain
  <2> HIDE DEF D, N, S
  <2>1. starred \in Firm(N, g) \X OtherRegs
    BY <1>1, <1>2, TargetStarsFirm
  <2> HIDE DEF starred
  <2>2. h \in Firm(N, g)
    BY <1>3, <2>1
  <2> HIDE DEF h
  <2>3. h \in Firm(D, g)
    BY <1>2, <2>2, FirmLess
  <2> QED BY <1>1, <1>3, <2>3, CallFromFirm DEF D
<1>4. CASE ~isMain
  <2>1. h = k /\ k = IF p = x \/ g.liveTo[p] <= g.seq THEN loaded
                    ELSE [loaded EXCEPT !.hit = @ \cup {"pointer home kept"}]
    BY <1>4
  <2> HIDE DEF k, h, D, S
  <2>2. h \in Spared(D, g, S)
    BY <1>1, <1>4, <2>1, PCallSpared DEF D, S
  <2>3. h \in Firm(D, g)
    BY <2>2 DEF Spared
  <2> QED BY <1>1, <2>2, <2>3, CallFromFirm DEF D, S
<1> QED BY <1>3, <1>4

LEMMA QuietFirm ==
  ASSUME CallInv, sent = <<>>, params = <<>>, NEW h \in Firm(Now(g), g), Generate(h),
         UNCHANGED <<val, next, isMain, params, sent, done>>, other' \in OtherRegs
  PROVE  CallInv'
<1> DEFINE D == Now(g)
<1>1. GenFirm /\ Later(g) \in SUBSET D /\ h \in Firm(D, g)
  BY RestIs DEF CallInv
<1> HIDE DEF D
<1>2. GenFirm'
  BY <1>1, GenerateFirm
<1>3. Packed'
  BY <1>2, SentNone
<1> QED BY <1>2, <1>3 DEF CallInv, Bytewise

LEMMA SendPortFirm ==
  ASSUME FormsInv, NEW v \in Syms, SendPort(v)
  PROVE  FormsInv'
<1>1. /\ sent = <<>> /\ params = <<>> /\ Generate(g) /\ port' = <<v>>
      /\ UNCHANGED <<val, next, isMain, params, sent, other, done, stale>>
  BY DEF SendPort, Ready
<1>2. g \in Firm(Now(g), g) /\ CallInv /\ other' \in OtherRegs
  BY <1>1 DEF FormsInv, CallInv, GenFirm, OtherRegs
<1>3. CallInv'
  BY <1>1, <1>2, QuietFirm
<1> QED BY <1>1, <1>3 DEF FormsInv, PortIs

LEMMA Operands ==
  /\ Len(<<>>) = 0 /\ (\A v : Len(<<v>>) = 1) /\ (\A v, n : Len(<<v, n>>) = 2)
  /\ \A v, n : Append(<<v>>, n) = <<v, n>>
<1>1. Len(<<>>) = 0
  OBVIOUS
<1>2. ASSUME NEW v PROVE Len(<<v>>) = 1
  OBVIOUS
<1>3. ASSUME NEW v, NEW n PROVE Len(<<v, n>>) = 2
  OBVIOUS
<1>4. ASSUME NEW v, NEW n PROVE Append(<<v>>, n) = <<v, n>>
  <2> DEFINE S == {v, n}
  <2>1. v \in S /\ n \in S
    OBVIOUS
  <2> HIDE DEF S
  <2> DEFINE s == <<v>>
             t == Append(s, n)
  <2>2. t \in Seq(S) /\ Len(t) = 2 /\ t[1] = v /\ t[2] = n
    BY <2>1
  <2>3. t = [k \in 1 .. 2 |-> t[k]]
    BY <2>1
  <2> HIDE DEF t
  <2>4. <<v, n>> = [k \in 1 .. 2 |-> t[k]]
    BY <2>2
  <2>5. t = <<v, n>>
    BY <2>3, <2>4
  <2> QED BY <2>5 DEF t, s
<1> QED BY <1>1, <1>2, <1>3, <1>4

LEMMA SendPortNumberFirm ==
  ASSUME FormsInv, NEW r \in 0 .. REG_CNT + MaxSeq, NEW n \in Arguments, SendPortNumber(r, n)
  PROVE  FormsInv'
<1> DEFINE D == Now(g)
           a == StarLitByte(<<g, other>>, n, 0, r)
           e == clear(g, r)
           h == IF isMain THEN a[1] ELSE IF r \in Regs THEN SendLitByte(g, n, 0, r) ELSE g
           beyond == r \notin Regs /\ ~(isMain /\ r = REG_CNT - 1)
           H == h.hit \cup (IF beyond THEN {"port beyond bank"} ELSE {})
           k == [h EXCEPT !.hit = H]
<1>1. /\ Len(port) = 1 /\ Generate(k) /\ port' = Append(port, n) /\ stale' = r + 1
      /\ other' = IF isMain /\ r \in Regs THEN [other EXCEPT ![r] = n[0]] ELSE other
      /\ UNCHANGED <<val, next, isMain, params, sent, done>>
  BY DEF SendPortNumber
<1>2. sent = <<>> /\ params = <<>> /\ \E v \in Syms : port = <<v>>
  <2>1. port # <<>> /\ \A v \in Syms, w \in Arguments : port # <<v, w>>
    <3>0. Len(port) = 1
      BY <1>1
    <3>1. port # <<>>
      BY <3>0, Operands
    <3>2. ASSUME NEW v \in Syms, NEW w \in Arguments, port = <<v, w>> PROVE FALSE
      <4>1. Len(port) = 2
        BY <3>2, Operands
      <4> QED BY <3>0, <4>1
    <3> QED BY <3>1, <3>2
  <2> QED BY <2>1 DEF FormsInv, PortIs
<1>3. n \in Parcels /\ n[0] \in Byte
  <2>1. n \in Parcels
    BY CallAssumption DEF Parcels
  <2>2. Length(n) \in 1 .. MaxSize /\ n \in [0 .. Length(n) - 1 -> Byte]
    BY <2>1, ParcelIs
  <2> QED BY <2>1, <2>2, RegsAssumption
<1>4. g \in Firm(D, g) /\ other \in OtherRegs /\ CallInv /\ starSym \notin D /\ 0 \in 0 .. MaxSize - 1
  BY StarSymDead, RegsAssumption DEF FormsInv, CallInv, GenFirm
<1>5. h \in Firm(D, g)
  <2> HIDE DEF D
  <2>1. CASE isMain
    <3> DEFINE q == <<g, other>>
    <3>1. q \in Firm(D, g) \X OtherRegs
      BY <1>4
    <3> HIDE DEF q
    <3>2. StarLitByte(q, n, 0, r) \in Firm(D, g) \X OtherRegs
      BY <1>3, <1>4, <3>1, StarLitByteFirm
    <3>3. a \in Firm(D, g) \X OtherRegs
      BY <3>2 DEF q
    <3> HIDE DEF a
    <3> QED BY <2>1, <3>3
  <2>2. CASE ~isMain /\ r \in Regs
    <3>1. h = Emit(e, r, n[0])
      BY <2>2 DEF SendLitByte
    <3>2. e \in Firm(D, g)
      BY <1>4, <2>2, ClearFirm
    <3> HIDE DEF h, e
    <3> QED BY <1>3, <2>2, <3>1, <3>2, EmitFirm
  <2>3. CASE ~isMain /\ r \notin Regs
    BY <1>4, <2>3
  <2> QED BY <2>1, <2>2, <2>3
<1> HIDE DEF h
<1>6. H \in Noted /\ h.hit \subseteq H
  <2>1. {"port beyond bank"} \in Noted /\ {} \in Noted
    BY DEF Noted, Reasons
  <2>2. h.hit \cup {"port beyond bank"} \in Noted /\ h.hit \in Noted
    BY <1>5, <2>1, NotedMore, NotedIs
  <2> QED BY <2>2
<1> HIDE DEF H
<1>7. k \in Firm(D, g)
  BY <1>5, <1>6, HitFirm
<1> HIDE DEF k
<1>8. other' \in OtherRegs
  BY <1>1, <1>3, <1>4 DEF OtherRegs
<1>9. CallInv'
  BY <1>1, <1>2, <1>4, <1>7, <1>8, QuietFirm
<1>10. PortIs'
  <2>1. PICK v \in Syms : port = <<v>>
    BY <1>2
  <2>2. port' = <<v, n>>
    BY <1>1, <2>1, Operands
  <2> QED BY <1>1, <1>2, <2>2 DEF PortIs
<1>11. stale' \in Nat
  BY <1>1, RegsAssumption, GenAssumption
<1> QED BY <1>9, <1>10, <1>11 DEF FormsInv

LEMMA PortOutFirm ==
  ASSUME FormsInv, PortOut
  PROVE  FormsInv'
<1> DEFINE D == Now(g)
           v == port[1]
           k == Touch(g, v, 0)
           H == k.hit \cup {"operand dead"}
           m == [k EXCEPT !.hit = H]
           h == IF g.liveTo[v] < g.seq /\ g.home[<<v, 0>>] = None THEN m ELSE k
<1>1. /\ Len(port) = 2 /\ Generate(h) /\ port' = <<>>
      /\ UNCHANGED <<val, next, isMain, params, sent, other, done, stale>>
  BY DEF PortOut
<1>2. sent = <<>> /\ params = <<>> /\ v \in Syms
  <2>1. port # <<>> /\ \A z \in Syms : port # <<z>>
    <3>0. Len(port) = 2
      BY <1>1
    <3>1. port # <<>>
      BY <3>0, Operands
    <3>2. ASSUME NEW z \in Syms, port = <<z>> PROVE FALSE
      <4>1. Len(port) = 1
        BY <3>2, Operands
      <4> QED BY <3>0, <4>1
    <3> QED BY <3>1, <3>2
  <2>2. PICK z \in Syms, n \in Arguments : port = <<z, n>>
    BY <2>1 DEF FormsInv, PortIs
  <2> QED BY <2>1, <2>2 DEF FormsInv, PortIs
<1>3. g \in Firm(D, g) /\ CallInv /\ other' \in OtherRegs /\ 0 \in Bytes(v)
  <2>1. 0 \in Bytes(v)
    BY <1>2, RegsAssumption DEF Bytes
  <2> QED BY <1>1, <2>1 DEF FormsInv, CallInv, GenFirm, OtherRegs
<1> HIDE DEF D, v
<1>4. k \in Firm(D, g)
  BY <1>2, <1>3, TouchFirm
<1> HIDE DEF k
<1>5. H \in Noted /\ k.hit \subseteq H
  <2>1. {"operand dead"} \in Noted
    BY DEF Noted, Reasons
  <2> QED BY <1>4, <2>1, NotedMore
<1> HIDE DEF H
<1>6. m \in Firm(D, g)
  BY <1>4, <1>5, HitFirm
<1> HIDE DEF m
<1>7. h \in Firm(D, g)
  BY <1>4, <1>6
<1> HIDE DEF h
<1>8. CallInv'
  BY <1>1, <1>2, <1>3, <1>7, QuietFirm DEF D
<1> QED BY <1>1, <1>8 DEF FormsInv, PortIs

LEMMA CallStepFirm ==
  ASSUME FormsInv, port = <<>>, CallNext, port' = port,
         stale' = IF Len(sent') > Len(sent) THEN lastReg' ELSE stale
  PROVE  FormsInv'
<1>1. CallInv'
  BY CallNextFirm DEF FormsInv
<1>2. PortIs'
  BY DEF PortIs
<1>3. lastReg' \in Nat
  <2>1. lastReg' = SentOf(sent', Len(sent')) /\ sent' \in Seq(Parcels)
    BY <1>1 DEF lastReg, Sent, SentOf, CallInv, Packed
  <2>2. Len(sent') \in 0 .. Len(sent')
    BY <2>1
  <2> QED BY <2>1, <2>2, SentIs
<1> QED BY <1>1, <1>2, <1>3 DEF FormsInv

LEMMA FormsInvInit == FormsInit => FormsInv
<1> SUFFICES ASSUME FormsInit PROVE FormsInv
  OBVIOUS
<1>1. PICK live \in [Syms -> Ends], ps \in ParamLists :
        /\ isMain => ps = <<>>
        /\ Size(ps) <= ARG_REG_CNT
        /\ params = ps
        /\ g = Fresh([live EXCEPT ![starSym] = 0], Size(ps))
  BY DEF FormsInit, CallInit
<1> DEFINE L == [live EXCEPT ![starSym] = 0]
           n == Size(ps)
<1>2. L \in [Syms -> Nat] /\ L[starSym] = 0
  BY GenAssumption, CallAssumption
<1>3. n \in Nat /\ n <= ARG_REG_CNT /\ ps \in Seq(Syms)
  <2>1. ps \in Seq(Syms)
    BY CallAssumption
  <2>2. Size(ps) \in Nat
    BY <2>1, SizeTail, SizeOfNone
  <2> QED BY <1>1, <2>1, <2>2
<1>4. n \in 0 .. REG_CNT - 2
  <2> HIDE DEF n
  <2> QED BY <1>3, CallAssumption, RegsAssumption
<1> HIDE DEF L, n
<1>5. g = Fresh(L, n) /\ params = ps
  BY <1>1 DEF L, n
<1>6. 0 \in Cells /\ {} \in Noted
  BY AllBytesFinite, RegsAssumption DEF Cells, Noted
<1>7. g \in Gens(Byte)
  BY <1>2, <1>4, <1>5, <1>6 DEF Fresh, Gens
<1>8. /\ g.top = 0 /\ (\A x \in Syms : g.at[x] = None) /\ (\A b \in Places : g.home[b] = None)
      /\ g.seq = 1 /\ g.first = n /\ g.liveTo = L
  BY <1>5 DEF Fresh
<1>9. OnStack(g) = {}
  BY <1>8, BytesArePlaces DEF OnStack
<1>10. Framed(g) /\ Backed(g, {}) /\ Backed(g, Now(g)) /\ Onward(g, g) /\ Fitting(g)
  BY <1>8, <1>9, FS_EmptySet DEF Framed, Apart, Backed, Onward, Fitting
<1>11. g \in Firm(Now(g), g)
  BY <1>7, <1>10 DEF Firm, Kept
<1>12. GenFirm
  BY <1>2, <1>3, <1>8, <1>11, GenAssumption DEF GenFirm
<1>13. sent = <<>> /\ next = None /\ done = FALSE /\ stale = None /\ port = <<>> /\ isMain \in BOOLEAN
  BY DEF FormsInit, CallInit
<1>14. lastReg = 0 /\ sent \in Seq(Parcels) /\ 0 <= ARG_REG_CNT
  BY <1>13, LastIs, CallAssumption
<1>15. g \in Under(g.first - Size(params))
  BY <1>7, <1>8 DEF Under
<1>16. g \in Spared(Now(g), g, Below(lastReg, g))
  BY <1>11, <1>14, BelowNone
<1>17. Packed
  <2>1. Size(params) <= g.first
    BY <1>3, <1>5, <1>8 DEF n
  <2> QED BY <1>3, <1>5, <1>13, <1>14, <1>15, <1>16, <2>1 DEF Packed
<1>18. val \in Bytewise /\ other \in OtherRegs
  BY DEF FormsInit, CallInit, Bytewise, OtherRegs
<1> QED BY <1>12, <1>13, <1>17, <1>18 DEF FormsInv, CallInv, PortIs

LEMMA FormsInvStep == FormsInv /\ [FormsNext]_formsVars => FormsInv'
<1> SUFFICES ASSUME FormsInv, [FormsNext]_formsVars PROVE FormsInv'
  OBVIOUS
<1>1. CASE UNCHANGED formsVars
  <2>1. GenFirm'
    BY <1>1 DEF formsVars, FormsInv, CallInv, GenFirm
  <2>2. lastReg' = lastReg
    BY <1>1 DEF formsVars, lastReg, Sent
  <2>3. Packed'
    BY <1>1, <2>2 DEF formsVars, FormsInv, CallInv, Packed
  <2> QED BY <1>1, <2>1, <2>3 DEF formsVars, FormsInv, CallInv, PortIs, Bytewise, OtherRegs
<1>2. CASE /\ port = <<>> /\ CallNext
           /\ stale' = IF Len(sent') > Len(sent) THEN lastReg' ELSE stale
           /\ effect' = None /\ UNCHANGED port
  BY <1>2, CallStepFirm
<1>3. CASE \E p \in Syms, x \in Syms : \E c \in Literals(x) : PCall(p, x, c)
  <2>1. PICK p \in Syms, x \in Syms : \E c \in Literals(x) : PCall(p, x, c)
    BY <1>3
  <2>2. PICK c \in Literals(x) : PCall(p, x, c)
    BY <2>1
  <2>3. CallInv'
    BY <2>2, PCallFirm DEF FormsInv
  <2>4. port = <<>> /\ port' = port /\ stale' = stale
    BY <2>2 DEF PCall
  <2> QED BY <2>3, <2>4 DEF FormsInv, PortIs
<1>4. CASE \E v \in Syms : SendPort(v)
  BY <1>4, SendPortFirm
<1>5. CASE \E r \in 0 .. REG_CNT + MaxSeq, n \in Arguments : SendPortNumber(r, n)
  BY <1>5, SendPortNumberFirm
<1>6. CASE PortOut
  BY <1>6, PortOutFirm
<1> QED BY <1>1, <1>2, <1>3, <1>4, <1>5, <1>6 DEF FormsNext

-----------------------------------------------------------------------------
(* A function that calls others keeps the invariant, whatever it receives, *)
(* sends, calls and returns: Receive, Send, Call and Return of gen.cc,     *)
(* through pointers to functions and port_out too.                         *)
THEOREM FormsInvariant == FormsSpec => []FormsInv
<1>1. FormsInit => FormsInv
  BY FormsInvInit
<1>2. FormsInv /\ [FormsNext]_formsVars => FormsInv'
  BY FormsInvStep
<1> QED BY <1>1, <1>2, PTL DEF FormsSpec

(* The arguments of a call never need more than ARG_REG_CNT registers, the *)
(* cells of the symbols more than their bytes, and no register of either   *)
(* bank beyond it is written, but for the port number (gen.cc, Send).      *)
THEOREM FormsTyped == FormsSpec => []FormsTypeOK
<1>1. ASSUME FormsInv PROVE FormsTypeOK
  <2>1. g \in Gens(Byte) /\ Framed(g) /\ CallInv /\ GenFirm /\ Packed /\ PortIs
    BY <1>1, FirmIs DEF FormsInv, CallInv, GenFirm, Kept
  <2>2. g.top <= Cardinality(AllBytes) /\ g.top \in Nat
    <3>1. OnStack(g) \subseteq AllBytes
      BY DEF OnStack
    <3> QED BY <2>1, <3>1, AllBytesFinite, FS_Subset DEF Framed, Gens
  <2>3. g.top \in Cells
    BY <2>2, AllBytesFinite, RegsAssumption DEF Cells
  <2>4. TypeOK
    BY <2>1, <2>3 DEF TypeOK, TypeOver, CallInv, GenFirm, Gens, Bytewise
  <2>5. Len(port) \in 0 .. 2
    BY <2>1, Operands DEF PortIs
  <2> QED BY <1>1, <2>1, <2>4, <2>5 DEF FormsTypeOK, CallTypeOK, FormsInv, CallInv, Packed, OtherRegs
<1> QED BY <1>1, FormsInvariant, PTL

(* Register::clear may rely on the name of a register in a function that   *)
(* calls too, for all that is still read: but for the two hazards that     *)
(* take a register its name, the home of a live byte names it.             *)
THEOREM LiveHomesAlwaysBacked == FormsSpec => []LiveHomesBacked
<1>1. ASSUME FormsInv PROVE LiveHomesBacked
  <2>1. g \in Firm(Now(g), g)
    BY <1>1 DEF FormsInv, CallInv, GenFirm
  <2>2. ASSUME Named, NEW b \in Places, Live(b[1]), g.home[b] # None PROVE g.bank[g.home[b]] = b
    <3>1. Clean(g)
      BY <2>2 DEF Named, Clean, Bad
    <3>2. b[1] \in Now(g)
      BY <2>2, BytesArePlaces DEF Live, Now
    <3> QED BY <2>1, <2>2, <3>1, <3>2 DEF Firm, Backed
  <2> QED BY <2>2 DEF LiveHomesBacked
<1> QED BY <1>1, FormsInvariant, PTL

(* ... and it is the home of no other byte that is still read: results and *)
(* parameters that are put into registers by decree displace nothing live. *)
THEOREM LiveHomesAlwaysExclusive == FormsSpec => []LiveHomesExclusive
<1>1. LiveHomesBacked => LiveHomesExclusive
  <2> SUFFICES ASSUME LiveHomesBacked, Named, NEW b \in Places, NEW c \in Places, b # c,
                      Live(b[1]), Live(c[1]), g.home[b] # None, g.home[b] = g.home[c]
               PROVE  FALSE
    BY DEF LiveHomesExclusive
  <2>1. g.bank[g.home[b]] = b /\ g.bank[g.home[c]] = c
    BY DEF LiveHomesBacked
  <2> QED BY <2>1
<1> QED BY <1>1, LiveHomesAlwaysBacked, PTL

-----------------------------------------------------------------------------
(* What the machine of a function that calls holds.  Sure(D, o, w) are the *)
(* states of Firm whose machine holds the meaning w of every byte that may *)
(* still be read, unless a hazard was met.                                 *)
Sure(D, o, w) == {h \in Firm(D, o) : h.hit = {} => Means(h, w)}

LEMMA SureIs ==
  ASSUME NEW D, NEW o, NEW w, NEW h \in Sure(D, o, w)
  PROVE  /\ h \in Firm(D, o) /\ h \in Right(Byte, {}, o, w) /\ h.liveTo = o.liveTo /\ h.seq = o.seq
         /\ (h.hit = {} => h \in Right(Byte, D, o, w) /\ Means(h, w))
<1>1. h \in Firm(D, o) /\ (h.hit = {} => Means(h, w))
  BY DEF Sure
<1>2. h \in Kept(Byte, {}, o) /\ (Clean(h) => h \in Kept(Byte, D, o))
  BY <1>1, FirmIs
<1>3. h.hit = {} => Clean(h)
  BY DEF Clean
<1>4. h.liveTo = o.liveTo /\ h.seq = o.seq
  BY <1>2 DEF Kept, Onward
<1> QED BY <1>1, <1>2, <1>3, <1>4 DEF Right

LEMMA SureStep ==
  ASSUME NEW D, NEW o, NEW v, NEW h \in Sure(D, o, v), NEW w, NEW k \in Firm(D, o),
         k.hit = {} => h.hit = {}, NEW E, h.hit = {} => k \in Right(Byte, E, o, w)
  PROVE  k \in Sure(D, o, w)
<1>1. k.hit = {} => Means(k, w)
  <2> SUFFICES ASSUME k.hit = {} PROVE Means(k, w)
    OBVIOUS
  <2>1. k \in Right(Byte, E, o, w)
    OBVIOUS
  <2> QED BY <2>1 DEF Right
<1> QED BY <1>1 DEF Sure

LEMMA SureWeak ==
  ASSUME NEW D, NEW o, NEW v, NEW h \in Sure(D, o, v), NEW w, h.hit = {} => Within(o, w, v)
  PROVE  h \in Sure(D, o, w)
<1>1. h \in Firm(D, o) /\ h \in Right(Byte, {}, o, v)
  BY SureIs
<1>2. h \in Right(Byte, {}, o, w)
  BY <1>1, RightWeak
<1> QED BY <1>1, <1>2 DEF Right, Sure

LEMMA GrowsHit ==
  ASSUME NEW h, NEW k, Grows(h, k)
  PROVE  k.hit = {} => h.hit = {}
BY DEF Grows

(* Register r is given the value v: no byte that w claims was in it, but   *)
(* one that means v.                                                       *)
Over(o, h, w, r, v) ==
  \A b \in AllBytes : o.liveTo[b[1]] >= o.seq /\ w[b] # Junk /\ h.home[b] = r => w[b] = v

LEMMA OverRight ==
  ASSUME NEW V, NEW D, NEW o, NEW w, NEW h \in Right(V, D, o, w), NEW r \in Regs,
         NEW v \in V \cup {Junk}, h.hit = {} => Over(o, h, w, r, v), NEW k, k = Emit(h, r, v)
  PROVE  k \in Right(V, D, o, w)
<1>1. h \in Kept(V, D, o) /\ h \in Gens(V)
  BY RightIs
<1>2. k \in Kept(V, D, o) /\ k.home = h.home /\ k.at = h.at
  BY <1>1, EmitKeeps
<1>3. k.hit = h.hit /\ k.ram = h.ram /\ k.reg = [h.reg EXCEPT ![r] = v] /\ h.reg \in [Regs -> V \cup {Junk}]
  BY <1>1 DEF Emit, Gens
<1>4. \A q \in Regs : k.reg[q] = IF q = r THEN v ELSE h.reg[q]
  BY <1>3
<1>5. ASSUME h.hit = {} PROVE Still(o, w, h, k)
  <2> SUFFICES ASSUME NEW b \in AllBytes, o.liveTo[b[1]] >= o.seq, w[b] # Junk, At(h, b) = w[b]
               PROVE  At(k, b) = w[b]
    BY DEF Still
  <2>1. CASE h.home[b] = r
    <3>1. w[b] = v /\ r # None
      BY <1>5, <2>1, RegsAssumption DEF Over, Regs
    <3> QED BY <1>2, <1>4, <2>1, <3>1 DEF At
  <2>2. CASE h.home[b] = None
    BY <1>2, <1>3, <2>2 DEF At
  <2>3. CASE h.home[b] # r /\ h.home[b] # None
    <3>1. h.home[b] \in Regs
      BY <1>1, <2>3, BytesArePlaces DEF Gens
    <3> QED BY <1>2, <1>4, <2>3, <3>1 DEF At
  <2> QED BY <2>1, <2>2, <2>3
<1> QED BY <1>2, <1>3, <1>5, RightSame

LEMMA EmitSure ==
  ASSUME NEW D, NEW o, NEW w, NEW h \in Sure(D, o, w), NEW r \in Regs, NEW v \in Byte \cup {Junk},
         h.hit = {} => Over(o, h, w, r, v), NEW k, k = Emit(h, r, v)
  PROVE  k \in Sure(D, o, w) /\ k.hit = h.hit /\ k.home = h.home /\ k.bank = h.bank
<1>1. h \in Firm(D, o) /\ h \in Right(Byte, {}, o, w)
  BY SureIs
<1>2. k \in Firm(D, o) /\ k.home = h.home /\ k.bank = h.bank /\ k.hit = h.hit
  BY <1>1, EmitFirm
<1>3. k \in Right(Byte, {}, o, w)
  BY <1>1, OverRight
<1> QED BY <1>2, <1>3, SureStep

(* The meaning w claims nothing that may still be read but of D.           *)
Claims(D, o, w) == \A b \in AllBytes : o.liveTo[b[1]] >= o.seq /\ w[b] # Junk => b[1] \in D

LEMMA VacantOver ==
  ASSUME NEW D, NEW o, NEW w, Claims(D, o, w), NEW h, NEW r, Vacant(h, D, r), NEW v
  PROVE  Over(o, h, w, r, v)
BY BytesArePlaces DEF Claims, Vacant, Over

LEMMA NowCovers == ASSUME NEW o PROVE Covers(Now(o), o) /\ \A w : Claims(Now(o), o, w)
BY BytesArePlaces DEF Covers, Claims, Now

LEMMA TouchSure ==
  ASSUME NEW D, NEW o, Covers(D, o), NEW w, NEW h \in Sure(D, o, w), NEW x \in Syms, x \in D,
         NEW i \in Bytes(x), NEW k, k = Touch(h, x, i)
  PROVE  /\ k \in Sure(D, o, w) /\ Grows(h, k)
         /\ k.home[<<x, i>>] \in Regs /\ Alone(h, k, <<x, i>>)
<1>1. h \in Firm(D, o) /\ h \in Kept(Byte, {}, o)
  BY SureIs, RightIs
<1>2. k \in Firm(D, o) /\ k.home[<<x, i>>] \in Regs /\ Alone(h, k, <<x, i>>)
  BY <1>1, TouchFirm
<1>3. i \in 0 .. MaxSize - 1
  BY BytesArePlaces
<1>4. Grows(h, k)
  BY <1>1, <1>3, TouchGrows
<1>5. ASSUME h.hit = {} PROVE k \in Right(Byte, D, o, w)
  <2>1. h \in Right(Byte, D, o, w)
    BY <1>5, SureIs
  <2> QED BY <1>3, <2>1, TouchRight
<1>6. k.hit = {} => h.hit = {}
  BY <1>4, GrowsHit
<1>7. k \in Sure(D, o, w)
  BY <1>2, <1>5, <1>6, SureStep
<1> QED BY <1>2, <1>4, <1>7

LEMMA ClearSure ==
  ASSUME NEW D, NEW o, NEW w, NEW h \in Sure(D, o, w), NEW r \in Regs, NEW k, k = clear(h, r)
  PROVE  /\ k \in Sure(D, o, w) /\ Grows(h, k) /\ k.reg = h.reg /\ (Clean(h) => Vacant(k, D, r))
         /\ \A c \in Places : k.home[c] = h.home[c] \/ k.home[c] = None
<1>1. h \in Firm(D, o) /\ h \in Right(Byte, {}, o, w)
  BY SureIs
<1>2. /\ k \in Firm(D, o) /\ Grows(h, k) /\ (Clean(h) => Vacant(k, D, r))
      /\ \A c \in Places : k.home[c] = h.home[c] \/ k.home[c] = None
  BY <1>1, ClearFirm
<1>3. k \in Right(Byte, {}, o, w)
  BY <1>1, ClearRight
<1>4. k.hit = {} => h.hit = {}
  BY <1>2, GrowsHit
<1>5. k \in Sure(D, o, w)
  BY <1>2, <1>3, <1>4, SureStep
<1>6. k.reg = h.reg
  <2>1. h \in Kept(Byte, {}, o)
    BY <1>1, RightIs
  <2> QED BY <2>1, ClearKeeps
<1> QED BY <1>2, <1>5, <1>6

LEMMA FrameSure ==
  ASSUME NEW D, NEW o, NEW w, NEW h \in Sure(D, o, w), NEW k \in Firm(D, o),
         k.home = h.home, k.reg = h.reg, k.at = h.at, k.ram = h.ram, k.hit = h.hit
  PROVE  k \in Sure(D, o, w)
<1>1. h \in Right(Byte, {}, o, w) /\ k \in Kept(Byte, {}, o)
  BY SureIs, FirmIs
<1>2. k \in Right(Byte, {}, o, w)
  BY <1>1, RightFrame
<1> QED BY <1>2, SureStep

LEMMA OccupySure ==
  ASSUME NEW D, NEW o, NEW w, NEW h \in Sure(D, o, w), NEW r \in Regs, Clean(h) => Vacant(h, D, r),
         NEW x \in Syms, NEW i \in 0 .. MaxSize - 1, NEW k, k = occupy(h, r, x, i)
  PROVE  k \in Sure(D, o, w) /\ k.home = h.home /\ k.hit = h.hit /\ k.reg = h.reg
<1>1. h \in Firm(D, o) /\ h \in Gens(Byte)
  BY SureIs, RightIs
<1>2. k \in Firm(D, o) /\ k.home = h.home /\ k.hit = h.hit
  BY <1>1, OccupyFirm
<1>3. k.reg = h.reg /\ k.at = h.at /\ k.ram = h.ram
  BY <1>1 DEF occupy, Gens
<1> QED BY <1>2, <1>3, FrameSure

(* Register r becomes the home of byte b, which means what is in it.       *)
LEMMA SettleSure ==
  ASSUME NEW D, NEW o, NEW w, NEW h \in Sure(D, o, w), NEW r \in Regs, Clean(h) => Vacant(h, D, r),
         NEW x \in Syms, NEW i \in Bytes(x), NEW k, k = Settled(h, r, x, i)
  PROVE  /\ k \in Sure(D, o, With(w, <<x, i>>, h.reg[r])) /\ k.hit = h.hit /\ k.reg = h.reg
<1> DEFINE b == <<x, i>>
<1>1. h \in Firm(D, o) /\ (Clean(h) => h \in Kept(Byte, D, o)) /\ i \in 0 .. MaxSize - 1
  BY SureIs, FirmIs, BytesArePlaces
<1>2. k \in Firm(D, o) /\ Gives(h, k, r, b) /\ k.hit = h.hit
  BY <1>1, SettleFirm
<1>3. ASSUME k.hit = {} PROVE Means(k, With(w, b, h.reg[r]))
  <2>1. h \in Right(Byte, D, o, w) /\ Vacant(h, D, r)
    BY <1>2, <1>3, SureIs DEF Clean
  <2>2. k \in Right(Byte, D, o, With(w, b, Junk))
    BY <1>1, <2>1, SettleRight
  <2>3. Means(k, With(w, b, Junk))
    BY <1>3, <2>2 DEF Right
  <2> SUFFICES ASSUME NEW c \in AllBytes, k.liveTo[c[1]] >= k.seq, With(w, b, h.reg[r])[c] # Junk
               PROVE  At(k, c) = With(w, b, h.reg[r])[c]
    BY DEF Means
  <2>4. CASE c = b
    <3>1. b \in Places /\ r # None
      BY <1>1, BytesArePlaces, RegsAssumption DEF Regs
    <3>2. k.home[b] = r /\ k.reg[r] = h.reg[r]
      BY <1>2, <3>1 DEF Gives
    <3> QED BY <2>4, <3>1, <3>2 DEF At, With
  <2>5. CASE c # b
    <3>1. With(w, b, Junk)[c] = w[c] /\ With(w, b, h.reg[r])[c] = w[c]
      BY <2>5 DEF With
    <3> QED BY <2>3, <3>1 DEF Means
  <2> QED BY <2>4, <2>5
<1>4. k.reg = h.reg
  BY <1>2 DEF Gives
<1> QED BY <1>2, <1>3, <1>4 DEF Sure

(* A hazard is marked, or not.                                             *)
LEMMA NoteSure ==
  ASSUME NEW D, NEW o, NEW w, NEW h \in Sure(D, o, w), NEW R \in Noted,
         NEW k, k = [h EXCEPT !.hit = h.hit \cup R]
  PROVE  k \in Sure(D, o, w) /\ Grows(h, k) /\ (k.hit = {} => k = h) /\ (R # {} => k.hit # {})
<1>1. h \in Firm(D, o) /\ h \in Gens(Byte)
  BY SureIs, RightIs
<1>2. h.hit \cup R \in Noted
  BY <1>1, NotedMore
<1>3. k \in Firm(D, o) /\ Grows(h, k)
  BY <1>1, <1>2, HitFirm
<1>4. k.hit = h.hit \cup R
  BY <1>1 DEF Gens
<1>5. k.hit = {} => k = h
  BY <1>1, <1>4 DEF Gens
<1> QED BY <1>3, <1>4, <1>5 DEF Sure

-----------------------------------------------------------------------------
(* Receive.                                                                *)
LEMMA ArrivalsSure ==
  ASSUME NEW o, NEW D, D = Now(o), NEW w, NEW r \in Nat, NEW h \in Sure(D, o, w), h \in Under(r),
         NEW x \in Syms, NEW c \in [Bytes(x) -> Byte], r + SizeOf[x] <= REG_CNT - 1
  PROVE  Arrivals(h, x, c, r, SizeOf[x]) \in Sure(D, o, Written(w, x, c, SizeOf[x]))
<1> DEFINE n == SizeOf[x]
           K == [j \in 0 .. n |-> Sure(D, o, Written(w, x, c, j)) \cap Under(r + j)]
<1>1. n \in Nat /\ n = SizeOf[x] /\ r + 0 = r
  BY RegsAssumption
<1>2. h \in K[0]
  <2>1. h \in Right(Byte, {}, o, w) /\ h \in Firm(D, o)
    BY SureIs
  <2>2. h \in Right(Byte, {}, o, Written(w, x, c, 0))
    BY <2>1, WrittenFirst
  <2>3. h \in Sure(D, o, Written(w, x, c, 0))
    BY <2>1, <2>2, SureStep
  <2> QED BY <1>1, <2>3
<1>3. ASSUME NEW i \in 0 .. n - 1, NEW k \in K[i] PROVE Arrived(k, x, c, r, i) \in K[i + 1]
  <2> DEFINE q == r + i
             w0 == Written(w, x, c, i)
             w1 == Written(w, x, c, i + 1)
             e == Emit(k, q, c[i])
             m == Settled(e, q, x, i)
  <2>1. /\ k \in Sure(D, o, w0) /\ k \in Under(q) /\ i \in Bytes(x) /\ q \in Regs /\ c[i] \in Byte
        /\ K[i + 1] = Sure(D, o, w1) \cap Under(q + 1) /\ i \in Nat
    <3>1. i \in Nat /\ i \in 0 .. n /\ i + 1 \in 0 .. n /\ i \in Bytes(x) /\ q \in Regs
      BY <1>1, RegsAssumption DEF Bytes, Regs
    <3>2. K[i] = Sure(D, o, w0) \cap Under(q) /\ r + (i + 1) = q + 1
      BY <3>1
    <3> QED BY <3>1, <3>2
  <2>2. Arrived(k, x, c, r, i) = m
    BY DEF Arrived
  <2>3. Within(o, w1, With(w0, <<x, i>>, c[i]))
    BY <2>1, WrittenNext
  <2> HIDE DEF K, q, w0, w1, e, m
  <2>4. k \in Firm(D, o)
    BY <2>1, SureIs
  <2>5. e \in Firm(D, o) /\ Vacant(k, D, q) /\ Vacant(e, D, q) /\ m \in Under(q + 1)
    BY <2>1, <2>4, ArrivedFirm DEF e, m
  <2>6. Over(o, k, w0, q, c[i])
    BY <2>5, NowCovers, VacantOver
  <2>7. e \in Sure(D, o, w0)
    BY <2>1, <2>6, EmitSure DEF e
  <2>8. e.reg[q] = c[i]
    <3>1. k \in Gens(Byte)
      BY <2>4, FirmIs DEF Kept
    <3> QED BY <2>1, <3>1 DEF e, Emit, Gens
  <2>9. m \in Sure(D, o, With(w0, <<x, i>>, c[i]))
    <3>1. m \in Sure(D, o, With(w0, <<x, i>>, e.reg[q]))
      BY <2>1, <2>5, <2>7, SettleSure DEF m
    <3> QED BY <2>8, <3>1
  <2>10. m \in Sure(D, o, w1)
    BY <2>3, <2>9, SureWeak
  <2> QED BY <2>1, <2>2, <2>5, <2>10
<1>4. K[n] = Sure(D, o, Written(w, x, c, n)) \cap Under(r + n)
  BY <1>1
<1> HIDE DEF K, n
<1>5. Arrivals(h, x, c, r, n) \in K[n]
  BY <1>1, <1>2, <1>3, ArrivalsReach
<1> QED BY <1>1, <1>4, <1>5

(* The state between two instructions, and after the next one.             *)
LEMMA NowSure ==
  ASSUME CallInv, Sound
  PROVE  g \in Sure(Now(g), g, val) /\ Covers(Now(g), g) /\ GenFirm
BY NowCovers DEF CallInv, GenFirm, Sound, Sure

LEMMA GenerateSure ==
  ASSUME NEW D, NEW W, NEW h \in Sure(D, g, W), Generate(h), Stands(W), GenFirm
  PROVE  Sound' /\ g'.hit = h.hit
<1>1. /\ h \in Gens(Byte) /\ h.liveTo = g.liveTo /\ h.seq = g.seq
      /\ (h.hit = {} => Means(h, W))
  BY SureIs, RightIs
<1>2. g' = [h EXCEPT !.seq = h.seq + 1]
  BY DEF Generate
<1>3. /\ g'.hit = h.hit /\ g'.home = h.home /\ g'.at = h.at /\ g'.reg = h.reg /\ g'.ram = h.ram
      /\ g'.liveTo = g.liveTo /\ g'.seq = g.seq + 1
  BY <1>1, <1>2 DEF Gens
<1>4. ASSUME h.hit = {}, NEW b \in AllBytes, g.liveTo[b[1]] >= g.seq + 1, val'[b] # Junk
      PROVE  At(h, b) = val'[b]
  <2>1. b[1] \in Syms
    BY BytesArePlaces
  <2>2. g.liveTo[b[1]] \in Nat /\ g.seq \in Nat
    BY <1>1, <2>1 DEF Gens
  <2>3. g.liveTo[b[1]] > g.seq /\ g.liveTo[b[1]] >= g.seq
    BY <1>4, <2>2
  <2>4. val'[b] = W[b]
    BY <1>4, <2>3 DEF Stands
  <2> QED BY <1>1, <1>4, <2>3, <2>4 DEF Means
<1>5. \A b \in AllBytes : At(g', b) = At(h, b)
  BY <1>3 DEF At
<1> QED BY <1>3, <1>4, <1>5 DEF Sound, Means

(* A literal, or a parameter, in all its bytes.                            *)
LEMMA WrittenStands ==
  ASSUME NEW x, NEW c, val' = Value(val, x, c)
  PROVE  Stands(Written(val, x, c, SizeOf[x]))
<1> SUFFICES ASSUME NEW b \in AllBytes PROVE val'[b] = Written(val, x, c, SizeOf[x])[b]
  BY DEF Stands
<1>1. b[1] = x => b[2] < SizeOf[x]
  BY BytesArePlaces, RegsAssumption DEF Bytes
<1> QED BY <1>1 DEF Value, Written

LEMMA ReceiveSure ==
  ASSUME CallInv, Sound, NEW x \in Syms, NEW c \in Literals(x), Receive(x, c)
  PROVE  Sound'
<1> DEFINE r == g.first - Size(params)
           h == Arrivals(g, x, c, r, SizeOf[x])
           D == Now(g)
           W == Written(val, x, c, SizeOf[x])
<1>1. /\ params # <<>> /\ x = Head(params) /\ Generate(h) /\ val' = Value(val, x, c)
  BY DEF Receive, Arrivals, Arrived, Settled, ForBytes
<1>2. g \in Sure(D, g, val) /\ GenFirm
  BY NowSure
<1>3. c \in [Bytes(x) -> Byte]
  BY <1>1, LiteralIn
<1>4. r \in Nat /\ r + SizeOf[x] <= REG_CNT - 1 /\ g \in Under(r)
  BY <1>1, ReceiveRoom
<1>5. h \in Sure(D, g, W)
  <2> HIDE DEF D, r
  <2>1. D = Now(g)
    BY DEF D
  <2> QED BY <1>2, <1>3, <1>4, <2>1, ArrivalsSure
<1>6. Stands(W)
  BY <1>1, WrittenStands
<1> HIDE DEF h, W, D
<1> QED BY <1>1, <1>2, <1>5, <1>6, GenerateSure

(* Assignments.                                                            *)
LEMMA AssignSure ==
  ASSUME CallInv, Sound, NEW x \in Syms, NEW y \in Syms, Assign(x, y)
  PROVE  Sound'
<1> DEFINE W == IF Dying(g, y) THEN Moved(val, x, y, SizeOf[y]) ELSE Copied(val, x, y, SizeOf[y])
           h == AssignCode(g, x, y)
           D == Now(g)
<1>1. /\ x # y /\ SizeOf[x] = SizeOf[y] /\ g.liveTo[y] >= g.seq /\ g.liveTo[x] >= g.seq
      /\ Generate(h) /\ val' = Value(val, x, BytesOf(y))
  BY DEF Assign, Readable, Writable
<1>2. /\ g \in Sure(D, g, val) /\ Covers(D, g) /\ GenFirm /\ x \in D /\ y \in D
      /\ g \in Firm(D, g)
  BY <1>1, NowSure DEF Now, GenFirm
<1>3. h \in Firm(D, g)
  BY <1>1, <1>2, AssignCodeFirm
<1>4. h \in Sure(D, g, W)
  <2>1. ASSUME h.hit = {} PROVE Means(h, W)
    <3>1. g.hit = {}
      BY <1>3, <2>1 DEF Firm
    <3>2. g \in Right(Byte, D, g, val)
      BY <1>2, <3>1, SureIs
    <3>3. h \in Right(Byte, D, g, W)
      BY <1>1, <1>2, <3>2, AssignCodeRight
    <3> QED BY <2>1, <3>3 DEF Right
  <2> QED BY <1>3, <2>1 DEF Sure
<1>5. Stands(W)
  <2> SUFFICES ASSUME NEW b \in AllBytes, g.liveTo[b[1]] > g.seq, val'[b] # Junk
               PROVE  val'[b] = W[b]
    BY DEF Stands
  <2>1. b[1] \in Syms /\ b[2] \in Bytes(b[1]) /\ b = <<b[1], b[2]>>
    BY BytesArePlaces
  <2>2. g.liveTo[b[1]] \in Nat /\ g.seq \in Nat
    BY <1>2, <2>1, FirmIs DEF Kept, Gens
  <2>3. CASE b[1] = x
    <3>1. b[2] \in Bytes(y) /\ b[2] < SizeOf[y]
      BY <1>1, <2>1, <2>3, RegsAssumption DEF Bytes
    <3>2. val'[b] = val[<<y, b[2]>>]
      BY <1>1, <2>3, <3>1 DEF Value, BytesOf
    <3> QED BY <2>3, <3>1, <3>2 DEF Moved, Copied
  <2>4. CASE b[1] # x
    <3>1. val'[b] = val[b]
      BY <1>1, <2>4 DEF Value
    <3>2. Dying(g, y) => b[1] # y
      BY <2>2 DEF Dying
    <3> QED BY <2>4, <3>1, <3>2 DEF Moved, Copied
  <2> QED BY <2>3, <2>4
<1> HIDE DEF W, h, D
<1> QED BY <1>1, <1>2, <1>4, <1>5, GenerateSure

LEMMA AssignLitSure ==
  ASSUME CallInv, Sound, NEW x \in Syms, NEW c \in Literals(x), AssignLit(x, c)
  PROVE  Sound'
<1> DEFINE W == Written(val, x, c, SizeOf[x])
           h == LoadLits(g, x, c, SizeOf[x])
           D == Now(g)
<1>1. Generate(h) /\ val' = Value(val, x, c) /\ g.liveTo[x] >= g.seq
  BY DEF AssignLit, LoadLits, ForBytes, Writable
<1>2. g \in Sure(D, g, val) /\ Covers(D, g) /\ GenFirm /\ x \in D /\ g \in Firm(D, g)
  BY <1>1, NowSure DEF Now, GenFirm
<1>3. c \in [Bytes(x) -> Byte]
  BY <1>1, LiteralIn
<1>4. h \in Firm(D, g)
  BY <1>2, <1>3, LoadLitsFirm
<1>5. h \in Sure(D, g, W)
  <2>1. ASSUME h.hit = {} PROVE Means(h, W)
    <3>1. g.hit = {}
      BY <1>4, <2>1 DEF Firm
    <3>2. g \in Right(Byte, D, g, val)
      BY <1>2, <3>1, SureIs
    <3>3. h \in Right(Byte, D, g, W)
      BY <1>2, <1>3, <3>2, LoadLitsRight
    <3> QED BY <2>1, <3>3 DEF Right
  <2> QED BY <1>4, <2>1 DEF Sure
<1>6. Stands(W)
  BY <1>1, WrittenStands
<1> HIDE DEF W, h, D
<1> QED BY <1>1, <1>2, <1>5, <1>6, GenerateSure

-----------------------------------------------------------------------------
(* Send.  In f, registers of the machine in k, the bytes of v before j are *)
(* in place from register b on, and below b nothing has changed since h,   *)
(* where they were e, unless a hazard was met.                             *)
Laid(h, k, e, f, b, j, v) ==
  k.hit = {} => /\ h.hit = {} /\ \A q \in 0 .. b - 1 : f[q] = e[q]
                /\ \A t \in 0 .. j - 1 : f[b + t] = v[t]

LEMMA LaidFirst ==
  ASSUME NEW h, NEW e, NEW b, NEW v
  PROVE  Laid(h, h, e, e, b, 0, v)
BY DEF Laid

LEMMA LaidNext ==
  ASSUME NEW h, NEW k, NEW e, NEW f, NEW b \in Nat, NEW j \in Nat, NEW v, Laid(h, k, e, f, b, j, v),
         NEW m, NEW d,
         m.hit = {} => k.hit = {} /\ d[b + j] = v[j] /\ \A q \in 0 .. (b + j) - 1 : d[q] = f[q]
  PROVE  Laid(h, m, e, d, b, j + 1, v)
<1> SUFFICES ASSUME m.hit = {}
             PROVE  /\ h.hit = {} /\ \A q \in 0 .. b - 1 : d[q] = e[q]
                    /\ \A t \in 0 .. (j + 1) - 1 : d[b + t] = v[t]
  BY DEF Laid
<1>1. /\ h.hit = {} /\ \A q \in 0 .. b - 1 : f[q] = e[q]
      /\ \A t \in 0 .. j - 1 : f[b + t] = v[t]
  BY DEF Laid
<1>2. \A q \in 0 .. b - 1 : d[q] = e[q]
  BY <1>1
<1>3. ASSUME NEW t \in 0 .. (j + 1) - 1 PROVE d[b + t] = v[t]
  <2>1. CASE t = j
    BY <2>1
  <2>2. CASE t # j
    <3>1. t \in 0 .. j - 1 /\ b + t \in 0 .. (b + j) - 1
      BY <2>2
    <3> QED BY <1>1, <3>1
  <2> QED BY <2>1, <2>2
<1> QED BY <1>1, <1>2, <1>3

LEMMA SendByteSure ==
  ASSUME NEW o, NEW D, D = Now(o), NEW w, NEW h \in Sure(D, o, w), NEW r \in Regs,
         NEW x \in Syms, x \in D, NEW i \in Bytes(x), w[<<x, i>>] # Junk,
         NEW m, m = SendByte(h, x, i, r)
  PROVE  /\ m \in Sure(D, o, w)
         /\ m.hit = {} => /\ h.hit = {} /\ m.reg[r] = w[<<x, i>>]
                          /\ \A q \in 0 .. r - 1 : m.reg[q] = h.reg[q]
<1> DEFINE b == <<x, i>>
           a == clear(h, r)
           e == occupy(a, r, x, i)
           k == Touch(e, x, i)
           u == k.reg[k.home[b]]
           n == Emit(k, r, u)
           R == {"argument evicted"}
           still == \A q \in 0 .. r - 1 : n.reg[q] = h.reg[q]
<1>0. b \in Places /\ b \in AllBytes /\ i \in 0 .. MaxSize - 1 /\ o.liveTo[x] >= o.seq /\ Covers(D, o)
  BY BytesArePlaces, NowCovers DEF Now
<1>1. m = IF still THEN n ELSE [n EXCEPT !.hit = n.hit \cup R]
  BY DEF SendByte
<1> HIDE DEF b
<1>2. a \in Sure(D, o, w) /\ Grows(h, a) /\ (Clean(h) => Vacant(a, D, r))
  BY ClearSure
<1>3. Clean(a) => Vacant(a, D, r)
  BY <1>2, GrowsClean
<1> HIDE DEF a
<1>4. e \in Sure(D, o, w) /\ e.home = a.home /\ e.hit = a.hit
  BY <1>0, <1>2, <1>3, OccupySure
<1> HIDE DEF e
<1>5. k \in Sure(D, o, w) /\ Grows(e, k) /\ k.home[b] \in Regs /\ Alone(e, k, b)
  BY <1>0, <1>4, TouchSure DEF b
<1> HIDE DEF k
<1>6. u \in Byte \cup {Junk}
  <2>1. k \in Firm(D, o)
    BY <1>5, SureIs
  <2> QED BY <1>5, <2>1, RegIn
<1>7. k.hit = {} => h.hit = {} /\ e.hit = {} /\ a.hit = {}
  BY <1>2, <1>4, <1>5 DEF Grows
<1>8. k.hit = {} => u = w[b]
  <2> SUFFICES ASSUME k.hit = {} PROVE u = w[b]
    OBVIOUS
  <2>1. Means(k, w) /\ k.liveTo = o.liveTo /\ k.seq = o.seq
    BY <1>5, SureIs
  <2>2. b[1] = x
    BY DEF b
  <2>3. At(k, b) = w[b]
    BY <1>0, <2>1, <2>2 DEF Means, b
  <2>4. k.home[b] # None
    BY <1>5, RegsAssumption DEF Regs
  <2> QED BY <2>3, <2>4 DEF At
<1>9. ASSUME k.hit = {} PROVE Over(o, k, w, r, u)
  <2> SUFFICES ASSUME NEW c \in AllBytes, o.liveTo[c[1]] >= o.seq, w[c] # Junk, k.home[c] = r
               PROVE  w[c] = u
    BY DEF Over
  <2>1. CASE c = b
    BY <1>8, <1>9, <2>1
  <2>2. CASE c # b
    <3>1. c \in Places /\ c[1] \in D /\ r # None
      BY NowCovers, BytesArePlaces, RegsAssumption DEF Claims, Regs
    <3>2. a.home[c] = r
      BY <1>4, <1>5, <2>2, <3>1 DEF Alone
    <3>3. Vacant(a, D, r)
      BY <1>3, <1>7, <1>9 DEF Clean
    <3> QED BY <3>1, <3>2, <3>3 DEF Vacant
  <2> QED BY <2>1, <2>2
<1> HIDE DEF u
<1>10. n \in Sure(D, o, w) /\ n.hit = k.hit
  BY <1>5, <1>6, <1>9, EmitSure
<1>11. n.reg[r] = u
  <2>1. k \in Gens(Byte)
    BY <1>5, SureIs, RightIs
  <2> QED BY <2>1 DEF Emit, Gens
<1> HIDE DEF n
<1>12. CASE still
  BY <1>1, <1>7, <1>8, <1>10, <1>11, <1>12 DEF b
<1>13. CASE ~still
  <2>1. R \in Noted /\ R # {}
    BY DEF Noted, Reasons
  <2>2. m = [n EXCEPT !.hit = n.hit \cup R]
    BY <1>1, <1>13
  <2> HIDE DEF still, R
  <2>3. m \in Sure(D, o, w) /\ m.hit # {}
    BY <1>10, <2>1, <2>2, NoteSure
  <2> QED BY <2>3
<1> QED BY <1>12, <1>13

LEMMA SendLitByteSure ==
  ASSUME NEW o, NEW D, D = Now(o), NEW w, NEW h \in Sure(D, o, w), NEW r \in Regs,
         NEW c, NEW i, c[i] \in Byte, NEW m, m = SendLitByte(h, c, i, r)
  PROVE  /\ m \in Sure(D, o, w)
         /\ m.hit = {} => /\ h.hit = {} /\ m.reg[r] = c[i]
                          /\ \A q \in 0 .. r - 1 : m.reg[q] = h.reg[q]
<1> DEFINE a == clear(h, r)
<1>1. m = Emit(a, r, c[i])
  BY DEF SendLitByte
<1>2. a \in Sure(D, o, w) /\ Grows(h, a) /\ (Clean(h) => Vacant(a, D, r)) /\ a.reg = h.reg
  BY ClearSure
<1> HIDE DEF a
<1>3. ASSUME a.hit = {} PROVE h.hit = {} /\ Over(o, a, w, r, c[i])
  <2>1. h.hit = {}
    BY <1>2, <1>3, GrowsHit
  <2>2. Vacant(a, D, r)
    BY <1>2, <2>1 DEF Clean
  <2> QED BY <2>1, <2>2, NowCovers, VacantOver
<1>4. m \in Sure(D, o, w) /\ m.hit = a.hit
  BY <1>1, <1>2, <1>3, EmitSure
<1>5. m.reg = [h.reg EXCEPT ![r] = c[i]] /\ h.reg \in [Regs -> Byte \cup {Junk}]
  <2>1. a \in Gens(Byte) /\ h \in Gens(Byte)
    BY <1>2, SureIs, RightIs
  <2> QED BY <1>1, <1>2, <2>1 DEF Emit, Gens
<1>6. m.reg[r] = c[i] /\ \A q \in 0 .. r - 1 : m.reg[q] = h.reg[q]
  BY <1>5, RegsAssumption DEF Regs
<1> QED BY <1>3, <1>4, <1>6

-----------------------------------------------------------------------------
(* The bytes of an argument, from register b on.                           *)
LEMMA SendsSure ==
  ASSUME NEW o, NEW D, D = Now(o), NEW w, NEW h \in Sure(D, o, w), NEW x \in Syms, x \in D,
         NEW v, \A i \in Bytes(x) : v[i] = w[<<x, i>>] /\ v[i] \in Byte,
         NEW b \in Nat, b + SizeOf[x] <= REG_CNT - 1, NEW m, m = Sends(h, x, b, SizeOf[x])
  PROVE  m \in Sure(D, o, w) /\ Laid(h, m, h.reg, m.reg, b, SizeOf[x], v)
<1> DEFINE n == SizeOf[x]
           K == [j \in 0 .. n |-> {k \in Sure(D, o, w) : Laid(h, k, h.reg, k.reg, b, j, v)}]
<1>1. n \in Nat /\ n = SizeOf[x]
  BY RegsAssumption
<1>2. h \in K[0]
  BY <1>1, LaidFirst
<1>3. ASSUME NEW i \in 0 .. n - 1, NEW k \in K[i] PROVE SendByte(k, x, i, b + i) \in K[i + 1]
  <2> DEFINE q == b + i
             u == SendByte(k, x, i, q)
  <2>1. /\ k \in Sure(D, o, w) /\ Laid(h, k, h.reg, k.reg, b, i, v) /\ i \in Bytes(x) /\ q \in Regs
        /\ K[i + 1] = {a \in Sure(D, o, w) : Laid(h, a, h.reg, a.reg, b, i + 1, v)} /\ i \in Nat
    <3>1. i \in Nat /\ i \in 0 .. n /\ i + 1 \in 0 .. n /\ i \in Bytes(x) /\ q \in Regs
      BY <1>1, RegsAssumption DEF Bytes, Regs
    <3>2. K[i] = {a \in Sure(D, o, w) : Laid(h, a, h.reg, a.reg, b, i, v)}
      BY <3>1
    <3> QED BY <3>1, <3>2
  <2>2. w[<<x, i>>] = v[i] /\ w[<<x, i>>] # Junk
    BY <2>1, RegsAssumption DEF Byte
  <2> HIDE DEF K, u
  <2>3. /\ u \in Sure(D, o, w)
        /\ u.hit = {} => k.hit = {} /\ u.reg[q] = v[i] /\ \A t \in 0 .. q - 1 : u.reg[t] = k.reg[t]
    <3> HIDE DEF q
    <3>1. /\ u \in Sure(D, o, w)
          /\ u.hit = {} => /\ k.hit = {} /\ u.reg[q] = w[<<x, i>>]
                           /\ \A t \in 0 .. q - 1 : u.reg[t] = k.reg[t]
      BY <2>1, <2>2, SendByteSure DEF u
    <3> QED BY <2>2, <3>1
  <2>4. Laid(h, u, h.reg, u.reg, b, i + 1, v)
    <3> DEFINE e == h.reg
               f == k.reg
               d == u.reg
    <3>1. /\ Laid(h, k, e, f, b, i, v)
          /\ u.hit = {} => k.hit = {} /\ d[b + i] = v[i] /\ \A t \in 0 .. (b + i) - 1 : d[t] = f[t]
      BY <2>1, <2>3
    <3> HIDE DEF e, f, d
    <3>2. Laid(h, u, e, d, b, i + 1, v)
      BY <2>1, <3>1, LaidNext
    <3> QED BY <3>2 DEF e, d
  <2> QED BY <2>1, <2>3, <2>4 DEF u
<1>4. K[n] = {a \in Sure(D, o, w) : Laid(h, a, h.reg, a.reg, b, n, v)}
  BY <1>1
<1> HIDE DEF K, n
<1>5. Sends(h, x, b, n) \in K[n]
  BY <1>1, <1>2, <1>3, SendsReach
<1> QED BY <1>1, <1>4, <1>5

LEMMA SendLitsSure ==
  ASSUME NEW o, NEW D, D = Now(o), NEW w, NEW h \in Sure(D, o, w), NEW v \in Parcels,
         NEW b \in Nat, b + Length(v) <= REG_CNT - 1, NEW m, m = SendLits(h, v, b, Length(v))
  PROVE  m \in Sure(D, o, w) /\ Laid(h, m, h.reg, m.reg, b, Length(v), v)
<1> DEFINE n == Length(v)
           K == [j \in 0 .. n |-> {k \in Sure(D, o, w) : Laid(h, k, h.reg, k.reg, b, j, v)}]
<1>1. n \in Nat /\ n = Length(v) /\ \A i \in 0 .. n - 1 : v[i] \in Byte
  BY ParcelIs, RegsAssumption
<1>2. h \in K[0]
  BY <1>1, LaidFirst
<1>3. ASSUME NEW i \in 0 .. n - 1, NEW k \in K[i] PROVE SendLitByte(k, v, i, b + i) \in K[i + 1]
  <2> DEFINE q == b + i
             u == SendLitByte(k, v, i, q)
  <2>1. /\ k \in Sure(D, o, w) /\ Laid(h, k, h.reg, k.reg, b, i, v) /\ q \in Regs
        /\ K[i + 1] = {a \in Sure(D, o, w) : Laid(h, a, h.reg, a.reg, b, i + 1, v)} /\ i \in Nat
        /\ v[i] \in Byte
    <3>1. i \in Nat /\ i \in 0 .. n /\ i + 1 \in 0 .. n /\ q \in Regs
      BY <1>1, RegsAssumption DEF Regs
    <3>2. K[i] = {a \in Sure(D, o, w) : Laid(h, a, h.reg, a.reg, b, i, v)}
      BY <3>1
    <3> QED BY <1>1, <3>1, <3>2
  <2> HIDE DEF K, u
  <2>2. /\ u \in Sure(D, o, w)
        /\ u.hit = {} => k.hit = {} /\ u.reg[q] = v[i] /\ \A t \in 0 .. q - 1 : u.reg[t] = k.reg[t]
    <3> HIDE DEF q
    <3> QED BY <2>1, SendLitByteSure DEF u
  <2>3. Laid(h, u, h.reg, u.reg, b, i + 1, v)
    <3> DEFINE e == h.reg
               f == k.reg
               d == u.reg
    <3>1. /\ Laid(h, k, e, f, b, i, v)
          /\ u.hit = {} => k.hit = {} /\ d[b + i] = v[i] /\ \A t \in 0 .. (b + i) - 1 : d[t] = f[t]
      BY <2>1, <2>2
    <3> HIDE DEF e, f, d
    <3>2. Laid(h, u, e, d, b, i + 1, v)
      BY <2>1, <3>1, LaidNext
    <3> QED BY <3>2 DEF e, d
  <2> QED BY <2>1, <2>2, <2>3 DEF u
<1>4. K[n] = {a \in Sure(D, o, w) : Laid(h, a, h.reg, a.reg, b, n, v)}
  BY <1>1
<1> HIDE DEF K, n
<1>5. SendLits(h, v, b, n) \in K[n]
  BY <1>1, <1>2, <1>3, SendLitsReach
<1> QED BY <1>1, <1>4, <1>5

(* ... and in main in the other bank.                                      *)
LEMMA StarByteSure ==
  ASSUME NEW o, NEW D, D = Now(o), NEW w, NEW p \in Sure(D, o, w) \X OtherRegs,
         NEW x \in Syms, x \in D, NEW i \in Bytes(x), w[<<x, i>>] # Junk,
         NEW b \in Nat, b + i \in Regs, NEW u, u = StarByte(p, x, i, b)
  PROVE  /\ u \in Sure(D, o, w) \X OtherRegs
         /\ u[1].hit = {} => /\ p[1].hit = {} /\ u[2][b + i] = w[<<x, i>>]
                             /\ \A q \in Regs : q # b + i => u[2][q] = p[2][q]
<1> DEFINE c == <<x, i>>
           h == p[1]
           m == Touch(h, x, i)
           v == m.reg[m.home[c]]
           e == [p[2] EXCEPT ![b + i] = v]
<1>0. c \in AllBytes /\ o.liveTo[x] >= o.seq /\ Covers(D, o)
  BY BytesArePlaces, NowCovers DEF Now
<1>1. h \in Sure(D, o, w) /\ p[2] \in OtherRegs /\ u = <<m, e>>
  BY DEF StarByte
<1> HIDE DEF h
<1>2. m \in Sure(D, o, w) /\ Grows(h, m) /\ m.home[c] \in Regs
  BY <1>0, <1>1, TouchSure
<1> HIDE DEF m
<1>3. v \in Byte \cup {Junk}
  <2>1. m \in Firm(D, o)
    BY <1>2, SureIs
  <2> HIDE DEF c
  <2> QED BY <1>2, <2>1, RegIn
<1>4. m.hit = {} => v = w[c] /\ h.hit = {}
  <2> SUFFICES ASSUME m.hit = {} PROVE v = w[c] /\ h.hit = {}
    OBVIOUS
  <2>1. Means(m, w) /\ m.liveTo = o.liveTo /\ m.seq = o.seq
    BY <1>2, SureIs
  <2>2. At(m, c) = w[c]
    BY <1>0, <2>1 DEF Means
  <2>3. m.home[c] # None
    BY <1>2, RegsAssumption DEF Regs
  <2> QED BY <1>2, <2>2, <2>3, GrowsHit DEF At
<1> HIDE DEF v
<1>5. e \in OtherRegs /\ e[b + i] = v /\ \A q \in Regs : q # b + i => e[q] = p[2][q]
  BY <1>1, <1>3 DEF OtherRegs
<1> HIDE DEF e
<1> QED BY <1>1, <1>2, <1>4, <1>5 DEF h

-----------------------------------------------------------------------------
(* A byte is fetched into register r.                                      *)
LEMMA FetchOver ==
  ASSUME NEW V, NEW D, NEW o, NEW w, NEW h \in Right(V, D, o, w), NEW y \in Syms,
         NEW j \in 0 .. MaxSize - 1, h.at[y] # None, NEW r \in Regs, NEW c, c = h.at[y] + j,
         h.hit = {} => Over(o, h, w, r, h.ram[c]), NEW k, k = fetchVariable(h, y, j, r)
  PROVE  /\ k \in Right(V, D, o, w) /\ k.hit = h.hit /\ k.home = h.home /\ k.bank = h.bank
         /\ k.at = h.at /\ k.reg = [h.reg EXCEPT ![r] = h.ram[c]]
<1> DEFINE e == c # h.offset \/ j > 0
           q == MoveSP(h, c, e)
           v == h.ram[c]
<1>0. h \in Kept(V, D, o) /\ h \in Gens(V) /\ Framed(h)
  BY RightIs
<1>1. c \in Cells /\ e \in BOOLEAN /\ k = [q EXCEPT !.reg[r] = v]
  BY <1>0, CellIn DEF fetchVariable
<1> HIDE DEF e
<1>2. q \in Right(V, D, o, w)
  BY <1>1, MoveSPRight
<1>3. /\ q.home = h.home /\ q.bank = h.bank /\ q.at = h.at /\ q.hit = h.hit /\ q.reg = h.reg
      /\ q \in Kept(V, D, o)
  BY <1>0, <1>1, MoveSPKeeps
<1>4. v \in V \cup {Junk}
  BY <1>0, <1>1 DEF Gens
<1> HIDE DEF q, v
<1>5. q.hit = {} => Over(o, q, w, r, v)
  BY <1>3 DEF Over, v
<1>6. k = Emit(q, r, v)
  BY <1>1 DEF Emit
<1>7. k \in Right(V, D, o, w)
  BY <1>2, <1>4, <1>5, <1>6, OverRight
<1>8. /\ k.hit = q.hit /\ k.home = q.home /\ k.bank = q.bank /\ k.at = q.at
      /\ k.reg = [q.reg EXCEPT ![r] = v]
  BY <1>1, <1>3 DEF Kept, Gens
<1> QED BY <1>3, <1>7, <1>8 DEF v

(* The register the iTemp of the literals is given held nothing of w, and  *)
(* the one it had neither, unless another symbol has taken it.             *)
LEMMA StarTouchSure ==
  ASSUME NEW o, NEW D, D = Now(o), starSym \notin D, NEW w, NEW h \in Sure(D, o, w),
         NEW i \in 0 .. MaxSize - 1, NEW b, b = <<starSym, i>>, NEW k, k = Touch(h, starSym, i)
  PROVE  /\ k \in Sure(D, o, w) /\ k.home[b] \in Regs /\ Grows(h, k) /\ (h.home[b] # None => k = h)
         /\ k.hit = {} /\ (h.home[b] # None => h.bank[h.home[b]] = None) =>
            Vacant(k, D, k.home[b])
<1> DEFINE a == Allocate(h, starSym, i)
           t == k.home[b]
           c == a.at[starSym] + i
<1>0. /\ starSym \in Syms /\ b \in Places /\ b[1] = starSym /\ h \in Kept(Byte, {}, o) /\ h \in Firm(D, o)
      /\ h \in Right(Byte, {}, o, w)
  BY BytesArePlaces, CallAssumption, SureIs, RightIs
<1>1. k \in Kept(Byte, {}, o) /\ t \in Regs /\ Alone(h, k, b) /\ Grows(h, k) /\ (h.home[b] # None => k = h)
  <2>1. k \in Kept(Byte, {}, o) /\ k.home[b] \in Regs /\ Alone(h, k, b) /\ (h.home[b] # None => k = h)
    BY <1>0, TouchKeeps DEF Alone
  <2>2. Grows(h, k)
    BY <1>0, TouchGrows
  <2> QED BY <2>1, <2>2
<1>2. k \in Firm(D, o)
  <2>1. Clean(h) => k \in Kept(Byte, D, o)
    <3> SUFFICES ASSUME Clean(h) PROVE k \in Kept(Byte, D, o)
      OBVIOUS
    <3>1. h \in Kept(Byte, D, o)
      BY <1>0, FirmIs
    <3> QED BY <1>0, <3>1, TouchKeeps
  <2>2. Fitting(k)
    BY <1>0, <1>1 DEF Firm, Fitting, Alone
  <2> QED BY <1>0, <1>1, <2>1, <2>2, FirmStep
<1>3. h.home[b] = None => k.bank[t] = b
  BY <1>0, TouchNames
<1>4. ASSUME k.hit = {}, h.home[b] # None => h.bank[h.home[b]] = None PROVE Vacant(k, D, t)
  <2> SUFFICES ASSUME NEW d \in Places, d[1] \in D, k.home[d] = t PROVE FALSE
    BY DEF Vacant
  <2>1. k \in Kept(Byte, D, o)
    BY <1>2, <1>4, FirmIs DEF Clean
  <2>2. k.bank[t] = d
    BY <1>1, <2>1, RegsAssumption DEF Kept, Backed, Regs
  <2>3. CASE h.home[b] = None
    BY <1>0, <1>3, <2>2, <2>3
  <2>4. CASE h.home[b] # None
    BY <1>1, <1>4, <2>2, <2>4, RegsAssumption DEF Places
  <2> QED BY <2>3, <2>4
<1>5. ASSUME h.home[b] = None, h.hit = {} PROVE k \in Right(Byte, {}, o, w)
  <2>1. k = IF a.at[starSym] # None THEN fetchVariable(a, starSym, i, a.home[b]) ELSE a
    BY <1>5 DEF Touch
  <2>2. /\ a \in Right(Byte, {}, o, With(w, b, Junk)) /\ a \in Kept(Byte, {}, o)
        /\ a.home[b] \in Regs
    <3>1. a \in Right(Byte, {}, o, With(w, <<starSym, i>>, Junk))
      BY <1>0, AllocateRight
    <3>2. a \in Kept(Byte, {}, o) /\ a.home[<<starSym, i>>] \in Regs
      BY <1>0, AllocateKeeps
    <3> QED BY <3>1, <3>2
  <2>3. Within(o, w, With(w, b, Junk))
    <3>1. ~(o.liveTo[starSym] >= o.seq)
      BY <1>0 DEF Now
    <3> QED BY <1>0, <3>1 DEF Within, With
  <2> HIDE DEF a
  <2>4. a \in Right(Byte, {}, o, w)
    BY <2>2, <2>3, RightWeak
  <2>5. a.hit = {} => Over(o, a, w, a.home[b], a.ram[c])
    <3> SUFFICES ASSUME a.hit = {}, NEW d \in AllBytes, o.liveTo[d[1]] >= o.seq, a.home[d] = a.home[b]
                 PROVE  FALSE
      BY DEF Over
    <3>1. h \in Kept(Byte, D, o)
      BY <1>0, <1>5, FirmIs DEF Clean
    <3>2. a \in Kept(Byte, D, o)
      BY <1>0, <3>1, AllocateKeeps DEF a
    <3>3. d \in Places /\ d[1] \in D
      <4>1. d \in Places /\ d[1] \in Syms
        BY BytesArePlaces
      <4> QED BY <4>1, NowCovers DEF Covers
    <3>4. a.bank[a.home[b]] = d
      BY <2>2, <3>2, <3>3, RegsAssumption DEF Kept, Backed, Regs
    <3>5. a.bank[a.home[b]] = b
      <4> DEFINE z == clear(h, Victim(h))
      <4>1. Victim(h) \in Regs
        BY <1>0, VictimIn DEF Kept
      <4>2. a = [occupy(z, Victim(h), starSym, i) EXCEPT !.home[b] = Victim(h)]
        BY DEF Allocate, a
      <4>3. z \in Kept(Byte, {}, o)
        BY <1>0, <4>1, ClearKeeps
      <4> HIDE DEF z
      <4> QED BY <1>0, <4>1, <4>2, <4>3 DEF occupy, Kept, Gens
    <3> QED BY <1>0, <3>3, <3>4, <3>5
  <2>6. CASE a.at[starSym] = None
    BY <2>1, <2>4, <2>6
  <2>7. CASE a.at[starSym] # None
    <3>1. k = fetchVariable(a, starSym, i, a.home[b])
      BY <2>1, <2>7
    <3> DEFINE r == a.home[b]
    <3> HIDE DEF r, c
    <3>2. /\ c = a.at[starSym] + i /\ r \in Regs /\ k = fetchVariable(a, starSym, i, r)
          /\ a.hit = {} => Over(o, a, w, r, a.ram[c])
      BY <2>2, <2>5, <3>1 DEF r, c
    <3>3. starSym \in Syms /\ a.at[starSym] # None
      BY <1>0, <2>7
    <3>4. /\ k \in Right(Byte, {}, o, w) /\ k.hit = a.hit /\ k.home = a.home /\ k.bank = a.bank
          /\ k.at = a.at /\ k.reg = [a.reg EXCEPT ![r] = a.ram[c]]
      BY <2>4, <3>2, <3>3, FetchOver
    <3> QED BY <3>4
  <2> QED BY <2>6, <2>7
<1>6. k \in Sure(D, o, w)
  <2>1. k.hit = {} => h.hit = {}
    BY <1>1, GrowsHit
  <2>2. h.hit = {} => k \in Right(Byte, {}, o, w)
    BY <1>0, <1>1, <1>5
  <2> QED BY <1>2, <2>1, <2>2, SureStep
<1> QED BY <1>1, <1>4, <1>6

-----------------------------------------------------------------------------
(* One byte more is laid when register b + j gets v[j] and nothing below   *)
(* it changes.  A pair is a state and the registers the bytes are laid in. *)
LEMMA LaidMore ==
  ASSUME NEW p, NEW k, NEW u, NEW b \in Nat, NEW j \in Nat, NEW v,
         Laid(p[1], k[1], p[2], k[2], b, j, v),
         u[1].hit = {} => /\ k[1].hit = {} /\ u[2][b + j] = v[j]
                          /\ \A t \in 0 .. (b + j) - 1 : u[2][t] = k[2][t]
  PROVE  Laid(p[1], u[1], p[2], u[2], b, j + 1, v)
<1> SUFFICES ASSUME u[1].hit = {}
             PROVE  /\ p[1].hit = {} /\ \A q \in 0 .. b - 1 : u[2][q] = p[2][q]
                    /\ \A t \in 0 .. (j + 1) - 1 : u[2][b + t] = v[t]
  BY DEF Laid
<1>1. /\ p[1].hit = {} /\ \A q \in 0 .. b - 1 : k[2][q] = p[2][q]
      /\ \A t \in 0 .. j - 1 : k[2][b + t] = v[t]
  BY DEF Laid
<1>2. ASSUME NEW q \in 0 .. b - 1 PROVE u[2][q] = p[2][q]
  <2>1. q \in 0 .. (b + j) - 1
    OBVIOUS
  <2> QED BY <1>1, <2>1
<1>3. ASSUME NEW t \in 0 .. (j + 1) - 1 PROVE u[2][b + t] = v[t]
  <2>1. CASE t = j
    BY <2>1
  <2>2. CASE t # j
    <3>1. t \in 0 .. j - 1 /\ b + t \in 0 .. (b + j) - 1
      BY <2>2
    <3> QED BY <1>1, <3>1
  <2> QED BY <2>1, <2>2
<1> QED BY <1>1, <1>2, <1>3

(* The iTemp the literals sent in main go through is never read.           *)
LEMMA StarLitSure ==
  ASSUME NEW o, NEW D, D = Now(o), starSym \notin D, NEW w, NEW p \in Sure(D, o, w) \X OtherRegs,
         NEW c, NEW i \in 0 .. MaxSize - 1, c[i] \in Byte, NEW r,
         NEW u, u = StarLitByte(p, c, i, r)
  PROVE  /\ u[1] \in Sure(D, o, w) /\ (u[1].hit = {} => p[1].hit = {})
         /\ u = <<u[1], [p[2] EXCEPT ![r + i] = c[i]]>>
<1> DEFINE h == p[1]
           e == p[2]
           b == <<starSym, i>>
           s == h.home[b]
           k == Touch(h, starSym, i)
           t == k.home[b]
           v == c[i]
           m == Emit(k, t, v)
           H == IF s # None /\ h.bank[s] # None THEN m.hit \cup {"star register reused"} ELSE m.hit
           z == [m EXCEPT !.bank[m.home[b]] = None, !.hit = H]
           q == [e EXCEPT ![r + i] = v]
<1>a. h \in Sure(D, o, w) /\ e \in OtherRegs /\ p = <<h, e>>
  OBVIOUS
<1>0. starSym \in Syms /\ b \in Places /\ h \in Firm(D, o) /\ h \in Right(Byte, {}, o, w) /\ v \in Byte
  BY <1>a, BytesArePlaces, CallAssumption, SureIs
<1>1. u = <<z, q>>
  BY DEF StarLitByte, LoadLit
<1>2. z \in Firm(D, o)
  <2>1. p \in Firm(D, o) \X OtherRegs
    BY <1>0, <1>a
  <2>2. u \in Firm(D, o) \X OtherRegs
    BY <2>1, StarLitByteFirm
  <2> HIDE DEF z, q
  <2> QED BY <1>1, <2>2
<1>3. /\ k \in Sure(D, o, w) /\ t \in Regs /\ Grows(h, k)
      /\ k.hit = {} /\ (s # None => h.bank[s] = None) => Vacant(k, D, t)
  BY <1>a, StarTouchSure
<1>4. k \in Right(Byte, {}, o, w) /\ k \in Kept(Byte, {}, o) /\ k \in Gens(Byte)
  BY <1>3, SureIs, RightIs
<1>5. m.hit = k.hit /\ m.home = k.home /\ m.at = k.at /\ m.ram = k.ram
  BY <1>3, <1>4 DEF Emit, Gens
<1>6. z.hit = H /\ z.home = m.home /\ z.at = m.at /\ z.ram = m.ram /\ z.reg = m.reg
  BY <1>4 DEF Emit, Gens
<1>7. ASSUME z.hit = {} PROVE h.hit = {} /\ k.hit = {} /\ Vacant(k, D, t)
  <2>0. H = {}
    BY <1>6, <1>7
  <2> HIDE DEF m
  <2>1. m.hit = {} /\ ~(s # None /\ h.bank[s] # None)
    BY <2>0
  <2> QED BY <1>3, <1>5, <2>1, GrowsHit
<1>8. ASSUME z.hit = {} PROVE z \in Right(Byte, {}, o, w)
  <2>1. Over(o, k, w, t, v)
    BY <1>7, <1>8, NowCovers, VacantOver
  <2> HIDE DEF k, t, v
  <2>2. m \in Right(Byte, {}, o, w)
    BY <1>0, <1>3, <1>4, <2>1, OverRight
  <2>3. z \in Kept(Byte, {}, o)
    BY <1>2, FirmIs
  <2>4. z.hit = m.hit
    <3>1. m.hit = {}
      BY <1>5, <1>7, <1>8
    <3> QED BY <1>8, <3>1
  <2> HIDE DEF m, z
  <2> QED BY <1>6, <2>2, <2>3, <2>4, RightFrame
<1>9. z \in Sure(D, o, w)
  <2> HIDE DEF z
  <2>1. z.hit = {} => Means(z, w)
    BY <1>8 DEF Right
  <2> QED BY <1>2, <2>1 DEF Sure
<1>10. z.hit = {} => h.hit = {}
  BY <1>7
<1> HIDE DEF z
<1> QED BY <1>1, <1>9, <1>10

LEMMA StarLitByteSure ==
  ASSUME NEW o, NEW D, D = Now(o), starSym \notin D, NEW w, NEW p \in Sure(D, o, w) \X OtherRegs,
         NEW c, NEW i \in 0 .. MaxSize - 1, c[i] \in Byte, NEW b \in Nat, b + i \in Regs,
         NEW u, u = StarLitByte(p, c, i, b)
  PROVE  /\ u \in Sure(D, o, w) \X OtherRegs
         /\ u[1].hit = {} => /\ p[1].hit = {} /\ u[2][b + i] = c[i]
                             /\ \A q \in Regs : q # b + i => u[2][q] = p[2][q]
<1> DEFINE v == c[i]
           d == [p[2] EXCEPT ![b + i] = v]
<1>1. u[1] \in Sure(D, o, w) /\ (u[1].hit = {} => p[1].hit = {}) /\ u = <<u[1], d>>
  BY StarLitSure
<1>2. d \in OtherRegs /\ d[b + i] = v /\ \A q \in Regs : q # b + i => d[q] = p[2][q]
  BY DEF OtherRegs
<1> HIDE DEF d, v
<1>3. u[2] = d
  BY <1>1
<1> QED BY <1>1, <1>2, <1>3 DEF v

LEMMA StarsSure ==
  ASSUME NEW o, NEW D, D = Now(o), NEW w, NEW p \in Sure(D, o, w) \X OtherRegs,
         NEW x \in Syms, x \in D, NEW v, \A i \in Bytes(x) : v[i] = w[<<x, i>>] /\ v[i] \in Byte,
         NEW b \in Nat, b + SizeOf[x] <= REG_CNT - 1, NEW m, m = Stars(p, x, b, SizeOf[x])
  PROVE  m \in Sure(D, o, w) \X OtherRegs /\ Laid(p[1], m[1], p[2], m[2], b, SizeOf[x], v)
<1> DEFINE n == SizeOf[x]
           L(k, j) == Laid(p[1], k[1], p[2], k[2], b, j, v)
           K == [j \in 0 .. n |-> {k \in Sure(D, o, w) \X OtherRegs : L(k, j)}]
<1>1. n \in Nat /\ n = SizeOf[x]
  BY RegsAssumption
<1>2. p \in K[0]
  BY <1>1, LaidFirst
<1>3. ASSUME NEW i \in 0 .. n - 1, NEW k \in K[i] PROVE StarByte(k, x, i, b) \in K[i + 1]
  <2> DEFINE q == b + i
             u == StarByte(k, x, i, b)
             S == Sure(D, o, w) \X OtherRegs
  <2>1. /\ k \in S /\ L(k, i) /\ i \in Bytes(x) /\ q \in Regs
        /\ K[i + 1] = {a \in S : L(a, i + 1)} /\ i \in Nat
    <3>1. i \in Nat /\ i \in 0 .. n /\ i + 1 \in 0 .. n /\ i \in Bytes(x) /\ q \in Regs
      BY <1>1, RegsAssumption DEF Bytes, Regs
    <3>2. K[i] = {a \in S : L(a, i)}
      BY <3>1
    <3> QED BY <3>1, <3>2
  <2>2. w[<<x, i>>] = v[i] /\ w[<<x, i>>] # Junk
    BY <2>1, RegsAssumption DEF Byte
  <2> HIDE DEF K, u
  <2>3. /\ u \in S
        /\ u[1].hit = {} => /\ k[1].hit = {} /\ u[2][b + i] = w[<<x, i>>]
                            /\ \A t \in Regs : t # b + i => u[2][t] = k[2][t]
    BY <2>1, <2>2, StarByteSure DEF u
  <2>4. L(u, i + 1)
    <3>1. /\ Laid(p[1], k[1], p[2], k[2], b, i, v)
          /\ u[1].hit = {} => /\ k[1].hit = {} /\ u[2][b + i] = v[i]
                              /\ \A t \in 0 .. (b + i) - 1 : u[2][t] = k[2][t]
      BY <2>1, <2>2, <2>3, RegsAssumption DEF Regs
    <3>2. b \in Nat /\ i \in Nat
      BY <2>1
    <3> QED BY <3>1, <3>2, LaidMore
  <2> QED BY <2>1, <2>3, <2>4 DEF u
<1>4. K[n] = {a \in Sure(D, o, w) \X OtherRegs : L(a, n)}
  BY <1>1
<1> HIDE DEF K, n
<1>5. Stars(p, x, b, n) \in K[n]
  BY <1>1, <1>2, <1>3, StarsReach
<1> QED BY <1>1, <1>4, <1>5

LEMMA StarLitsSure ==
  ASSUME NEW o, NEW D, D = Now(o), starSym \notin D, NEW w, NEW p \in Sure(D, o, w) \X OtherRegs,
         NEW v \in Parcels, NEW b \in Nat, b + Length(v) <= REG_CNT - 1,
         NEW m, m = StarLits(p, v, b, Length(v))
  PROVE  m \in Sure(D, o, w) \X OtherRegs /\ Laid(p[1], m[1], p[2], m[2], b, Length(v), v)
<1> DEFINE n == Length(v)
           L(k, j) == Laid(p[1], k[1], p[2], k[2], b, j, v)
           K == [j \in 0 .. n |-> {k \in Sure(D, o, w) \X OtherRegs : L(k, j)}]
<1>1. n \in Nat /\ n = Length(v) /\ n <= MaxSize /\ \A i \in 0 .. n - 1 : v[i] \in Byte
  BY ParcelIs, RegsAssumption
<1>2. p \in K[0]
  BY <1>1, LaidFirst
<1>3. ASSUME NEW i \in 0 .. n - 1, NEW k \in K[i] PROVE StarLitByte(k, v, i, b) \in K[i + 1]
  <2> DEFINE q == b + i
             u == StarLitByte(k, v, i, b)
             S == Sure(D, o, w) \X OtherRegs
  <2>1. /\ k \in S /\ L(k, i) /\ i \in 0 .. MaxSize - 1 /\ q \in Regs /\ v[i] \in Byte
        /\ K[i + 1] = {a \in S : L(a, i + 1)} /\ i \in Nat
    <3>1. i \in Nat /\ i \in 0 .. n /\ i + 1 \in 0 .. n /\ q \in Regs /\ i \in 0 .. MaxSize - 1
      BY <1>1, RegsAssumption DEF Regs
    <3>2. K[i] = {a \in S : L(a, i)}
      BY <3>1
    <3> QED BY <1>1, <3>1, <3>2
  <2> HIDE DEF K, u
  <2>3. /\ u \in S
        /\ u[1].hit = {} => /\ k[1].hit = {} /\ u[2][b + i] = v[i]
                            /\ \A t \in Regs : t # b + i => u[2][t] = k[2][t]
    BY <2>1, StarLitByteSure DEF u
  <2>4. L(u, i + 1)
    <3>1. /\ Laid(p[1], k[1], p[2], k[2], b, i, v)
          /\ u[1].hit = {} => /\ k[1].hit = {} /\ u[2][b + i] = v[i]
                              /\ \A t \in 0 .. (b + i) - 1 : u[2][t] = k[2][t]
      BY <2>1, <2>3, RegsAssumption DEF Regs
    <3>2. b \in Nat /\ i \in Nat
      BY <2>1
    <3> QED BY <3>1, <3>2, LaidMore
  <2> QED BY <2>1, <2>3, <2>4 DEF u
<1>4. K[n] = {a \in Sure(D, o, w) \X OtherRegs : L(a, n)}
  BY <1>1
<1> HIDE DEF K, n
<1>5. StarLits(p, v, b, n) \in K[n]
  BY <1>1, <1>2, <1>3, StarLitsReach
<1> QED BY <1>1, <1>4, <1>5

-----------------------------------------------------------------------------
(* The arguments s are in place in the registers f.                        *)
InPlace(s, f) == \A k \in 1 .. Len(s) : \A i \in DOMAIN s[k] : f[SentOf(s, k - 1) + i] = s[k][i]

LEMMA ArgumentsAre ==
  ArgumentsInPlace <=> (g.hit = {} => InPlace(sent, IF isMain THEN other ELSE g.reg))
BY SentAre DEF ArgumentsInPlace, ArgReg, InPlace

LEMMA InPlaceMore ==
  ASSUME NEW s \in Seq(Parcels), NEW v \in Parcels, NEW e, NEW f, InPlace(s, e),
         \A q \in 0 .. SentOf(s, Len(s)) - 1 : f[q] = e[q],
         \A t \in 0 .. Length(v) - 1 : f[SentOf(s, Len(s)) + t] = v[t]
  PROVE  InPlace(Append(s, v), f)
<1> DEFINE b == SentOf(s, Len(s))
           n == Len(s)
           u == Append(s, v)
<1>1. /\ Len(u) = n + 1 /\ n \in Nat /\ (\A k \in 0 .. n : SentOf(u, k) = SentOf(s, k))
      /\ (\A k \in 1 .. n : u[k] = s[k]) /\ u[n + 1] = v
  BY SentAppend
<1>2. /\ \A k \in 0 .. n : SentOf(s, k) \in Nat /\ SentOf(s, k) <= b
      /\ \A k \in 1 .. n : SentOf(s, k) = SentOf(s, k - 1) + Length(s[k])
  BY SentIs
<1> HIDE DEF u
<1> SUFFICES ASSUME NEW k \in 1 .. n + 1, NEW i \in DOMAIN u[k] PROVE f[SentOf(u, k - 1) + i] = u[k][i]
  BY <1>1 DEF InPlace, u
<1>3. CASE k = n + 1
  <2>1. u[k] = v /\ SentOf(u, k - 1) = b
    BY <1>1, <1>3
  <2>2. DOMAIN v = 0 .. Length(v) - 1
    BY ParcelIs
  <2> QED BY <2>1, <2>2
<1>4. CASE k # n + 1
  <2>1. k \in 1 .. n /\ k - 1 \in 0 .. n /\ k \in 0 .. n
    BY <1>1, <1>4
  <2>2. u[k] = s[k] /\ SentOf(u, k - 1) = SentOf(s, k - 1) /\ s[k] \in Parcels
    BY <1>1, <2>1
  <2>3. DOMAIN s[k] = 0 .. Length(s[k]) - 1 /\ Length(s[k]) \in Nat
    BY <2>2, ParcelIs, RegsAssumption
  <2>4. SentOf(s, k) = SentOf(s, k - 1) + Length(s[k]) /\ SentOf(s, k) <= b /\ SentOf(s, k - 1) \in Nat
        /\ SentOf(s, k) \in Nat /\ b \in Nat
    <3>1. n \in 0 .. n
      BY <1>1
    <3> QED BY <1>2, <2>1, <3>1
  <2>5. e[SentOf(s, k - 1) + i] = s[k][i]
    BY <2>1, <2>2 DEF InPlace
  <2>6. SentOf(s, k - 1) + i \in 0 .. b - 1
    BY <2>2, <2>3, <2>4
  <2> QED BY <2>2, <2>5, <2>6
<1> QED BY <1>3, <1>4

LEMMA InPlaceNext ==
  ASSUME CallInv, NEW v \in Parcels, NEW e, NEW f, InPlace(sent, e),
         \A q \in 0 .. lastReg - 1 : f[q] = e[q], \A i \in 0 .. Length(v) - 1 : f[lastReg + i] = v[i]
  PROVE  InPlace(Append(sent, v), f)
<1>1. sent \in Seq(Parcels) /\ SentOf(sent, Len(sent)) = lastReg
  BY SentAre DEF CallInv, Packed, lastReg
<1>2. \A q \in 0 .. SentOf(sent, Len(sent)) - 1 : f[q] = e[q]
  BY <1>1
<1>3. \A i \in 0 .. Length(v) - 1 : f[SentOf(sent, Len(sent)) + i] = v[i]
  BY <1>1
<1> QED BY ONLY <1>1, <1>2, <1>3, v \in Parcels, InPlace(sent, e), InPlaceMore, Zenon

LEMMA ArgumentsNone ==
  ASSUME sent' = <<>>
  PROVE  ArgumentsInPlace'
BY DEF ArgumentsInPlace

(* One more argument is in place.                                          *)
LEMMA ArgumentsMore ==
  ASSUME CallInv, ArgumentsInPlace, NEW v \in Parcels, sent' = Append(sent, v), isMain' = isMain,
         NEW h, NEW e, NEW f, Laid(g, h, e, f, lastReg, Length(v), v), g'.hit = h.hit,
         e = IF isMain THEN other ELSE g.reg, f = IF isMain THEN other' ELSE g'.reg
  PROVE  ArgumentsInPlace'
<1>1. ArgumentsInPlace' <=> (g'.hit = {} => InPlace(sent', f))
  <2>1. \A k : Sent(k)' = SentOf(sent', k)
    BY DEF Sent, SentOf
  <2> QED BY <2>1 DEF ArgumentsInPlace, ArgReg, InPlace
<1>2. ASSUME g'.hit = {} PROVE InPlace(Append(sent, v), f)
  <2>1. /\ g.hit = {} /\ \A q \in 0 .. lastReg - 1 : f[q] = e[q]
        /\ \A t \in 0 .. Length(v) - 1 : f[lastReg + t] = v[t]
    BY <1>2 DEF Laid
  <2>2. InPlace(sent, e)
    BY <2>1, ArgumentsAre
  <2>3. sent \in Seq(Parcels) /\ lastReg = SentOf(sent, Len(sent))
    BY SentAre DEF CallInv, Packed, lastReg
  <2>4. \A i \in 0 .. Length(v) - 1 : f[lastReg + i] = v[i]
    BY <2>1
  <2> QED BY <2>1, <2>2, <2>4, InPlaceNext, SMTT(60)
<1> QED BY <1>1, <1>2

LEMMA SameStands == ASSUME val' = val PROVE Stands(val)
BY DEF Stands

LEMMA GeneratedReg ==
  ASSUME NEW D, NEW w, NEW h \in Sure(D, g, w), Generate(h)
  PROVE  g'.reg = h.reg /\ g'.home = h.home /\ g'.bank = h.bank /\ g'.hit = h.hit
<1>1. h \in Gens(Byte)
  BY SureIs, RightIs
<1> QED BY <1>1 DEF Generate, Gens

LEMMA SendSure ==
  ASSUME CallInv, Sound, ArgumentsInPlace, NEW x \in Syms, Send(x)
  PROVE  Sound' /\ ArgumentsInPlace'
<1> DEFINE v == BytesOf(x)
           n == SizeOf[x]
           D == Now(g)
           p == <<g, other>>
           s == Stars(p, x, lastReg, n)
           h == Sends(g, x, lastReg, n)
<1>1. v \in Parcels /\ Length(v) = n /\ \A i \in Bytes(x) : v[i] = val[<<x, i>>] /\ v[i] \in Byte
  BY OperandIs DEF Send
<1>2. Ready /\ Fits(v) /\ sent' = Append(sent, v) /\ UNCHANGED <<val, next, isMain, params, done>> /\ x \in D
  BY DEF Send, SendBytes, Readable, Now
<1>3. isMain => Generate(s[1]) /\ other' = s[2]
  BY <1>1 DEF Send, SendBytes, Stars
<1>4. ~isMain => Generate(h) /\ other' = other
  BY <1>1 DEF Send, SendBytes, Sends
<1> HIDE DEF v
<1>5. lastReg \in Nat /\ lastReg + n <= REG_CNT - 1 /\ other \in OtherRegs
  BY <1>1, <1>2, SendRoom
<1>6. g \in Sure(D, g, val) /\ GenFirm /\ D = Now(g)
  BY NowSure
<1>7. Stands(val)
  BY <1>2, SameStands
<1> HIDE DEF D
<1>8. CASE isMain
  <2>1. p \in Sure(D, g, val) \X OtherRegs
    BY <1>5, <1>6
  <2> HIDE DEF p
  <2>2. s \in Sure(D, g, val) \X OtherRegs /\ Laid(p[1], s[1], p[2], s[2], lastReg, n, v)
    BY <1>1, <1>2, <1>5, <1>6, <2>1, StarsSure
  <2> HIDE DEF s
  <2>3. s[1] \in Sure(D, g, val) /\ Generate(s[1])
    BY <1>3, <1>8, <2>2
  <2>4. Sound' /\ g'.hit = s[1].hit
    BY <1>6, <1>7, <2>3, GenerateSure
  <2>5. Laid(g, s[1], other, other', lastReg, Length(v), v)
    BY <1>1, <1>3, <1>8, <2>2 DEF p
  <2>6. ArgumentsInPlace'
    BY <1>1, <1>2, <1>8, <2>4, <2>5, ArgumentsMore
  <2> QED BY <2>4, <2>6
<1>9. CASE ~isMain
  <2>1. h \in Sure(D, g, val) /\ Laid(g, h, g.reg, h.reg, lastReg, n, v)
    <3> HIDE DEF n
    <3> QED BY <1>1, <1>2, <1>5, <1>6, SendsSure DEF n
  <2> HIDE DEF h
  <2>2. Generate(h)
    BY <1>4, <1>9
  <2>3. Sound' /\ g'.hit = h.hit
    BY <1>6, <1>7, <2>1, <2>2, GenerateSure
  <2>4. g'.reg = h.reg
    BY <2>1, <2>2, GeneratedReg
  <2>5. Laid(g, h, g.reg, g'.reg, lastReg, Length(v), v)
    BY <1>1, <2>1, <2>4
  <2>6. ArgumentsInPlace'
    BY <1>1, <1>2, <1>9, <2>3, <2>5, ArgumentsMore
  <2> QED BY <2>3, <2>6
<1> QED BY <1>8, <1>9

LEMMA SendLitSure ==
  ASSUME CallInv, Sound, ArgumentsInPlace, NEW c \in Arguments, SendLit(c)
  PROVE  Sound' /\ ArgumentsInPlace'
<1> DEFINE n == Length(c)
           D == Now(g)
           p == <<g, other>>
           s == StarLits(p, c, lastReg, n)
           h == SendLits(g, c, lastReg, n)
<1>1. c \in Parcels
  BY CallAssumption DEF Parcels
<1>2. Ready /\ Fits(c) /\ sent' = Append(sent, c) /\ UNCHANGED <<val, next, isMain, params, done>>
  BY DEF SendLit, SendBytes
<1>3. isMain => Generate(s[1]) /\ other' = s[2]
  BY DEF SendLit, SendBytes, StarLits
<1>4. ~isMain => Generate(h) /\ other' = other
  BY DEF SendLit, SendBytes, SendLits
<1>5. lastReg \in Nat /\ lastReg + n <= REG_CNT - 1 /\ other \in OtherRegs
  BY <1>1, <1>2, SendRoom
<1>6. g \in Sure(D, g, val) /\ GenFirm /\ D = Now(g) /\ starSym \notin D
  BY NowSure, StarSymDead
<1>7. Stands(val)
  BY <1>2, SameStands
<1> HIDE DEF D
<1>8. CASE isMain
  <2>1. p \in Sure(D, g, val) \X OtherRegs
    BY <1>5, <1>6
  <2> HIDE DEF p
  <2>2. s \in Sure(D, g, val) \X OtherRegs /\ Laid(p[1], s[1], p[2], s[2], lastReg, n, c)
    BY <1>1, <1>5, <1>6, <2>1, StarLitsSure
  <2> HIDE DEF s
  <2>3. s[1] \in Sure(D, g, val) /\ Generate(s[1])
    BY <1>3, <1>8, <2>2
  <2>4. Sound' /\ g'.hit = s[1].hit
    BY <1>6, <1>7, <2>3, GenerateSure
  <2>5. Laid(g, s[1], other, other', lastReg, Length(c), c)
    BY <1>3, <1>8, <2>2 DEF p
  <2>6. ArgumentsInPlace'
    BY <1>1, <1>2, <1>8, <2>4, <2>5, ArgumentsMore
  <2> QED BY <2>4, <2>6
<1>9. CASE ~isMain
  <2>1. h \in Sure(D, g, val) /\ Laid(g, h, g.reg, h.reg, lastReg, n, c)
    BY <1>1, <1>5, <1>6, SendLitsSure
  <2> HIDE DEF h
  <2>2. Generate(h)
    BY <1>4, <1>9
  <2>3. Sound' /\ g'.hit = h.hit
    BY <1>6, <1>7, <2>1, <2>2, GenerateSure
  <2>4. g'.reg = h.reg
    BY <2>1, <2>2, GeneratedReg
  <2>5. Laid(g, h, g.reg, g'.reg, lastReg, Length(c), c)
    BY <2>1, <2>4
  <2>6. ArgumentsInPlace'
    BY <1>1, <1>2, <1>9, <2>3, <2>5, ArgumentsMore
  <2> QED BY <2>3, <2>6
<1> QED BY <1>8, <1>9

-----------------------------------------------------------------------------
(* Calls.  The machine finds every byte that w claims where it was.        *)
LEMMA SureSame ==
  ASSUME NEW D, NEW o, NEW w, NEW h \in Sure(D, o, w), NEW k \in Firm(D, o), k.hit = {} => h.hit = {},
         ASSUME k.hit = {}, NEW b \in AllBytes, o.liveTo[b[1]] >= o.seq, w[b] # Junk
         PROVE  At(k, b) = At(h, b)
  PROVE  k \in Sure(D, o, w)
<1>1. ASSUME k.hit = {} PROVE Means(k, w)
  <2>1. Means(h, w) /\ h.liveTo = o.liveTo /\ h.seq = o.seq
    BY <1>1, SureIs
  <2>2. k.liveTo = o.liveTo /\ k.seq = o.seq
    BY FirstIs
  <2>3. ASSUME NEW b \in AllBytes, o.liveTo[b[1]] >= o.seq, w[b] # Junk PROVE At(k, b) = w[b]
    BY <1>1, <2>1, <2>3 DEF Means
  <2> QED BY <2>2, <2>3 DEF Means
<1> QED BY <1>1 DEF Sure

LEMMA SaveByteSure ==
  ASSUME NEW D, NEW o, NEW w, NEW h \in Sure(D, o, w), NEW r \in Regs, NEW k, k = SaveByte(h, r)
  PROVE  k \in Sure(D, o, w) /\ (k.hit = {} => h.hit = {})
<1> DEFINE b == h.bank[r]
           a == clear(h, r)
           H == IF a.home[b] = None THEN a.hit ELSE a.hit \cup {"home forgotten"}
<1>1. k = h \/ (b # None /\ k = [a EXCEPT !.home[b] = None, !.hit = H])
  BY DEF SaveByte
<1>2. a \in Sure(D, o, w) /\ (a.hit = {} => h.hit = {})
  BY ClearSure, GrowsHit
<1>3. a \in Gens(Byte) /\ h \in Firm(D, o) /\ b \in Places \cup {None}
  BY <1>2, SureIs, RightIs DEF Gens
<1>4. k \in Firm(D, o)
  BY <1>3, SaveByteStays
<1> HIDE DEF a, b
<1>5. CASE b # None /\ k = [a EXCEPT !.home[b] = None, !.hit = H]
  <2>1. /\ k.reg = a.reg /\ k.at = a.at /\ k.ram = a.ram /\ k.hit = H
        /\ k.home = [a.home EXCEPT ![b] = None]
    <3> HIDE DEF H
    <3> QED BY <1>3, <1>5 DEF Gens
  <2>2. k.hit = {} => a.hit = {} /\ k.home = a.home
    <3>1. k.hit = {} => a.hit = {} /\ a.home[b] = None
      BY <2>1
    <3>2. a.home \in [Places -> Regs \cup {None}] /\ b \in Places
      BY <1>3, <1>5 DEF Gens
    <3> HIDE DEF H
    <3> QED BY <2>1, <3>1, <3>2
  <2>3. k.hit = {} => \A c \in AllBytes : At(k, c) = At(a, c)
    BY <2>1, <2>2 DEF At
  <2>4. k \in Sure(D, o, w)
    BY <1>2, <1>4, <2>2, <2>3, SureSame
  <2> QED BY <1>2, <2>2, <2>4
<1> QED BY <1>1, <1>5

LEMMA SavesSure ==
  ASSUME NEW D, NEW o, NEW w, NEW h \in Sure(D, o, w), NEW k, k = Saves(h, ARG_REG_CNT)
  PROVE  k \in Sure(D, o, w) /\ (k.hit = {} => h.hit = {})
<1> DEFINE n == ARG_REG_CNT
           J == {e \in Sure(D, o, w) : e.hit = {} => h.hit = {}}
           K == [j \in 0 .. n |-> J]
<1>0. n \in Nat /\ 0 .. n - 1 \subseteq Regs
  BY CallAssumption, RegsAssumption DEF Regs
<1>1. h \in K[0]
  BY <1>0
<1>2. ASSUME NEW i \in 0 .. n - 1, NEW e \in K[i] PROVE SaveByte(e, i) \in K[i + 1]
  <2>1. e \in Sure(D, o, w) /\ (e.hit = {} => h.hit = {}) /\ i \in Regs /\ K[i + 1] = J
    BY <1>0
  <2>2. SaveByte(e, i) \in Sure(D, o, w) /\ (SaveByte(e, i).hit = {} => e.hit = {})
    BY <2>1, SaveByteSure
  <2> HIDE DEF K
  <2> QED BY <2>1, <2>2
<1>3. K[n] = J
  BY <1>0
<1> HIDE DEF K, n, J
<1>4. Saves(h, n) \in K[n]
  BY <1>0, <1>1, <1>2, SavesReach
<1> QED BY <1>3, <1>4 DEF n, J

LEMMA PreCallSure ==
  ASSUME NEW D, NEW o, NEW w, NEW h \in Sure(D, o, w), NEW k, k = preCall(h)
  PROVE  k \in Sure(D, o, w) /\ k.reg = h.reg /\ k.hit = h.hit
<1> DEFINE S == {}
<1>1. h \in Firm(D, o) /\ h \in Gens(Byte) /\ h \in Spared(D, o, S)
  BY SureIs, RightIs DEF Spared
<1> HIDE DEF S
<1>2. k \in Firm(D, o)
  <2>1. k \in Spared(D, o, S)
    BY <1>1, PreCallFirm
  <2> QED BY <2>1 DEF Spared
<1>3. k.home = h.home /\ k.reg = h.reg /\ k.at = h.at /\ k.ram = h.ram /\ k.hit = h.hit
  BY <1>1 DEF preCall, MoveSP, Gens
<1> QED BY <1>2, <1>3, FrameSure

(* What is read after the call is where it was, or on the stack.           *)
LEMMA InvalidateSure ==
  ASSUME NEW o, NEW D, D \subseteq Later(o), NEW w, Claims(D, o, w), NEW h \in Sure(D, o, w),
         h \in Spared(D, o, 0 .. o.first - 1), NEW k, k = Invalidate(h)
  PROVE  k \in Sure(D, o, w) /\ (k.hit = {} => h.hit = {})
<1> DEFINE hm == [b \in Places |-> IF b \in Dropped(h) THEN None ELSE h.home[b]]
           bk == [r \in Regs |-> IF r \in VarRegs(h) THEN None ELSE h.bank[r]]
           ht == IF \E b \in Dropped(h) : Newer(h, b) THEN h.hit \cup {"live register dropped"} ELSE h.hit
<1>1. h \in Gens(Byte) /\ h.liveTo = o.liveTo /\ h.seq = o.seq
  BY SureIs, RightIs
<1>2. k = [h EXCEPT !.home = hm, !.bank = bk, !.hit = ht]
  BY DEF Invalidate
<1>3. k \in Firm(D, o)
  BY InvalidateFirm DEF Spared
<1>4. k.home = hm /\ k.reg = h.reg /\ k.at = h.at /\ k.ram = h.ram /\ k.hit = ht
  <2> HIDE DEF hm, bk, ht
  <2> QED BY <1>1, <1>2 DEF Gens
<1>5. k.hit = {} => h.hit = {} /\ \A b \in Dropped(h) : ~Newer(h, b)
  BY <1>4
<1>6. ASSUME k.hit = {}, NEW b \in AllBytes, o.liveTo[b[1]] >= o.seq, w[b] # Junk
      PROVE  At(k, b) = At(h, b)
  <2>1. b \in Places /\ b[1] \in Later(o) /\ o.liveTo[b[1]] > o.seq
    BY <1>6, BytesArePlaces DEF Claims, Later
  <2>2. CASE b \in Dropped(h) /\ h.home[b] # None
    <3>1. h.at[b[1]] # None /\ h.ram[h.at[b[1]] + b[2]] = h.reg[h.home[b]]
      BY <1>1, <1>5, <1>6, <2>1, <2>2 DEF Newer
    <3>2. k.home[b] = None
      BY <1>4, <2>1, <2>2
    <3> HIDE DEF hm, ht
    <3> QED BY <1>4, <2>2, <3>1, <3>2 DEF At
  <2>3. CASE ~(b \in Dropped(h) /\ h.home[b] # None)
    <3>1. k.home[b] = h.home[b]
      BY <1>4, <2>1, <2>3
    <3> HIDE DEF hm, ht
    <3> QED BY <1>4, <3>1 DEF At
  <2> QED BY <2>2, <2>3
<1> HIDE DEF hm, bk, ht
<1>7. k \in Sure(D, o, w)
  BY <1>3, <1>5, <1>6, SureSame
<1> QED BY <1>5, <1>7

(* The callee leaves alone the frame and the registers outside S.          *)
LEMMA CalleeSure ==
  ASSUME NEW D, NEW o, NEW w, Claims(D, o, w), NEW S, NEW h \in Sure(D, o, w), h \in Spared(D, o, S),
         NEW regs \in OtherRegs, \A r \in Regs : r \notin S => regs[r] = h.reg[r],
         NEW c, NEW k, k = Callee(h, regs, c)
  PROVE  k \in Sure(D, o, w) /\ k \in Spared(D, o, S) /\ k.hit = h.hit /\ k.reg = regs
<1> DEFINE m == [q \in Cells |-> IF q < h.top THEN h.ram[q] ELSE Junk]
<1>1. h \in Gens(Byte) /\ Framed(h)
  BY SureIs, RightIs
<1>2. k \in Spared(D, o, S) /\ k \in Firm(D, o)
  BY CalleeFirm DEF Spared
<1>3. k.home = h.home /\ k.reg = regs /\ k.at = h.at /\ k.ram = m /\ k.hit = h.hit
  <2>1. k = [h EXCEPT !.reg = regs, !.ram = m]
    BY DEF Callee
  <2> HIDE DEF m
  <2> QED BY <1>1, <2>1 DEF Gens
<1>4. ASSUME k.hit = {}, NEW b \in AllBytes, o.liveTo[b[1]] >= o.seq, w[b] # Junk
      PROVE  At(k, b) = At(h, b)
  <2>1. b \in Places /\ b[1] \in D /\ b[1] \in Syms /\ b[2] \in Bytes(b[1]) /\ b[2] \in 0 .. MaxSize - 1
    BY <1>4, BytesArePlaces DEF Claims
  <2>2. CASE h.home[b] # None
    <3>1. h.home[b] \in Regs /\ h.home[b] \notin S
      <4>1. Clean(h)
        BY <1>3, <1>4 DEF Clean
      <4> QED BY <1>1, <2>1, <2>2, <4>1 DEF Spared, Vacant, Gens
    <3> HIDE DEF m
    <3> QED BY <1>3, <2>2, <3>1 DEF At
  <2>3. CASE h.home[b] = None /\ h.at[b[1]] # None
    <3>1. h.at[b[1]] + b[2] \in Cells
      BY <1>1, <2>1, <2>3, CellIn
    <3>2. h.at[b[1]] + b[2] < h.top
      <4>1. h.at[b[1]] + SizeOf[b[1]] <= h.top /\ h.at[b[1]] \in Cells /\ h.top \in Nat
            /\ SizeOf[b[1]] \in Nat
        BY <1>1, <2>1, <2>3, RegsAssumption DEF Framed, Gens
      <4>2. h.at[b[1]] \in Nat
        BY <4>1 DEF Cells
      <4> QED BY <2>1, <4>1, <4>2 DEF Bytes
    <3>3. m[h.at[b[1]] + b[2]] = h.ram[h.at[b[1]] + b[2]]
      BY <3>1, <3>2
    <3> HIDE DEF m
    <3> QED BY <1>3, <2>3, <3>3 DEF At
  <2>4. CASE h.home[b] = None /\ h.at[b[1]] = None
    <3> HIDE DEF m
    <3> QED BY <1>3, <2>4 DEF At
  <2> QED BY <2>2, <2>3, <2>4
<1> HIDE DEF m
<1>5. k \in Sure(D, o, w)
  BY <1>2, <1>3, <1>4, SureSame
<1> QED BY <1>2, <1>3, <1>5

-----------------------------------------------------------------------------
(* The registers of the result are cleared in main.                        *)
LEMMA ClearsSure ==
  ASSUME NEW D, NEW o, NEW w, NEW h \in Sure(D, o, w), NEW n \in 0 .. MaxSize, NEW k, k = Clears(h, n)
  PROVE  k \in Sure(D, o, w) /\ (k.hit = {} => h.hit = {})
<1> DEFINE J == {e \in Sure(D, o, w) : e.hit = {} => h.hit = {}}
           K == [j \in 0 .. n |-> J]
<1>0. n \in Nat /\ 0 .. n - 1 \subseteq Regs
  BY RegsAssumption, CallAssumption DEF Regs
<1>1. h \in K[0]
  BY <1>0
<1>2. ASSUME NEW i \in 0 .. n - 1, NEW e \in K[i] PROVE clear(e, i) \in K[i + 1]
  <2>1. e \in Sure(D, o, w) /\ (e.hit = {} => h.hit = {}) /\ i \in Regs /\ K[i + 1] = J
    BY <1>0
  <2>2. clear(e, i) \in Sure(D, o, w) /\ (clear(e, i).hit = {} => e.hit = {})
    BY <2>1, ClearSure, GrowsHit
  <2> HIDE DEF K
  <2> QED BY <2>1, <2>2
<1>3. K[n] = J
  BY <1>0
<1> HIDE DEF K, J
<1>4. Clears(h, n) \in K[n]
  BY <1>0, <1>1, <1>2, ClearsReach
<1> QED BY <1>3, <1>4 DEF J

(* The result c is in the first registers of the bank.                     *)
Bears(h, x, c) == \A i \in Bytes(x) : h.reg[i] = c[i]

(* ... and they become those of the bytes of x.                            *)
LEMMA ResultsSure ==
  ASSUME NEW o, NEW x \in Syms \ {starSym}, NEW D, D = Rest(o, x), NEW w,
         NEW h \in Sure(D, o, w), h \in Spared(D, o, 0 .. SizeOf[x] - 1),
         NEW c, Bears(h, x, c), NEW m, m = Results(h, x, SizeOf[x])
  PROVE  m \in Sure(Later(o), o, Written(w, x, c, SizeOf[x])) /\ m.hit = h.hit
<1> DEFINE n == SizeOf[x]
           S == 0 .. n - 1
           W(j) == Written(w, x, c, j)
           J(j) == {k \in Sure(D, o, W(j)) : k \in Spared(D, o, S) /\ k.hit = h.hit /\ k.reg = h.reg}
           K == [j \in 0 .. n |-> J(j)]
<1>0. n \in Nat /\ n \in 1 .. MaxSize /\ n <= REG_CNT - 1 /\ n = SizeOf[x] /\ x \in Syms /\ x \notin D
  BY RegsAssumption, CallAssumption DEF Rest
<1>1. h \in K[0]
  <2>1. Within(o, W(0), w)
    BY BytesArePlaces DEF Within, Written
  <2> HIDE DEF W
  <2>2. h \in Sure(D, o, W(0))
    BY <2>1, SureWeak
  <2>3. K[0] = J(0)
    BY <1>0
  <2> QED BY <2>2, <2>3
<1>2. ASSUME NEW i \in 0 .. n - 1, NEW k \in K[i] PROVE Settled(k, i, x, i) \in K[i + 1]
  <2> DEFINE u == Settled(k, i, x, i)
             v == W(i)
  <2>1. k \in Sure(D, o, v) /\ k \in Spared(D, o, S) /\ k.hit = h.hit /\ k.reg = h.reg
        /\ K[i + 1] = J(i + 1) /\ i \in Nat
    BY <1>0
  <2>2. i \in Bytes(x) /\ i \in Regs /\ i \in S /\ h.reg[i] = c[i]
    BY <1>0, RegsAssumption DEF Bytes, Regs, Bears
  <2>3. Clean(k) => Vacant(k, D, i)
    BY <2>1, <2>2 DEF Spared
  <2>4. Within(o, W(i + 1), With(v, <<x, i>>, c[i]))
    BY <2>1, WrittenNext
  <2> HIDE DEF K, S, u, W, v
  <2>5. u \in Sure(D, o, With(v, <<x, i>>, k.reg[i])) /\ u.hit = k.hit /\ u.reg = k.reg
    BY <1>0, <2>1, <2>2, <2>3, SettleSure DEF u
  <2>6. u \in Sure(D, o, W(i + 1))
    <3>1. u \in Sure(D, o, With(v, <<x, i>>, c[i]))
      BY <2>1, <2>2, <2>5
    <3> DEFINE vv == With(v, <<x, i>>, c[i])
    <3> HIDE DEF vv
    <3> QED BY <2>4, <3>1, SureWeak DEF vv
  <2>7. Gives(k, u, i, <<x, i>>)
    <3>1. k \in Firm(D, o)
      BY <2>1, SureIs
    <3> QED BY <1>0, <2>2, <2>3, <3>1, SettleFirm DEF u
  <2>8. u \in Spared(D, o, S)
    <3>1. u \in Firm(D, o)
      BY <2>5, SureIs
    <3> SUFFICES ASSUME Clean(u), NEW r \in S, NEW b \in Places, b[1] \in D PROVE u.home[b] # r
      BY <3>1 DEF Spared, Vacant
    <3>2. Clean(k) /\ b # <<x, i>>
      BY <1>0, <2>5 DEF Clean
    <3> QED BY <2>1, <2>7, <3>2 DEF Spared, Vacant, Gives
  <2> QED BY <2>1, <2>5, <2>6, <2>8 DEF u
<1>3. K[n] = J(n)
  BY <1>0
<1>4. m \in Firm(Later(o), o)
  BY ResultsFirm
<1> HIDE DEF K
<1>5. Results(h, x, n) \in K[n]
  <2> HIDE DEF n, J
  <2> QED BY <1>0, <1>1, <1>2, ResultsReach
<1>6. m \in Sure(D, o, W(n)) /\ m.hit = h.hit
  BY <1>3, <1>5
<1> QED BY <1>4, <1>6 DEF Sure

(* What was marked still is.                                               *)
Stains(h, k) == k.hit = {} => h.hit = {}

(* The machine and the names after the call.                               *)
LEMMA CalledSure ==
  ASSUME NEW o, NEW D, D \subseteq Later(o), NEW w, Claims(D, o, w), NEW x \in Syms,
         NEW c \in [Bytes(x) -> Byte], NEW h \in Sure(D, o, w),
         ~isMain => h \in Spared(D, o, 0 .. o.first - 1), NEW k, k = Called(h, x, c)
  PROVE  k \in Sure(D, o, w) /\ Stains(h, k) /\ Bears(k, x, c)
<1> DEFINE n == SizeOf[x]
           S == 0 .. n - 1
<1>0. /\ n \in 0 .. MaxSize /\ n \in Nat /\ S \in SUBSET Regs /\ Bytes(x) = S
      /\ \A r \in Regs : r < n <=> r \in S
  BY RegsAssumption, CallAssumption DEF Regs, Bytes
<1>f. h \in Firm(D, o)
  BY SureIs
<1>1. CASE isMain
  <2> DEFINE e == Clears(h, n)
             a == preCall(e)
             regs == [r \in Regs |-> IF r < n THEN c[r] ELSE a.reg[r]]
  <2>1. k = Callee(a, regs, c)
    BY <1>1 DEF Called, Clears, ForBytes
  <2>2. e \in Spared(D, o, 0 .. n - 1)
    BY <1>0, <1>f, ClearsFirm
  <2>3. e \in Sure(D, o, w) /\ (e.hit = {} => h.hit = {})
    <3> HIDE DEF n
    <3> QED BY <1>0, ClearsSure
  <2> HIDE DEF e
  <2>4. a \in Spared(D, o, S)
    BY <2>2, PreCallFirm
  <2>5. a \in Sure(D, o, w) /\ a.hit = e.hit
    BY <2>3, PreCallSure
  <2> HIDE DEF a
  <2>6. regs \in OtherRegs
    <3>1. \A r \in Regs : r < n => c[r] \in Byte
      BY <1>0
    <3>2. \A r \in Regs : a.reg[r] \in Byte \cup {Junk}
      BY <2>4, RegIn DEF Spared
    <3> QED BY <3>1, <3>2 DEF OtherRegs
  <2>7. \A r \in Regs : r \notin S => regs[r] = a.reg[r]
    BY <1>0
  <2>8. \A i \in Bytes(x) : regs[i] = c[i]
    BY <1>0
  <2> HIDE DEF regs, n, S
  <2>9. k \in Sure(D, o, w) /\ k.hit = a.hit /\ k.reg = regs
    BY <2>1, <2>4, <2>5, <2>6, <2>7, CalleeSure
  <2> QED BY <2>3, <2>5, <2>8, <2>9 DEF Bears, Stains
<1>2. CASE ~isMain
  <2> DEFINE e == preCall(h)
             a == Invalidate(e)
             regs == Returned(c, n)
  <2>1. k = Callee(a, regs, c)
    BY <1>2 DEF Called
  <2>2. e \in Spared(D, o, 0 .. o.first - 1)
    BY <1>2, PreCallFirm
  <2>3. e \in Sure(D, o, w) /\ e.hit = h.hit
    BY PreCallSure
  <2> HIDE DEF e
  <2>4. a \in Spared(D, o, Regs)
    BY <2>2, InvalidateFirm
  <2>5. a \in Sure(D, o, w) /\ (a.hit = {} => e.hit = {})
    BY <2>2, <2>3, InvalidateSure
  <2> HIDE DEF a
  <2>6. regs \in OtherRegs
    BY ReturnedIn
  <2>7. \A i \in Bytes(x) : regs[i] = c[i]
    BY <1>0 DEF Returned
  <2> HIDE DEF regs
  <2>8. \A r \in Regs : r \notin Regs => regs[r] = a.reg[r]
    OBVIOUS
  <2>9. k \in Sure(D, o, w) /\ k.hit = a.hit /\ k.reg = regs
    BY <2>1, <2>4, <2>5, <2>6, <2>8, CalleeSure
  <2> QED BY <2>3, <2>5, <2>7, <2>9 DEF Bears, Stains
<1> QED BY <1>1, <1>2

(* What is read after a call of what w means.                              *)
Only(D, w) == [b \in AllBytes |-> IF b[1] \in D THEN w[b] ELSE Junk]

LEMMA OnlyClaims ==
  ASSUME NEW D, NEW o, NEW w
  PROVE  Claims(D, o, Only(D, w)) /\ Within(o, Only(D, w), w)
BY DEF Claims, Within, Only

LEMMA CallFromSure ==
  ASSUME CallInv, NEW x \in Syms, NEW c \in Literals(x), NEW D, D = Rest(g, x), NEW w, w = Only(D, val),
         NEW h \in Sure(D, g, w), ~isMain => h \in Spared(D, g, 0 .. g.first - 1), CallFrom(h, x, c)
  PROVE  Sound' /\ ArgumentsInPlace' /\ Stains(h, g')
<1> DEFINE n == SizeOf[x]
           k == Called(h, x, c)
           m == Results(k, x, n)
           W == Written(w, x, c, n)
<1>1. /\ Generate(m) /\ val' = Value(val, x, c) /\ sent' = <<>> /\ g.liveTo[x] >= g.seq
  BY DEF CallFrom, ResultHome, Results, Settled, ForBytes, Writable
<1>2. x \in Syms \ {starSym} /\ GenFirm
  BY <1>1, ReadIs DEF CallInv
<1>3. c \in [Bytes(x) -> Byte]
  BY <1>1, LiteralIn
<1>4. D \subseteq Later(g) /\ Claims(D, g, w) /\ h \in Firm(D, g)
  BY OnlyClaims, SureIs DEF Rest
<1>5. k \in Sure(D, g, w) /\ Stains(h, k) /\ Bears(k, x, c)
  <2>1. k = Called(h, x, c)
    OBVIOUS
  <2> HIDE DEF k
  <2> QED BY <1>3, <1>4, <2>1, CalledSure
<1>6. k \in Spared(D, g, 0 .. n - 1)
  BY <1>3, <1>4, CalledFirm
<1>7. Stands(W)
  <2> SUFFICES ASSUME NEW b \in AllBytes, g.liveTo[b[1]] > g.seq, val'[b] # Junk PROVE val'[b] = W[b]
    BY DEF Stands
  <2>1. b[1] \in Syms /\ b[2] \in 0 .. SizeOf[b[1]] - 1
    BY BytesArePlaces DEF Bytes
  <2>2. CASE b[1] = x
    <3>1. b[2] < n
      BY <2>1, <2>2, RegsAssumption
    <3> QED BY <1>1, <2>2, <3>1 DEF Value, Written
  <2>3. CASE b[1] # x
    <3>1. b[1] \in D
      BY <2>1, <2>3 DEF Rest, Later
    <3> QED BY <1>1, <2>3, <3>1 DEF Value, Written, Only
  <2> QED BY <2>2, <2>3
<1> HIDE DEF k, W
<1>8. m \in Sure(Later(g), g, W) /\ m.hit = k.hit
  BY <1>2, <1>5, <1>6, ResultsSure DEF W
<1> HIDE DEF m
<1>9. Sound' /\ g'.hit = m.hit
  BY <1>1, <1>2, <1>7, <1>8, GenerateSure
<1>10. ArgumentsInPlace'
  BY <1>1, ArgumentsNone
<1> QED BY <1>5, <1>8, <1>9, <1>10 DEF Stains

LEMMA CallSure ==
  ASSUME CallInv, Sound, NEW x \in Syms, NEW c \in Literals(x), Call(x, c)
  PROVE  Sound' /\ ArgumentsInPlace'
<1> DEFINE h == Saved
           D == Rest(g, x)
           w == Only(D, val)
<1>1. CallFrom(h, x, c)
  BY DEF Call
<1>2. g \in Sure(Now(g), g, val)
  BY NowSure
<1>3. ~isMain => h = Saves(g, ARG_REG_CNT)
  BY DEF Saved, Saves, ForBytes
<1>4. h \in Sure(Now(g), g, val)
  <2>1. CASE isMain
    BY <1>2, <2>1 DEF Saved
  <2>2. CASE ~isMain
    <3> HIDE DEF h
    <3> QED BY <1>2, <1>3, <2>2, SavesSure
  <2> QED BY <2>1, <2>2
<1> HIDE DEF h
<1>5. Within(g, w, val)
  BY OnlyClaims
<1>6. h \in Firm(Now(g), g)
  BY <1>4, SureIs
<1>7. D \in SUBSET Now(g) /\ D \in SUBSET Later(g)
  BY <1>6, RestIs
<1> HIDE DEF D, w
<1>8. h \in Sure(Now(g), g, w)
  BY <1>4, <1>5, SureWeak
<1>9. h \in Sure(D, g, w)
  BY <1>7, <1>8, FirmLess DEF Sure
<1>10. ~isMain => h \in Spared(D, g, 0 .. g.first - 1)
  <2> SUFFICES ASSUME ~isMain PROVE h \in Spared(D, g, 0 .. g.first - 1)
    OBVIOUS
  <2>1. h \in Spared(Later(g), g, 0 .. g.first - 1)
    BY SavedFirm DEF h
  <2> QED BY <1>7, <2>1, FirmLess
<1> QED BY <1>1, <1>9, <1>10, CallFromSure DEF D, w

-----------------------------------------------------------------------------
(* The address of an indirect call.  While its bytes are moved they are    *)
(* told byte by byte: what w claims is named by its register, or has none. *)
Names(h, o, w) == \A c \in AllBytes : o.liveTo[c[1]] >= o.seq /\ w[c] # Junk => NamedByte(h, c)
Told(o, w) == {h \in Right(Byte, {}, o, w) : h.hit = {} => Names(h, o, w)}

LEMMA SureTold ==
  ASSUME NEW D, NEW o, NEW w, Claims(D, o, w), NEW h \in Sure(D, o, w)
  PROVE  h \in Told(o, w)
<1>1. h \in Right(Byte, {}, o, w) /\ h \in Firm(D, o)
  BY SureIs
<1>2. ASSUME h.hit = {} PROVE Names(h, o, w)
  <2>1. Backed(h, D)
    BY <1>1, <1>2 DEF Firm, Clean
  <2> QED BY <2>1, BytesArePlaces DEF Names, NamedByte, Backed, Claims
<1> QED BY <1>1, <1>2 DEF Told

LEMMA ClearNamed ==
  ASSUME NEW o, NEW h \in Kept(Byte, {}, o), NEW r \in Regs, NEW c \in Places,
         h.home[c] = r, h.bank[r] = c, NEW k, k = clear(h, r)
  PROVE  k.home[c] = None
<1> DEFINE m == IF h.liveTo[c[1]] >= h.seq THEN pushVariable(h, c[1], c[2], r) ELSE h
<1>1. c # None /\ c[1] \in Syms /\ c[2] \in 0 .. MaxSize - 1
  BY BytesArePlaces, RegsAssumption DEF Places
<1>2. k = [m EXCEPT !.home[c] = None, !.bank[r] = None]
  BY <1>1 DEF clear
<1>3. m \in Gens(Byte)
  <2>1. pushVariable(h, c[1], c[2], r) \in Kept(Byte, {}, o)
    BY <1>1, PushKeeps
  <2> QED BY <2>1 DEF Kept
<1> HIDE DEF m
<1> QED BY <1>2, <1>3 DEF Gens

(* Byte b takes a register: it is named, and what was named still is.      *)
LEMMA AllocateNames ==
  ASSUME NEW o, NEW h \in Kept(Byte, {}, o), NEW x \in Syms, NEW i \in 0 .. MaxSize - 1,
         NEW b, b = <<x, i>>, NEW k, k = Allocate(h, x, i)
  PROVE  /\ k.bank[k.home[b]] = b /\ k.home[b] \in Regs
         /\ \A c \in Places : c # b => k.home[c] = h.home[c] \/ k.home[c] = None
         /\ \A c \in Places : NamedByte(h, c) => NamedByte(k, c)
<1> DEFINE r == Victim(h)
           z == clear(h, r)
<1>0. r \in Regs /\ b \in Places /\ r # None
  BY VictimIn, BytesArePlaces, RegsAssumption DEF Kept, Regs
<1>1. k = Settled(z, r, x, i)
  BY DEF Allocate, Settled
<1> HIDE DEF r
<1>2. /\ z \in Kept(Byte, {}, o) /\ (\A q \in Regs : q # r => z.bank[q] = h.bank[q])
      /\ \A c \in Places : z.home[c] = h.home[c] \/ z.home[c] = None
  BY <1>0, ClearKeeps
<1>3. \A c \in Places : h.home[c] = r /\ h.bank[r] = c => z.home[c] = None
  BY <1>0, ClearNamed
<1> HIDE DEF z
<1>4. Gives(z, k, r, b)
  <2>1. Vacant(z, {}, r)
    BY DEF Vacant
  <2> QED BY <1>0, <1>1, <1>2, <2>1, SettleKeeps
<1>5. k.home[b] = r /\ k.bank[r] = b
  BY <1>0, <1>4 DEF Gives
<1>6. \A c \in Places : c # b => k.home[c] = h.home[c] \/ k.home[c] = None
  BY <1>2, <1>4 DEF Gives
<1>7. ASSUME NEW c \in Places, NamedByte(h, c), k.home[c] # None PROVE k.bank[k.home[c]] = c
  <2>1. CASE c = b
    BY <1>5, <2>1
  <2>2. CASE c # b
    <3>1. k.home[c] = h.home[c] /\ z.home[c] = h.home[c] /\ h.home[c] # None
      BY <1>2, <1>4, <1>7, <2>2 DEF Gives
    <3>2. h.bank[h.home[c]] = c /\ h.home[c] \in Regs
      BY <1>7, <3>1 DEF NamedByte, Kept, Gens
    <3>3. h.home[c] # r
      BY <1>3, <3>1, <3>2
    <3> QED BY <1>2, <1>4, <3>1, <3>2, <3>3 DEF Gives
  <2> QED BY <2>1, <2>2
<1> QED BY <1>0, <1>5, <1>6, <1>7 DEF NamedByte

(* What is printed is named then, and stays what it was.                   *)
LEMMA TouchTold ==
  ASSUME NEW o, NEW w, NEW h \in Told(o, w), NEW x \in Syms, NEW i \in Bytes(x), NEW b, b = <<x, i>>,
         o.liveTo[x] >= o.seq, w[b] # Junk, NEW k, k = Touch(h, x, i)
  PROVE  /\ k \in Told(o, w) /\ Grows(h, k) /\ k.home[b] \in Regs /\ Alone(h, k, b)
         /\ k.hit = {} => k.bank[k.home[b]] = b /\ k.reg[k.home[b]] = w[b]
<1> DEFINE a == Allocate(h, x, i)
           r == a.home[b]
           c == a.at[x] + i
           v == With(w, b, Junk)
<1>0. /\ h \in Right(Byte, {}, o, w) /\ h \in Kept(Byte, {}, o) /\ (h.hit = {} => Names(h, o, w))
      /\ b \in AllBytes /\ b \in Places /\ i \in 0 .. MaxSize - 1 /\ b[1] = x
  BY RightIs, BytesArePlaces DEF Told
<1>1. Grows(h, k) /\ k \in Kept(Byte, {}, o) /\ k.home[b] \in Regs /\ Alone(h, k, b)
  <2>1. k \in Kept(Byte, {}, o) /\ k.home[b] \in Regs /\ Alone(h, k, b)
    BY <1>0, TouchKeeps DEF Alone
  <2>2. Grows(h, k)
    BY <1>0, TouchGrows
  <2> QED BY <2>1, <2>2
<1>2. ASSUME k \in Told(o, w), k.hit = {} PROVE k.bank[k.home[b]] = b /\ k.reg[k.home[b]] = w[b]
  <2>1. Names(k, o, w) /\ Means(k, w) /\ k.liveTo = o.liveTo /\ k.seq = o.seq
    <3>1. k \in Right(Byte, {}, o, w) /\ Names(k, o, w)
      BY <1>2 DEF Told
    <3> QED BY <1>2, <3>1, RightIs
  <2>2. k.home[b] # None
    BY <1>1, RegsAssumption DEF Regs
  <2>3. At(k, b) = w[b]
    BY <1>0, <2>1 DEF Means
  <2> QED BY <1>0, <2>1, <2>2, <2>3 DEF Names, NamedByte, At
<1>3. CASE h.home[b] # None
  <2>1. k = h
    BY <1>3 DEF Touch
  <2> QED BY <1>1, <1>2, <2>1
<1>4. CASE h.home[b] = None
  <2>1. k = IF a.at[x] # None THEN fetchVariable(a, x, i, r) ELSE a
    BY <1>4 DEF Touch
  <2>2. /\ a \in Right(Byte, {}, o, v) /\ (a.hit = {} => h.hit = {})
        /\ a.hit = {} => a.at[x] # None /\ a.ram[c] = w[b]
    <3>1. a \in Right(Byte, {}, o, With(w, <<x, i>>, Junk)) /\ (a.hit = {} => h.hit = {})
      BY <1>0, AllocateRight
    <3>2. h.home[<<x, i>>] = None /\ a.hit = {} /\ <<x, i>> \in AllBytes /\ o.liveTo[x] >= o.seq
          /\ w[<<x, i>>] # Junk => a.at[x] # None /\ a.ram[a.at[x] + i] = w[<<x, i>>]
      BY <1>0, AllocateRight
    <3> QED BY <1>0, <1>4, <3>1, <3>2
  <2>3. /\ a.bank[r] = b /\ r \in Regs
        /\ \A d \in Places : NamedByte(h, d) => NamedByte(a, d)
    BY <1>0, AllocateNames
  <2> HIDE DEF a, r, c, v
  <2>4. a.hit = {} => Names(a, o, w)
    BY <1>0, <2>2, <2>3, BytesArePlaces DEF Names
  <2>5. ASSUME a.hit = {} PROVE Over(o, a, v, r, a.ram[c])
    <3> SUFFICES ASSUME NEW d \in AllBytes, o.liveTo[d[1]] >= o.seq, v[d] # Junk, a.home[d] = r
                 PROVE  FALSE
      BY DEF Over
    <3>1. d # b /\ w[d] # Junk
      BY DEF v, With
    <3>2. NamedByte(a, d)
      BY <2>4, <2>5, <3>1 DEF Names
    <3>3. r # None
      BY <2>3, RegsAssumption DEF Regs
    <3> QED BY <2>3, <3>1, <3>2, <3>3 DEF NamedByte
  <2>6. CASE a.at[x] = None
    <3>1. k = a /\ a.hit # {}
      BY <2>1, <2>2, <2>6
    <3>2. k \in Told(o, w)
      BY <2>2, <3>1 DEF Right, Told
    <3> QED BY <1>1, <1>2, <3>2
  <2>7. CASE a.at[x] # None
    <3>1. k = fetchVariable(a, x, i, r) /\ c = a.at[x] + i
      BY <2>1, <2>7 DEF c
    <3>2. /\ k \in Right(Byte, {}, o, v) /\ k.hit = a.hit /\ k.home = a.home /\ k.bank = a.bank
          /\ k.at = a.at /\ k.reg = [a.reg EXCEPT ![r] = a.ram[c]]
      BY <1>0, <2>2, <2>3, <2>5, <2>7, <3>1, FetchOver
    <3>3. k.reg[r] = a.ram[c]
      <4>1. a \in Gens(Byte)
        BY <2>2, RightIs
      <4> QED BY <2>3, <3>2, <4>1 DEF Gens
    <3>4. ASSUME k.hit = {} PROVE Means(k, w)
      <4>1. Means(k, v)
        BY <3>2, <3>4, RightIs
      <4> SUFFICES ASSUME NEW d \in AllBytes, k.liveTo[d[1]] >= k.seq, w[d] # Junk PROVE At(k, d) = w[d]
        BY DEF Means
      <4>2. CASE d = b
        <5>1. k.home[b] = r /\ k.home[b] # None
          BY <2>3, <3>2, RegsAssumption DEF r, Regs
        <5> QED BY <2>2, <3>2, <3>3, <3>4, <4>2, <5>1 DEF At
      <4>3. CASE d # b
        <5>1. v[d] = w[d]
          BY <4>3 DEF v, With
        <5> QED BY <4>1, <5>1 DEF Means
      <4> QED BY <4>2, <4>3
    <3>5. k \in Right(Byte, {}, o, w)
      BY <1>1, <3>4 DEF Right
    <3>6. k.hit = {} => Names(k, o, w)
      BY <2>4, <3>2 DEF Names, NamedByte
    <3>7. k \in Told(o, w)
      BY <3>5, <3>6 DEF Told
    <3> QED BY <1>1, <1>2, <3>7
  <2> QED BY <2>6, <2>7
<1> QED BY <1>3, <1>4

-----------------------------------------------------------------------------
(* All that is claimed but the bytes of p is read after the instruction,   *)
(* and of p what is still to be moved.                                     *)
Aims(o, w, p, i) ==
  \A c \in AllBytes : o.liveTo[c[1]] >= o.seq /\ w[c] # Junk =>
    IF c[1] = p THEN c[2] >= i ELSE o.liveTo[c[1]] > o.seq
(* Byte i of the address is in its register, and those before it still.    *)
Aimed(h, u, i, v) ==
  u.hit = {} => /\ u.reg[TargetReg(i)] = v
                /\ \A j \in 0 .. i - 1 : u.reg[TargetReg(j)] = h.reg[TargetReg(j)]

LEMMA TargetByteTold ==
  ASSUME NEW o, NEW w, NEW h \in Told(o, w), NEW p \in Syms, SizeOf[p] = 2, NEW i \in {0, 1},
         o.liveTo[p] >= o.seq, NEW b, b = <<p, i>>, w[b] # Junk, Aims(o, w, p, i),
         NEW u, u = TargetByte(h, p, i), u \in Kept(Byte, {}, o)
  PROVE  u \in Told(o, With(w, b, Junk)) /\ Stains(h, u) /\ Aimed(h, u, i, w[b])
<1> DEFINE k == Touch(h, p, i)
           r == TargetReg(i)
           old == k.home[b]
           e == Emit(k, r, k.reg[old])
           m == [e EXCEPT !.bank[old] = None, !.home[b] = r]
           bb == k.bank[r]
           lost(q) == m.reg[q] # h.reg[q]
           H1 == IF bb # None /\ bb[1] # p /\ k.home[bb] = r /\ k.liveTo[bb[1]] > k.seq
                 THEN {"live register overwritten"} ELSE {}
           H2 == IF (\E j \in Bytes(p) : j > i /\ h.home[<<p, j>>] = r)
                    \/ (\E j \in 0 .. i - 1 : lost(TargetReg(j)))
                 THEN {"pointer overwritten"} ELSE {}
           H3 == IF \E q \in 0 .. lastReg - 1 : lost(q) THEN {"argument evicted"} ELSE {}
           H  == m.hit \cup H1 \cup H2 \cup H3
           v  == With(w, b, Junk)
<1>0. /\ i \in Bytes(p) /\ b \in AllBytes /\ b \in Places /\ i \in 0 .. MaxSize - 1 /\ r \in Regs
      /\ \A j \in 0 .. i - 1 : TargetReg(j) \in Regs
  <2>1. i \in Bytes(p)
    BY DEF Bytes
  <2>2. r \in Regs /\ \A j \in 0 .. i - 1 : TargetReg(j) \in Regs
    BY CallAssumption, RegsAssumption DEF TargetReg, Regs
  <2> QED BY <2>1, <2>2, BytesArePlaces
<1>1. /\ k \in Told(o, w) /\ Grows(h, k) /\ old \in Regs /\ Alone(h, k, b)
      /\ k.hit = {} => k.bank[old] = b /\ k.reg[old] = w[b]
  BY <1>0, TouchTold
<1>u. u = [m EXCEPT !.hit = H]
  BY DEF TargetByte
<1>2. k \in Right(Byte, {}, o, w) /\ k \in Gens(Byte) /\ (k.hit = {} => Names(k, o, w))
      /\ k.liveTo = o.liveTo /\ k.seq = o.seq
  BY <1>1, RightIs DEF Told
<1>3. k.reg[old] \in Byte \cup {Junk}
  BY <1>1, <1>2 DEF Gens
<1> HIDE DEF k
<1>4. e \in Gens(Byte) /\ e.home = k.home /\ e.bank = k.bank /\ e.hit = k.hit /\ e.at = k.at /\ e.ram = k.ram
      /\ e.reg = [k.reg EXCEPT ![r] = k.reg[old]] /\ e.liveTo = k.liveTo /\ e.seq = k.seq
  <2>1. k \in Kept(Byte, {}, o)
    BY <1>2, RightIs
  <2>2. e.hit = k.hit /\ e.home = k.home /\ e.bank = k.bank /\ e.at = k.at /\ e.ram = k.ram
        /\ e.reg = [k.reg EXCEPT ![r] = k.reg[old]] /\ e.liveTo = k.liveTo /\ e.seq = k.seq
    BY <1>2 DEF Emit, Gens
  <2>3. e \in Kept(Byte, {}, o)
    BY <1>0, <1>3, <2>1, EmitKeeps
  <2> QED BY <2>2, <2>3 DEF Kept
<1> HIDE DEF e, old, r
<1>5. /\ m.home = [e.home EXCEPT ![b] = r] /\ m.bank = [e.bank EXCEPT ![old] = None] /\ m.hit = e.hit
      /\ m.reg = e.reg /\ m.at = e.at /\ m.ram = e.ram
  BY <1>4 DEF Gens
<1>6. /\ u.home = m.home /\ u.bank = m.bank /\ u.hit = H /\ u.reg = m.reg /\ u.at = m.at /\ u.ram = m.ram
  <2> DEFINE mm == m
  <2>1. mm \in Gens(Byte)
    <3>1. m = [[e EXCEPT !.bank[old] = None] EXCEPT !.home[b] = r]
      OBVIOUS
    <3>2. [e EXCEPT !.bank[old] = None] \in Gens(Byte)
      BY <1>4 DEF Gens
    <3> QED BY <1>0, <3>1, <3>2 DEF Gens
  <2> HIDE DEF H
  <2>2. u = [mm EXCEPT !.hit = H]
    BY <1>u
  <2> HIDE DEF mm
  <2> SUFFICES /\ u.home = mm.home /\ u.bank = mm.bank /\ u.hit = H
               /\ u.reg = mm.reg /\ u.at = mm.at /\ u.ram = mm.ram
    BY DEF mm
  <2> QED BY <2>1, <2>2 DEF Gens
<1>7. u.hit = {} => k.hit = {} /\ H1 = {} /\ H2 = {}
  BY <1>4, <1>5, <1>6
<1>8. Stains(h, u)
  BY <1>1, <1>7, GrowsHit DEF Stains
<1>t. /\ k.home \in [Places -> Regs \cup {None}] /\ k.bank \in [Regs -> Places \cup {None}]
      /\ k.reg \in [Regs -> Byte \cup {Junk}]
  BY <1>2 DEF Gens
<1>x. /\ u.home = [k.home EXCEPT ![b] = r] /\ u.bank = [k.bank EXCEPT ![old] = None]
      /\ u.reg = [k.reg EXCEPT ![r] = k.reg[old]]
  BY <1>4, <1>5, <1>6
<1> HIDE DEF m
<1>p. /\ \A c \in Places : u.home[c] = IF c = b THEN r ELSE k.home[c]
      /\ \A q \in Regs : q # old => u.bank[q] = k.bank[q]
      /\ \A q \in Regs : u.reg[q] = IF q = r THEN k.reg[old] ELSE k.reg[q]
  <2> HIDE DEF H, H1, H2, H3, bb, v
  <2>1. \A c \in Places : u.home[c] = IF c = b THEN r ELSE k.home[c]
    BY <1>t, <1>x
  <2>2. \A q \in Regs : q # old => u.bank[q] = k.bank[q]
    BY <1>t, <1>x
  <2>3. \A q \in Regs : u.reg[q] = IF q = r THEN k.reg[old] ELSE k.reg[q]
    BY <1>t, <1>x
  <2> QED BY <2>1, <2>2, <2>3
<1>9. ASSUME u.hit = {} PROVE Aimed(h, u, i, w[b])
  <2>1. u.reg[TargetReg(i)] = w[b]
    BY <1>0, <1>1, <1>7, <1>9, <1>p DEF r
  <2>2. ASSUME NEW j \in 0 .. i - 1 PROVE u.reg[TargetReg(j)] = h.reg[TargetReg(j)]
    BY <1>6, <1>7, <1>9
  <2> QED BY <2>1, <2>2 DEF Aimed
<1>10. ASSUME u.hit = {} PROVE Means(u, v) /\ Names(u, o, v)
  <2>0. k.hit = {} /\ H1 = {} /\ H2 = {} /\ Names(k, o, w)
    BY <1>2, <1>7, <1>10
  <2>1. ASSUME NEW c \in AllBytes, o.liveTo[c[1]] >= o.seq, v[c] # Junk
        PROVE  /\ c # b /\ w[c] = v[c] /\ c \in Places /\ w[c] # Junk
               /\ NamedByte(k, c) /\ u.home[c] = k.home[c] /\ k.home[c] # r
    <3>1. /\ c # b /\ w[c] = v[c] /\ c \in Places /\ w[c] # Junk
          /\ c = <<c[1], c[2]>> /\ c[1] \in Syms /\ c[2] \in Bytes(c[1])
      BY <2>1, BytesArePlaces DEF With
    <3>2. NamedByte(k, c)
      BY <2>0, <2>1, <3>1 DEF Names
    <3>3. u.home[c] = k.home[c]
      BY <1>p, <3>1
    <3>4. ASSUME k.home[c] = r PROVE FALSE
      <4>1. k.bank[r] = c
        BY <1>0, <3>2, <3>4, RegsAssumption DEF NamedByte, Regs
      <4>2. CASE c[1] # p
        <5>1. k.liveTo[c[1]] > k.seq
          BY <1>2, <2>1, <3>1, <4>2 DEF Aims
        <5>2. c # None
          BY <3>1, RegsAssumption DEF Places
        <5>3. H1 # {}
          BY <3>4, <4>1, <4>2, <5>1, <5>2
        <5> QED BY <2>0, <5>3
      <4>3. CASE c[1] = p
        <5>1. c[2] >= i /\ c[2] # i /\ c[2] \in Bytes(p)
          BY <2>1, <3>1, <4>3 DEF Aims
        <5>2. c[2] > i
          BY <5>1 DEF Bytes
        <5>3. h.home[<<p, c[2]>>] = r
          <6>1. k.home[c] = h.home[c] \/ k.home[c] = None
            BY <1>1, <3>1 DEF Alone
          <6> QED BY <1>0, <3>1, <3>4, <4>3, <6>1, RegsAssumption DEF Regs
        <5>4. H2 # {}
          BY <5>1, <5>2, <5>3
        <5> QED BY <2>0, <5>4
      <4> QED BY <4>2, <4>3
    <3> QED BY <3>1, <3>2, <3>3, <3>4
  <2>2. Names(u, o, v)
    <3> SUFFICES ASSUME NEW c \in AllBytes, o.liveTo[c[1]] >= o.seq, v[c] # Junk, u.home[c] # None
                 PROVE  u.bank[u.home[c]] = c
      BY DEF Names, NamedByte
    <3>1. c # b /\ u.home[c] = k.home[c] /\ k.home[c] # None /\ k.bank[k.home[c]] = c /\ c \in Places
      BY <2>1 DEF NamedByte
    <3>2. k.home[c] # old /\ k.home[c] \in Regs
      BY <1>1, <1>t, <2>0, <3>1
    <3> QED BY <1>p, <3>1, <3>2
  <2>3. Means(u, v)
    <3>1. Means(k, w) /\ u.liveTo = o.liveTo /\ u.seq = o.seq
      BY <1>2, <2>0 DEF Right, Kept, Onward
    <3> SUFFICES ASSUME NEW c \in AllBytes, o.liveTo[c[1]] >= o.seq, v[c] # Junk PROVE At(u, c) = v[c]
      BY <3>1 DEF Means
    <3>2. u.home[c] = k.home[c] /\ k.home[c] # r /\ w[c] = v[c] /\ w[c] # Junk /\ c \in Places
      BY <2>1
    <3>3. At(k, c) = v[c]
      BY <1>2, <3>1, <3>2 DEF Means
    <3>4. u.at = k.at /\ u.ram = k.ram /\ u.reg = e.reg
      BY <1>4, <1>5, <1>6
    <3>5. k.home[c] # None => u.reg[k.home[c]] = k.reg[k.home[c]]
      BY <1>p, <1>t, <3>2
    <3> QED BY <3>2, <3>3, <3>4, <3>5 DEF At
  <2> QED BY <2>2, <2>3
<1>11. u \in Told(o, v)
  BY <1>10 DEF Told, Right
<1>12. Aimed(h, u, i, w[b])
  BY <1>9 DEF Aimed
<1> QED BY <1>8, <1>11, <1>12

(* Both bytes of the address are in their registers, and what is read      *)
(* later is where it was.                                                  *)
Addressed(u, p, w) == u.hit = {} => \A i \in Bytes(p) : u.reg[TargetReg(i)] = w[<<p, i>>]

LEMMA TargetBytesTold ==
  ASSUME NEW o, NEW p \in Syms, SizeOf[p] = 2, o.liveTo[p] >= o.seq, NEW E, E = Rest(o, p),
         NEW w, \A i \in Bytes(p) : w[<<p, i>>] # Junk,
         NEW h \in Sure(E \cup {p}, o, w), h \in Spared(E, o, 0 .. o.first - 1)
  PROVE  /\ TargetBytes(h, p, 2) \in Sure(E, o, Only(E, w))
         /\ TargetBytes(h, p, 2) \in Spared(E, o, 0 .. o.first - 1)
         /\ Stains(h, TargetBytes(h, p, 2)) /\ Addressed(TargetBytes(h, p, 2), p, w)
<1> DEFINE D == E \cup {p}
           S == 0 .. o.first - 1
           w0 == Only(D, w)
           b0 == <<p, 0>>
           b1 == <<p, 1>>
           w1 == With(w0, b0, Junk)
           w2 == With(w1, b1, Junk)
           J1 == {k \in Spared(E, o, S) :
                    /\ k \in Told(o, w1) /\ Stains(h, k) /\ (Clean(k) => NamedByte(k, b1))
                    /\ k.hit = {} => k.reg[TargetReg(0)] = w[b0]}
           J2 == {k \in Spared(E, o, S) : k \in Told(o, w2) /\ Stains(h, k) /\ Addressed(k, p, w)}
           K == [j \in 0 .. 2 |-> IF j = 0 THEN {h} ELSE IF j = 1 THEN J1 ELSE J2]
<1>0. /\ 0 \in Bytes(p) /\ 1 \in Bytes(p) /\ p \notin E /\ Bytes(p) = {0, 1}
      /\ b0 \in AllBytes /\ b1 \in AllBytes /\ b0 # b1 /\ b0[1] = p /\ b1[1] = p
  <2>1. 0 \in Bytes(p) /\ 1 \in Bytes(p) /\ p \notin E /\ Bytes(p) = {0, 1}
    BY DEF Bytes, Rest
  <2> QED BY <2>1, BytesArePlaces
<1>1. h \in K[0] /\ K[1] = J1 /\ K[2] = J2 /\ K[0] = {h}
  OBVIOUS
<1> HIDE DEF K
<1>2. w0[b0] = w[b0] /\ w1[b1] = w[b1] /\ w0[b0] # Junk /\ w1[b1] # Junk
  BY <1>0 DEF Only, With
<1>3. Aims(o, w0, p, 0) /\ Aims(o, w1, p, 1)
  <2>1. Aims(o, w0, p, 0)
    <3> SUFFICES ASSUME NEW c \in AllBytes, o.liveTo[c[1]] >= o.seq, w0[c] # Junk
                 PROVE  IF c[1] = p THEN c[2] >= 0 ELSE o.liveTo[c[1]] > o.seq
      BY DEF Aims
    <3>1. c[1] \in D /\ c[2] \in Bytes(c[1]) /\ c[1] \in Syms
      BY BytesArePlaces DEF Only
    <3> QED BY <3>1, RegsAssumption DEF Rest, Later, Bytes
  <2>2. Aims(o, w1, p, 1)
    <3> SUFFICES ASSUME NEW c \in AllBytes, o.liveTo[c[1]] >= o.seq, w1[c] # Junk
                 PROVE  IF c[1] = p THEN c[2] >= 1 ELSE o.liveTo[c[1]] > o.seq
      BY DEF Aims
    <3>1. c # b0 /\ w0[c] # Junk /\ c = <<c[1], c[2]>> /\ c[2] \in Bytes(c[1])
      BY BytesArePlaces DEF With
    <3>2. CASE c[1] = p
      BY <1>0, <3>1, <3>2
    <3>3. CASE c[1] # p
      BY <2>1, <3>1, <3>3 DEF Aims
    <3> QED BY <3>2, <3>3
  <2> QED BY <2>1, <2>2
<1>4. h \in Told(o, w0)
  <2>1. Within(o, w0, w) /\ Claims(D, o, w0)
    BY OnlyClaims
  <2> HIDE DEF w0, D
  <2>2. h \in Sure(D, o, w0)
    BY <2>1, SureWeak DEF D
  <2> QED BY <2>1, <2>2, SureTold
<1> HIDE DEF w0, w1, w2
<1>5. TargetByte(h, p, 0) \in J1
  <2> DEFINE u == TargetByte(h, p, 0)
             i == 0
  <2>1. h \in Firm(D, o)
    BY SureIs
  <2>2. Clean(h) => NamedByte(h, <<p, i>>)
    <3>1. <<p, 0>> \in Places /\ <<p, 0>>[1] = p
      BY <1>0, BytesArePlaces
    <3> QED BY <2>1, <3>1 DEF Firm, Backed, NamedByte
  <2>3. i \in {0, 1} /\ 1 # i /\ u = TargetByte(h, p, i) /\ b0 = <<p, i>> /\ Aims(o, w0, p, i)
    BY <1>3
  <2> HIDE DEF u, i
  <2>4. u \in Spared(E, o, S) /\ \A j \in Bytes(p) : j # i /\ Clean(u) => NamedByte(u, <<p, j>>)
    BY <1>0, <2>1, <2>2, <2>3, TargetByteFirm
  <2>5. Clean(u) => NamedByte(u, b1)
    BY <1>0, <2>3, <2>4
  <2>6. u \in Kept(Byte, {}, o)
    BY <2>4, FirmIs DEF Spared
  <2> HIDE DEF b0, b1, S
  <2>7. u \in Told(o, With(w0, b0, Junk)) /\ Stains(h, u) /\ Aimed(h, u, i, w0[b0])
    BY <1>2, <1>4, <2>3, <2>6, TargetByteTold
  <2>8. u.hit = {} => u.reg[TargetReg(0)] = w[b0]
    BY <1>2, <2>7 DEF Aimed, i
  <2> QED BY <2>4, <2>5, <2>7, <2>8 DEF u, w1
<1>6. ASSUME NEW k \in J1 PROVE TargetByte(k, p, 1) \in J2
  <2> DEFINE u == TargetByte(k, p, 1)
             i == 1
  <2>1. /\ i \in {0, 1} /\ u = TargetByte(k, p, i) /\ b1 = <<p, i>> /\ Aims(o, w1, p, i)
        /\ (Clean(k) => NamedByte(k, <<p, i>>)) /\ k \in Spared(E, o, S) /\ k \in Told(o, w1)
    BY <1>3
  <2> HIDE DEF u, i, J2
  <2>2. u \in Spared(E, o, S)
    BY <1>0, <2>1, TargetByteFirm
  <2>3. u \in Kept(Byte, {}, o)
    BY <2>2, FirmIs DEF Spared
  <2>4. u \in Told(o, With(w1, b1, Junk)) /\ Stains(k, u) /\ Aimed(k, u, i, w1[b1])
    <3> HIDE DEF b0, b1, S, J1
    <3> QED BY <1>2, <2>1, <2>3, TargetByteTold
  <2>5. Stains(h, u)
    BY <2>4 DEF Stains
  <2>6. Addressed(u, p, w)
    <3> SUFFICES ASSUME u.hit = {}, NEW j \in Bytes(p) PROVE u.reg[TargetReg(j)] = w[<<p, j>>]
      BY DEF Addressed
    <3>1. k.hit = {}
      BY <2>4 DEF Stains
    <3>2. u.reg[TargetReg(1)] = w[b1] /\ u.reg[TargetReg(0)] = k.reg[TargetReg(0)]
      BY <1>2, <2>4 DEF Aimed, i
    <3>3. k.reg[TargetReg(0)] = w[b0]
      BY <3>1
    <3>4. j = 0 \/ j = 1
      BY <1>0
    <3> QED BY <3>2, <3>3, <3>4
  <2> QED BY <2>2, <2>4, <2>5, <2>6 DEF u, w2, J2
<1>7. \A i \in 0 .. 2 - 1 : \A k \in K[i] : TargetByte(k, p, i) \in K[i + 1]
  <2> HIDE DEF J1, J2
  <2> SUFFICES ASSUME NEW i \in 0 .. 1, NEW k \in K[i] PROVE TargetByte(k, p, i) \in K[i + 1]
    OBVIOUS
  <2>1. CASE i = 0
    BY <1>1, <1>5, <2>1
  <2>2. CASE i = 1
    BY <1>1, <1>6, <2>2
  <2> QED BY <2>1, <2>2
<1> DEFINE u == TargetBytes(h, p, 2)
<1>8. u \in J2
  <2>1. TargetBytes(h, p, 2) \in K[2]
    <3> HIDE DEF J1, J2, S
    <3> QED BY <1>1, <1>7, TargetBytesReach
  <2> QED BY <1>1, <2>1
<1> HIDE DEF u
<1>9. u \in Sure(E, o, Only(E, w))
  <2>1. Within(o, Only(E, w), w2)
    <3> SUFFICES ASSUME NEW c \in AllBytes, Only(E, w)[c] # Junk PROVE Only(E, w)[c] = w2[c]
      BY DEF Within
    <3>1. c[1] \in E /\ c # b0 /\ c # b1
      BY <1>0 DEF Only
    <3> QED BY <3>1 DEF Only, w0, w1, w2, With
  <2> DEFINE v == Only(E, w)
  <2>2. u \in Right(Byte, {}, o, w2) /\ u \in Firm(E, o)
    BY <1>8 DEF Told, Spared
  <2> HIDE DEF v
  <2>3. u \in Right(Byte, {}, o, v)
    BY <2>1, <2>2, RightWeak DEF v
  <2>4. u \in Sure(E, o, v)
    BY <2>2, <2>3 DEF Right, Sure
  <2> QED BY <2>4 DEF v
<1> QED BY <1>8, <1>9 DEF u

-----------------------------------------------------------------------------
(* In main the address is copied byte by byte into the other bank.         *)
LEMMA TargetStarSure ==
  ASSUME NEW o, NEW w, NEW k \in Sure(Now(o), o, w), NEW v \in OtherRegs, NEW p \in Syms, NEW i \in Bytes(p),
         o.liveTo[p] >= o.seq, w[<<p, i>>] # Junk, TargetReg(i) \in Regs,
         NEW u, u = TargetStar(<<k, v>>, p, i)
  PROVE  /\ u[1] \in Sure(Now(o), o, w) /\ Stains(k, u[1]) /\ u = <<u[1], u[2]>> /\ u[2] \in OtherRegs
         /\ u[1].hit = {} => u[2][TargetReg(i)] = w[<<p, i>>]
         /\ \A r \in Regs : r # TargetReg(i) => u[2][r] = v[r]
<1> DEFINE b == <<p, i>>
           m == Touch(k, p, i)
           z == [v EXCEPT ![TargetReg(i)] = m.reg[m.home[b]]]
           D == Now(o)
<1>1. u = <<m, z>>
  BY DEF TargetStar
<1>2. p \in D /\ Covers(D, o) /\ b \in AllBytes
  BY NowCovers, BytesArePlaces DEF Now
<1> HIDE DEF D
<1>3. m \in Sure(D, o, w) /\ Grows(k, m) /\ m.home[b] \in Regs
  BY <1>2, TouchSure DEF D
<1> HIDE DEF m
<1>4. m.reg[m.home[b]] \in Byte \cup {Junk}
  BY <1>3, SureIs, RegIn
<1>5. ASSUME m.hit = {} PROVE m.reg[m.home[b]] = w[b]
  <2>1. Means(m, w) /\ m.liveTo = o.liveTo /\ m.seq = o.seq
    BY <1>3, <1>5, SureIs
  <2>2. At(m, b) = w[b] /\ m.home[b] # None
    BY <1>2, <1>3, <2>1, RegsAssumption DEF Means, Regs
  <2> QED BY <2>2 DEF At
<1> HIDE DEF b
<1>6. z \in OtherRegs /\ z[TargetReg(i)] = m.reg[m.home[b]] /\ \A r \in Regs : r # TargetReg(i) => z[r] = v[r]
  BY <1>4 DEF OtherRegs
<1> HIDE DEF z
<1>7. Stains(k, m)
  BY <1>3, GrowsHit DEF Stains
<1> QED BY <1>1, <1>3, <1>5, <1>6, <1>7 DEF D, b

LEMMA TargetStarsSure ==
  ASSUME NEW o, NEW w, NEW h \in Sure(Now(o), o, w), NEW v \in OtherRegs, NEW p \in Syms, SizeOf[p] = 2,
         o.liveTo[p] >= o.seq, \A i \in Bytes(p) : w[<<p, i>>] # Junk,
         NEW u, u = TargetStars(<<h, v>>, p, 2)
  PROVE  /\ u[1] \in Sure(Now(o), o, w) /\ Stains(h, u[1])
         /\ u[1].hit = {} => \A i \in Bytes(p) : u[2][TargetReg(i)] = w[<<p, i>>]
<1> DEFINE F == Sure(Now(o), o, w)
           J(n) == {q \in F \X OtherRegs :
                      /\ Stains(h, q[1])
                      /\ q[1].hit = {} => \A i \in 0 .. n - 1 : q[2][TargetReg(i)] = w[<<p, i>>]}
           K == [j \in 0 .. 2 |-> J(j)]
<1>0. /\ Bytes(p) = 0 .. 1 /\ TargetReg(0) \in Regs /\ TargetReg(1) \in Regs /\ TargetReg(0) # TargetReg(1)
  BY CallAssumption, RegsAssumption DEF TargetReg, Regs, Bytes
<1>1. <<h, v>> \in K[0]
  BY DEF Stains
<1>2. ASSUME NEW i \in 0 .. 1, NEW q \in K[i] PROVE TargetStar(q, p, i) \in K[i + 1]
  <2> DEFINE t == TargetStar(q, p, i)
  <2>1. /\ q \in F \X OtherRegs /\ Stains(h, q[1])
        /\ q[1].hit = {} => \A j \in 0 .. i - 1 : q[2][TargetReg(j)] = w[<<p, j>>]
    BY <1>2
  <2>2. q = <<q[1], q[2]>> /\ q[1] \in F /\ q[2] \in OtherRegs /\ K[i + 1] = J(i + 1)
    BY <2>1
  <2>3. i \in Bytes(p) /\ TargetReg(i) \in Regs /\ w[<<p, i>>] # Junk /\ t = TargetStar(<<q[1], q[2]>>, p, i)
    BY <1>0, <2>2
  <2> HIDE DEF K, J, F, t
  <2>4. /\ t[1] \in F /\ Stains(q[1], t[1]) /\ t = <<t[1], t[2]>> /\ t[2] \in OtherRegs
        /\ t[1].hit = {} => t[2][TargetReg(i)] = w[<<p, i>>]
        /\ \A r \in Regs : r # TargetReg(i) => t[2][r] = q[2][r]
    BY <2>2, <2>3, TargetStarSure DEF F
  <2>5. ASSUME t[1].hit = {}, NEW j \in 0 .. (i + 1) - 1 PROVE t[2][TargetReg(j)] = w[<<p, j>>]
    <3>1. CASE j = i
      BY <2>4, <2>5, <3>1
    <3>2. CASE j # i
      <4>1. i = 1 /\ j = 0
        BY <3>2
      <4>2. q[1].hit = {}
        BY <2>4, <2>5 DEF Stains
      <4> QED BY <1>0, <2>1, <2>4, <4>1, <4>2
    <3> QED BY <3>1, <3>2
  <2>6. t \in F \X OtherRegs /\ Stains(h, t[1])
    BY <2>1, <2>4 DEF Stains
  <2>7. t \in J(i + 1)
    BY <2>5, <2>6 DEF J
  <2> QED BY <2>2, <2>7 DEF t
<1>3. K[2] = J(2)
  OBVIOUS
<1> HIDE DEF K
<1>4. TargetStars(<<h, v>>, p, 2) \in K[2]
  <2>1. \A i \in 0 .. 2 - 1 : \A q \in K[i] : TargetStar(q, p, i) \in K[i + 1]
    BY <1>2
  <2> DEFINE q == <<h, v>>
  <2>2. q \in K[0]
    BY <1>1
  <2> HIDE DEF J, F, q
  <2>3. TargetStars(q, p, 2) \in K[2]
    BY <2>1, <2>2, TargetStarsReach
  <2> QED BY <2>3 DEF q
<1>5. u \in J(2)
  BY <1>3, <1>4
<1> QED BY <1>0, <1>5

-----------------------------------------------------------------------------
(* What the call goes to is what the pointer means.                        *)
LEMMA EffectOf ==
  ASSUME NEW p \in Syms, NEW regs, NEW h, Stains(h, g'),
         h.hit = {} => \A i \in Bytes(p) : regs[TargetReg(i)] = val[<<p, i>>],
         effect' = <<[i \in Bytes(p) |-> regs[TargetReg(i)]], BytesOf(p)>>
  PROVE  EffectsMeant'
<1> SUFFICES ASSUME g'.hit = {} PROVE effect'[1] = effect'[2]
  BY DEF EffectsMeant
<1>1. \A i \in Bytes(p) : regs[TargetReg(i)] = val[<<p, i>>]
  BY DEF Stains
<1>2. [i \in Bytes(p) |-> regs[TargetReg(i)]] = BytesOf(p)
  BY <1>1 DEF BytesOf
<1> QED BY <1>2

(* What is read of fewer symbols is claimed no longer.                     *)
LEMMA OnlyLess ==
  ASSUME NEW E, NEW D \in SUBSET E, NEW o, NEW w, NEW h \in Sure(E, o, Only(E, w))
  PROVE  h \in Sure(D, o, Only(D, w))
<1> DEFINE v == Only(D, w)
           u == Only(E, w)
<1>1. Within(o, v, u)
  BY DEF Within, Only
<1> HIDE DEF v, u
<1>2. h \in Sure(E, o, v)
  BY <1>1, SureWeak DEF u
<1> QED BY <1>2, FirmLess DEF Sure, v

LEMMA PCallSure ==
  ASSUME CallInv, Sound, NEW p \in Syms, NEW x \in Syms, NEW c \in Literals(x), PCall(p, x, c)
  PROVE  Sound' /\ ArgumentsInPlace' /\ EffectsMeant'
<1> DEFINE starred == TargetStars(<<g, other>>, p, 2)
           s       == Saved
           loaded  == TargetBytes(s, p, 2)
           k       == IF p = x \/ g.liveTo[p] <= g.seq THEN loaded
                      ELSE [loaded EXCEPT !.hit = @ \cup {"pointer home kept"}]
           h       == IF isMain THEN starred[1] ELSE k
           regs    == IF isMain THEN starred[2] ELSE loaded.reg
           D       == Rest(g, x)
           E       == Rest(g, p)
           N       == Now(g)
           S       == 0 .. g.first - 1
           w       == Only(D, val)
<1>1. /\ CallFrom(h, x, c) /\ SizeOf[p] = 2 /\ g.liveTo[p] >= g.seq
      /\ \A i \in Bytes(p) : val[<<p, i>>] # Junk
      /\ effect' = <<[i \in Bytes(p) |-> regs[TargetReg(i)]], BytesOf(p)>>
  BY DEF PCall, Readable, TargetStars, TargetBytes
<1>2. /\ g \in Sure(N, g, val) /\ D \in SUBSET N /\ other \in OtherRegs
      /\ E \cup {p} \in SUBSET N
  <2>1. g \in Sure(N, g, val) /\ other \in OtherRegs /\ p \in N
    BY <1>1, NowSure, ReadIs DEF CallInv
  <2>2. g \in Firm(N, g)
    BY <2>1, SureIs
  <2>3. D \in SUBSET N /\ E \in SUBSET N
    BY <2>2, RestIs
  <2> QED BY <2>1, <2>3
<1>w. Within(g, w, val)
  BY OnlyClaims
<1>3. CASE isMain
  <2> DEFINE a == starred[1]
             z == starred[2]
  <2>1. /\ a \in Sure(N, g, val)
        /\ a.hit = {} => \A i \in Bytes(p) : z[TargetReg(i)] = val[<<p, i>>]
    <3> HIDE DEF D, E, N, S, w, h, s, regs
    <3>1. starred = TargetStars(<<g, other>>, p, 2)
      OBVIOUS
    <3> HIDE DEF starred
    <3>2. /\ starred[1] \in Sure(N, g, val)
          /\ starred[1].hit = {} => \A i \in Bytes(p) : starred[2][TargetReg(i)] = val[<<p, i>>]
      BY <1>1, <1>2, <3>1, TargetStarsSure DEF N
    <3> QED BY <3>2
  <2>2. h = a /\ regs = z
    BY <1>3
  <2> HIDE DEF a, z, starred, h, regs, D, E, N, w
  <2>3. a \in Sure(N, g, w)
    BY <1>w, <2>1, SureWeak
  <2>4. h \in Sure(D, g, w)
    BY <1>2, <2>2, <2>3, FirmLess DEF Sure
  <2>5. Sound' /\ ArgumentsInPlace' /\ Stains(h, g')
    BY <1>1, <1>3, <2>4, CallFromSure DEF D, w
  <2>6. EffectsMeant'
    BY <1>1, <2>1, <2>2, <2>5, EffectOf
  <2> QED BY <2>5, <2>6
<1>4. CASE ~isMain
  <2>0. h = k /\ regs = loaded.reg
    BY <1>4
  <2>1. /\ s \in Firm(E \cup {p}, g) /\ s \in Spared(E, g, S) /\ h \in Spared(D, g, S)
        /\ h.hit = {} => h = loaded /\ D \in SUBSET E
    <3>1. h = IF p = x \/ g.liveTo[p] <= g.seq THEN loaded
              ELSE [loaded EXCEPT !.hit = @ \cup {"pointer home kept"}]
      BY <2>0
    <3> HIDE DEF h, s
    <3>2. s = Saved
      BY DEF s
    <3> HIDE DEF loaded
    <3>3. loaded = TargetBytes(s, p, 2)
      BY DEF loaded
    <3> HIDE DEF k, regs, w, N, D, E, S
    <3>4. s \in Firm(Rest(g, p) \cup {p}, g) /\ s \in Spared(Rest(g, p), g, 0 .. g.first - 1)
      BY <1>1, <1>4, <3>1, <3>2, <3>3, PCallSpared
    <3>5. h \in Spared(Rest(g, x), g, 0 .. g.first - 1)
      BY <1>1, <1>4, <3>1, <3>2, <3>3, PCallSpared
    <3>6. Unmarked(h, loaded, p, x)
      BY <1>1, <1>4, <3>1, <3>2, <3>3, PCallSpared
    <3> QED BY <3>4, <3>5, <3>6 DEF D, E, S, Unmarked
  <2>2. s \in Sure(N, g, val)
    <3>1. s = Saves(g, ARG_REG_CNT)
      BY <1>4 DEF Saved, Saves, ForBytes
    <3> HIDE DEF s, N, D, E
    <3> QED BY <1>2, <3>1, SavesSure
  <2> HIDE DEF s
  <2>3. s \in Sure(E \cup {p}, g, val)
    BY <2>1, <2>2 DEF Sure
  <2>4. loaded \in Sure(E, g, Only(E, val)) /\ Addressed(loaded, p, val)
    <3> HIDE DEF E, D, h
    <3> QED BY <1>1, <2>1, <2>3, TargetBytesTold DEF E
  <2> HIDE DEF loaded, h, k, D, E, N, w, S
  <2>5. h \in Sure(D, g, w)
    <3>1. CASE h = loaded /\ D \in SUBSET E
      BY <2>4, <3>1, OnlyLess DEF w
    <3>2. CASE h.hit # {}
      <4>1. h \in Firm(D, g)
        BY <2>1 DEF Spared
      <4> QED BY <3>2, <4>1 DEF Sure
    <3> QED BY <2>1, <3>1, <3>2
  <2>6. Sound' /\ ArgumentsInPlace' /\ Stains(h, g')
    BY <1>1, <2>1, <2>5, CallFromSure DEF D, w, S
  <2>7. h.hit = {} => \A i \in Bytes(p) : regs[TargetReg(i)] = val[<<p, i>>]
    BY <2>0, <2>1, <2>4 DEF Addressed
  <2> HIDE DEF regs
  <2>8. EffectsMeant'
    BY <1>1, <2>6, <2>7, EffectOf
  <2> QED BY <2>6, <2>8
<1> QED BY <1>3, <1>4

-----------------------------------------------------------------------------
(* The value of port_out is in its register, if it has one, which names    *)
(* it, until it is printed: also when its last use was the first SEND.     *)
Holding(h, b, v) == h.home[b] # None => h.bank[h.home[b]] = b /\ h.reg[h.home[b]] = v

LEMMA ClearHolding ==
  ASSUME NEW o, NEW h \in Kept(Byte, {}, o), NEW b \in Places, NEW v, Holding(h, b, v),
         NEW r \in Regs, NEW k, k = clear(h, r)
  PROVE  k \in Kept(Byte, {}, o) /\ Holding(k, b, v) /\ k.home[b] # r
<1>1. /\ k \in Kept(Byte, {}, o) /\ k.reg = h.reg
      /\ k.home[b] = h.home[b] \/ k.home[b] = None
      /\ \A q \in Regs : q # r => k.bank[q] = h.bank[q]
  BY ClearKeeps
<1>2. h.home[b] \in Regs \cup {None} /\ r # None
  BY RegsAssumption DEF Kept, Gens, Regs
<1>3. CASE k.home[b] = None
  BY <1>1, <1>2, <1>3 DEF Holding
<1>4. CASE k.home[b] # None
  <2>1. h.home[b] # None /\ k.home[b] = h.home[b] /\ h.bank[h.home[b]] = b /\ h.reg[h.home[b]] = v
    BY <1>1, <1>4 DEF Holding
  <2>2. h.home[b] # r
    BY <1>4, <2>1, ClearNamed
  <2> QED BY <1>1, <1>2, <2>1, <2>2 DEF Holding
<1> QED BY <1>3, <1>4

LEMMA EmitHolding ==
  ASSUME NEW o, NEW h \in Kept(Byte, {}, o), NEW b \in Places, NEW v, Holding(h, b, v),
         NEW r \in Regs, h.home[b] # r, NEW c, NEW k, k = Emit(h, r, c)
  PROVE  Holding(k, b, v)
<1>1. h.reg \in [Regs -> Byte \cup {Junk}] /\ h.home[b] \in Regs \cup {None} /\ h \in Gens(Byte)
  BY DEF Kept, Gens
<1>2. k.home = h.home /\ k.bank = h.bank /\ k.reg = [h.reg EXCEPT ![r] = c]
  BY <1>1 DEF Emit, Gens
<1> QED BY <1>1, <1>2 DEF Holding

LEMMA TouchHolding ==
  ASSUME NEW o, NEW h \in Kept(Byte, {}, o), NEW b \in Places, NEW v, Holding(h, b, v),
         NEW x \in Syms, NEW i \in 0 .. MaxSize - 1, NEW c, c = <<x, i>>, c # b,
         h.home[c] # None => h.bank[h.home[c]] = None, NEW k, k = Touch(h, x, i)
  PROVE  Holding(k, b, v) /\ k.home[b] # k.home[c]
<1> DEFINE r == Victim(h)
           z == clear(h, r)
           a == Allocate(h, x, i)
<1>0. r \in Regs /\ r # None /\ c \in Places /\ b # None
  BY VictimIn, BytesArePlaces, RegsAssumption DEF Kept, Regs, Places
<1>1. CASE h.home[c] # None
  <2>1. k = h
    BY <1>1 DEF Touch
  <2> QED BY <1>0, <1>1, <2>1 DEF Holding
<1>2. CASE h.home[c] = None
  <2>1. k = IF a.at[x] # None THEN fetchVariable(a, x, i, a.home[c]) ELSE a
    BY <1>2 DEF Touch
  <2>2. a = Settled(z, r, x, i)
    BY DEF Allocate, Settled
  <2>a. a \in Kept(Byte, {}, o)
    BY AllocateKeeps
  <2> HIDE DEF r
  <2>3. z \in Kept(Byte, {}, o) /\ Holding(z, b, v) /\ z.home[b] # r
    BY <1>0, ClearHolding
  <2> HIDE DEF z
  <2>4. Gives(z, a, r, c)
    <3>1. Vacant(z, {}, r)
      BY DEF Vacant
    <3> QED BY <1>0, <2>2, <2>3, <3>1, SettleKeeps
  <2> HIDE DEF a
  <2>5. a.home[c] = r /\ a.home[b] = z.home[b] /\ a.home[b] # r
    BY <1>0, <2>3, <2>4 DEF Gives
  <2>6. Holding(a, b, v)
    <3>1. z.home[b] \in Regs \cup {None}
      BY <2>3 DEF Kept, Gens
    <3> QED BY <2>3, <2>4, <2>5, <3>1 DEF Holding, Gives
  <2>7. CASE a.at[x] # None
    <3>1. k = fetchVariable(a, x, i, r)
      BY <2>1, <2>5, <2>7
    <3> DEFINE q == MoveSP(a, a.at[x] + i, a.at[x] + i # a.offset \/ i > 0)
               u == a.ram[a.at[x] + i]
    <3>2. k = [q EXCEPT !.reg[r] = u]
      BY <3>1 DEF fetchVariable
    <3>3. q.home = a.home /\ q.bank = a.bank /\ q.reg = a.reg
      <4>1. a \in Gens(Byte)
        BY <2>a DEF Kept
      <4> QED BY <4>1 DEF MoveSP, Gens
    <3>4. k.home = a.home /\ k.bank = a.bank
      BY <1>0, <2>7, <2>a, <3>1, FetchKeeps
    <3>5. k.reg = [a.reg EXCEPT ![r] = u]
      <4>1. q \in Kept(Byte, {}, o)
        <5>1. a.at[x] + i \in Cells
          BY <2>7, <2>a, CellIn DEF Kept
        <5> DEFINE e == a.at[x] + i # a.offset \/ i > 0
        <5>2. e \in BOOLEAN
          OBVIOUS
        <5> HIDE DEF e
        <5> QED BY <2>a, <5>1, <5>2, MoveSPKeeps
      <4> HIDE DEF q, u
      <4> QED BY <3>2, <3>3, <4>1 DEF Kept, Gens
    <3>6. a.reg \in [Regs -> Byte \cup {Junk}] /\ a.home[b] \in Regs \cup {None}
      BY <2>a DEF Kept, Gens
    <3> HIDE DEF q, u
    <3> QED BY <2>5, <2>6, <3>4, <3>5, <3>6 DEF Holding
  <2>8. CASE a.at[x] = None
    <3>1. k = a
      BY <2>1, <2>8
    <3> QED BY <2>5, <2>6, <3>1
  <2> QED BY <2>7, <2>8
<1> QED BY <1>1, <1>2

(* The number of the port is sent: the value is where it was.              *)
LEMMA SendLitHolding ==
  ASSUME NEW o, NEW h \in Kept(Byte, {}, o), NEW b \in Places, NEW v, Holding(h, b, v),
         NEW c, NEW i, NEW r \in Regs, NEW k, k = SendLitByte(h, c, i, r)
  PROVE  Holding(k, b, v)
<1> DEFINE a == clear(h, r)
<1>1. a \in Kept(Byte, {}, o) /\ Holding(a, b, v) /\ a.home[b] # r
  BY ClearHolding
<1>2. k = Emit(a, r, c[i])
  BY DEF SendLitByte
<1> HIDE DEF a
<1> QED BY <1>1, <1>2, EmitHolding

LEMMA StarLitHolding ==
  ASSUME NEW o, NEW h \in Kept(Byte, {}, o), NEW b \in Places, b[1] # starSym, NEW v, Holding(h, b, v),
         NEW e, NEW c, NEW i \in 0 .. MaxSize - 1, c[i] \in Byte, NEW r,
         NEW u, u = StarLitByte(<<h, e>>, c, i, r)[1], u.hit = {}
  PROVE  Holding(u, b, v)
<1> DEFINE d == <<starSym, i>>
           s == h.home[d]
           k == Touch(h, starSym, i)
           t == k.home[d]
           m == Emit(k, t, c[i])
           H == IF s # None /\ h.bank[s] # None THEN m.hit \cup {"star register reused"} ELSE m.hit
           z == [m EXCEPT !.bank[m.home[d]] = None, !.hit = H]
<1>0. starSym \in Syms /\ d \in Places /\ d[1] = starSym /\ d # b
  BY BytesArePlaces, CallAssumption
<1>1. u = z
  BY DEF StarLitByte, LoadLit
<1>2. k \in Kept(Byte, {}, o) /\ t \in Regs
  BY <1>0, TouchKeeps
<1>3. m.home = k.home /\ m.bank = k.bank /\ m \in Kept(Byte, {}, o)
  <2> HIDE DEF k, t
  <2> QED BY <1>2, EmitKeeps
<1>4. z.hit = H /\ z.home = m.home /\ z.reg = m.reg /\ z.bank = [m.bank EXCEPT ![t] = None]
  <2>1. m \in Gens(Byte) /\ m.home[d] = t
    BY <1>3 DEF Kept
  <2> HIDE DEF m, t, H
  <2> QED BY <2>1 DEF Gens
<1>5. s # None => h.bank[s] = None
  <2>1. H = {}
    BY <1>1, <1>4
  <2> HIDE DEF m
  <2> QED BY <2>1
<1> HIDE DEF z, H
<1>6. Holding(k, b, v) /\ k.home[b] # t
  <2> HIDE DEF d
  <2>1. d = <<starSym, i>>
    BY DEF d
  <2> QED BY <1>0, <1>5, <2>1, TouchHolding
<1> HIDE DEF k, t
<1>7. Holding(m, b, v)
  BY <1>2, <1>6, EmitHolding
<1>8. m.home[b] \in Regs \cup {None} /\ m.bank \in [Regs -> Places \cup {None}]
  BY <1>3 DEF Kept, Gens
<1> HIDE DEF m
<1> QED BY <1>1, <1>2, <1>3, <1>4, <1>6, <1>7, <1>8 DEF Holding

-----------------------------------------------------------------------------
(* While a port_out is sent, its operand has a value and is held.          *)
Held == port # <<>> /\ g.hit = {} =>
          /\ port[1] # starSym /\ val[<<port[1], 0>>] # Junk
          /\ Holding(g, <<port[1], 0>>, val[<<port[1], 0>>])

(* An instruction that gives nothing a value: what it left is meant.       *)
LEMMA QuietSure ==
  ASSUME GenFirm, NEW h \in Sure(Now(g), g, val), Generate(h), val' = val
  PROVE  Sound' /\ g'.hit = h.hit /\ g'.home = h.home /\ g'.bank = h.bank /\ g'.reg = h.reg
<1> DEFINE D == Now(g)
<1>1. Stands(val)
  BY DEF Stands
<1>2. h \in Gens(Byte) /\ h \in Sure(D, g, val)
  BY SureIs, RightIs
<1> HIDE DEF D
<1>3. Sound' /\ g'.hit = h.hit
  BY <1>1, <1>2, GenerateSure
<1>4. g'.home = h.home /\ g'.bank = h.bank /\ g'.reg = h.reg
  BY <1>2 DEF Generate, Gens
<1> QED BY <1>3, <1>4

LEMMA SendPortSure ==
  ASSUME FormsInv, Sound, NEW v \in Syms, SendPort(v)
  PROVE  Sound' /\ Held'
<1> DEFINE b == <<v, 0>>
<1>1. /\ Generate(g) /\ port' = <<v>> /\ val' = val /\ g.liveTo[v] >= g.seq /\ val[b] # Junk
  <2>1. 0 \in Bytes(v)
    BY RegsAssumption DEF Bytes
  <2> QED BY <2>1 DEF SendPort, Readable
<1>2. GenFirm /\ g \in Sure(Now(g), g, val) /\ v # starSym /\ v \in Now(g) /\ b \in AllBytes /\ b \in Places
  <2>1. 0 \in Bytes(v)
    BY RegsAssumption DEF Bytes
  <2> QED BY <1>1, <2>1, NowSure, ReadIs, BytesArePlaces DEF FormsInv, CallInv
<1>3. Sound' /\ g'.hit = g.hit /\ g'.home = g.home /\ g'.bank = g.bank /\ g'.reg = g.reg
  BY <1>1, <1>2, QuietSure
<1>4. ASSUME g.hit = {} PROVE Holding(g, b, val[b])
  <2> SUFFICES ASSUME g.home[b] # None PROVE g.bank[g.home[b]] = b /\ g.reg[g.home[b]] = val[b]
    BY DEF Holding
  <2>1. Backed(g, Now(g)) /\ Means(g, val)
    BY <1>2, <1>4, SureIs, RightIs
  <2>2. g.bank[g.home[b]] = b
    BY <1>2, <2>1 DEF Backed
  <2>3. At(g, b) = val[b]
    BY <1>1, <1>2, <2>1 DEF Means
  <2> QED BY <2>2, <2>3 DEF At
<1> HIDE DEF b
<1>5. port'[1] = v
  BY <1>1
<1>6. g.hit = {} => Holding(g', b, val[b])
  BY <1>3, <1>4 DEF Holding
<1> QED BY <1>1, <1>2, <1>3, <1>5, <1>6 DEF Held, b

(* The number is put behind the operand.                                   *)
LEMMA PortNumberIs ==
  ASSUME FormsInv, Len(port) = 1, NEW n \in Arguments, port' = Append(port, n)
  PROVE  port[1] \in Syms /\ port # <<>> /\ port'[1] = port[1]
<1>1. port # <<>> /\ \A v \in Syms, w \in Arguments : port # <<v, w>>
  <2>1. port # <<>>
    BY Operands
  <2>2. ASSUME NEW v \in Syms, NEW w \in Arguments, port = <<v, w>> PROVE FALSE
    <3>1. Len(port) = 2
      BY <2>2, Operands
    <3> QED BY <3>1
  <2> QED BY <2>1, <2>2
<1>2. PICK v \in Syms : port = <<v>>
  BY <1>1 DEF FormsInv, PortIs
<1>3. port' = <<v, n>>
  BY <1>2, Operands
<1> QED BY <1>1, <1>2, <1>3

LEMMA SendPortNumberSure ==
  ASSUME FormsInv, Sound, Held, NEW r \in 0 .. REG_CNT + MaxSeq, NEW n \in Arguments, SendPortNumber(r, n)
  PROVE  Sound' /\ Held'
<1> DEFINE D == Now(g)
           a == StarLitByte(<<g, other>>, n, 0, r)
           z == a[1]
           e == SendLitByte(g, n, 0, r)
           h == IF isMain THEN z ELSE IF r \in Regs THEN e ELSE g
           beyond == r \notin Regs /\ ~(isMain /\ r = REG_CNT - 1)
           R == IF beyond THEN {"port beyond bank"} ELSE {}
           k == [h EXCEPT !.hit = h.hit \cup R]
           b == <<port[1], 0>>
           v == val[b]
<1>1. Generate(k) /\ val' = val /\ Len(port) = 1 /\ port' = Append(port, n) /\ Length(n) = 1
  BY DEF SendPortNumber
<1>2. port[1] \in Syms /\ port # <<>> /\ port'[1] = port[1]
  BY <1>1, PortNumberIs
<1>3. n[0] \in Byte /\ 0 \in 0 .. MaxSize - 1 /\ other \in OtherRegs
  <2>1. n \in Parcels
    BY CallAssumption DEF Parcels
  <2>2. Length(n) \in 1 .. MaxSize /\ n \in [0 .. Length(n) - 1 -> Byte]
    BY <2>1, ParcelIs
  <2>3. n[0] \in Byte
    <3>1. Length(n) = 1
      BY <1>1
    <3> QED BY <2>2, <3>1
  <2> QED BY <2>3, RegsAssumption DEF FormsInv, CallInv
<1>4. GenFirm /\ g \in Sure(D, g, val) /\ starSym \notin D /\ g \in Kept(Byte, {}, g) /\ b \in Places
  <2>1. GenFirm /\ g \in Sure(D, g, val) /\ starSym \notin D
    BY NowSure, StarSymDead DEF FormsInv
  <2>2. b \in Places
    BY <1>2, <1>3, BytesArePlaces
  <2> QED BY <2>1, <2>2, SureIs, RightIs
<1>5. h \in Sure(D, g, val) /\ Stains(g, h) /\ (g.hit = {} /\ h.hit = {} => Holding(h, b, v))
  <2>0. g.hit = {} => Holding(g, b, v) /\ b[1] # starSym
    BY <1>2 DEF Held
  <2>1. CASE isMain
    <3> DEFINE q == <<g, other>>
    <3>1. q \in Sure(D, g, val) \X OtherRegs /\ q[1] = g
      BY <1>3, <1>4
    <3> HIDE DEF q, D, b, v
    <3>2. z \in Sure(D, g, val) /\ (z.hit = {} => q[1].hit = {})
      <4>1. a = StarLitByte(q, n, 0, r)
        BY DEF q
      <4> HIDE DEF a
      <4> QED BY <1>3, <1>4, <3>1, <4>1, StarLitSure DEF D
    <3>3. ASSUME g.hit = {}, z.hit = {} PROVE Holding(z, b, v)
      <4> HIDE DEF q
      <4>1. z = StarLitByte(<<g, other>>, n, 0, r)[1]
        OBVIOUS
      <4> HIDE DEF z
      <4> QED BY <1>3, <1>4, <2>0, <3>3, <4>1, StarLitHolding
    <3>4. h = z
      BY <2>1
    <3> HIDE DEF h, z
    <3> QED BY <3>1, <3>2, <3>3, <3>4 DEF Stains
  <2>2. CASE ~isMain /\ r \in Regs
    <3>1. h = e
      BY <2>2
    <3> HIDE DEF h, b, v
    <3>2. e \in Sure(D, g, val) /\ (e.hit = {} => g.hit = {})
      BY <1>3, <1>4, <2>2, SendLitByteSure
    <3>3. ASSUME g.hit = {} PROVE Holding(e, b, v)
      BY <1>4, <2>0, <2>2, <3>3, SendLitHolding
    <3> QED BY <3>1, <3>2, <3>3 DEF Stains
  <2>3. CASE ~isMain /\ r \notin Regs
    <3>1. h = g
      BY <2>3
    <3> HIDE DEF h
    <3> QED BY <1>4, <2>0, <3>1 DEF Stains
  <2> QED BY <2>1, <2>2, <2>3
<1> HIDE DEF h
<1>6. k \in Sure(D, g, val) /\ (k.hit = {} => k = h)
  <2>1. CASE beyond
    <3>1. R \in Noted /\ R # {}
      BY <2>1 DEF Noted, Reasons
    <3>2. k = [h EXCEPT !.hit = h.hit \cup R] /\ h \in Sure(D, g, val)
      BY <1>5
    <3> HIDE DEF R, D, b, v, k, a, z, e
    <3>3. k \in Sure(D, g, val) /\ k.hit # {}
      BY <3>1, <3>2, NoteSure
    <3> QED BY <3>3
  <2>2. CASE ~beyond
    <3>1. k = [h EXCEPT !.hit = h.hit \cup {}]
      BY <2>2
    <3>2. h \in Gens(Byte)
      BY <1>5, SureIs, RightIs
    <3> HIDE DEF k
    <3>3. k = h
      BY <3>1, <3>2 DEF Gens
    <3> QED BY <1>5, <3>3
  <2> HIDE DEF k, beyond
  <2> QED BY <2>1, <2>2
<1> HIDE DEF k
<1>7. Sound' /\ g'.hit = k.hit /\ g'.home = k.home /\ g'.bank = k.bank /\ g'.reg = k.reg
  BY <1>1, <1>4, <1>6, QuietSure
<1>8. Held'
  <2> SUFFICES ASSUME g'.hit = {} PROVE /\ port[1] # starSym /\ val[b] # Junk /\ Holding(g', b, val[b])
    BY <1>1, <1>2 DEF Held
  <2>1. k = h /\ h.hit = {} /\ g.hit = {}
    BY <1>5, <1>6, <1>7 DEF Stains
  <2>2. Holding(k, b, v)
    BY <1>5, <2>1
  <2> QED BY <1>2, <1>7, <2>1, <2>2 DEF Held, Holding
<1> QED BY <1>7, <1>8

LEMMA PortOutIs ==
  ASSUME FormsInv, Len(port) = 2
  PROVE  port[1] \in Syms /\ port # <<>>
<1>1. port # <<>> /\ \A z \in Syms : port # <<z>>
  <2>1. port # <<>>
    BY Operands
  <2>2. ASSUME NEW z \in Syms, port = <<z>> PROVE FALSE
    <3>1. Len(port) = 1
      BY <2>2, Operands
    <3> QED BY <3>1
  <2> QED BY <2>1, <2>2
<1>2. PICK z \in Syms, n \in Arguments : port = <<z, n>>
  BY <1>1 DEF FormsInv, PortIs
<1> QED BY <1>1, <1>2

LEMMA PortOutSure ==
  ASSUME FormsInv, Sound, Held, PortOut
  PROVE  Sound' /\ Held' /\ EffectsMeant'
<1> DEFINE D == Now(g)
           p == port[1]
           b == <<p, 0>>
           k == Touch(g, p, 0)
           H == k.hit \cup {"operand dead"}
           m == [k EXCEPT !.hit = H]
           h == IF g.liveTo[p] < g.seq /\ g.home[b] = None THEN m ELSE k
<1>1. /\ Len(port) = 2 /\ Generate(h) /\ port' = <<>> /\ val' = val
      /\ effect' = <<k.reg[k.home[b]], val[b]>>
  BY DEF PortOut
<1>2. p \in Syms /\ port # <<>>
  <2>1. Len(port) = 2
    BY <1>1
  <2> QED BY <2>1, PortOutIs
<1>3. /\ GenFirm /\ g \in Sure(D, g, val) /\ g \in Firm(D, g) /\ 0 \in Bytes(p) /\ b \in AllBytes
      /\ g.liveTo[p] \in Nat /\ g.seq \in Nat /\ Covers(D, g)
  <2>1. GenFirm /\ g \in Sure(D, g, val) /\ Covers(D, g)
    BY NowSure DEF FormsInv
  <2>2. 0 \in Bytes(p) /\ b \in AllBytes
    BY <1>2, RegsAssumption, BytesArePlaces DEF Bytes
  <2>3. g \in Gens(Byte) /\ g \in Firm(D, g)
    BY <2>1, SureIs, RightIs
  <2> QED BY <1>2, <2>1, <2>2, <2>3 DEF Gens
<1>4. g.hit = {} => val[b] # Junk /\ Holding(g, b, val[b])
  BY <1>2 DEF Held
<1>9. g.liveTo[p] < g.seq <=> ~(g.liveTo[p] >= g.seq)
  <2> HIDE DEF D, p, b, k, H, m, h
  <2> QED BY <1>3
<1>5. k \in Firm(D, g) /\ k.home[b] \in Regs
  BY <1>2, <1>3, TouchFirm
<1>6. CASE g.liveTo[p] >= g.seq
  <2>1. h = k /\ p \in D
    <3>1. h = k
      BY <1>6, <1>9
    <3>2. p \in D
      <4> HIDE DEF p
      <4> QED BY <1>2, <1>6 DEF Now
    <3> QED BY <3>1, <3>2
  <2> HIDE DEF D, h, k
  <2>2. k \in Sure(D, g, val) /\ Grows(g, k)
    BY <1>2, <1>3, <2>1, TouchSure DEF k
  <2>3. Sound' /\ g'.hit = k.hit
    BY <1>1, <1>3, <2>1, <2>2, QuietSure DEF D
  <2>4. ASSUME k.hit = {} PROVE k.reg[k.home[b]] = val[b]
    <3>1. Means(k, val) /\ k.liveTo = g.liveTo /\ k.seq = g.seq /\ g.hit = {}
      BY <2>2, <2>4, SureIs, GrowsHit
    <3>2. At(k, b) = val[b] /\ k.home[b] # None
      BY <1>3, <1>4, <1>5, <1>6, <3>1, RegsAssumption DEF Means, Regs
    <3> QED BY <3>2 DEF At
  <2> QED BY <1>1, <2>3, <2>4 DEF Held, EffectsMeant
<1>7. CASE ~(g.liveTo[p] >= g.seq) /\ g.home[b] # None
  <2>1. k = g /\ h = k
    BY <1>7 DEF Touch
  <2> HIDE DEF h, k, D
  <2>2. Sound' /\ g'.hit = g.hit
    BY <1>1, <1>3, <2>1, QuietSure DEF D
  <2>3. g.hit = {} => k.reg[k.home[b]] = val[b]
    BY <1>4, <1>7, <2>1 DEF Holding
  <2> QED BY <1>1, <2>2, <2>3 DEF Held, EffectsMeant
<1>8. CASE ~(g.liveTo[p] >= g.seq) /\ g.home[b] = None
  <2>1. h = m
    <3> HIDE DEF m, k, b
    <3> QED BY <1>8, <1>9
  <2> HIDE DEF h, k, D
  <2>2. H \in Noted /\ k.hit \subseteq H /\ H # {}
    <3>1. {"operand dead"} \in Noted
      BY DEF Noted, Reasons
    <3> QED BY <1>5, <3>1, NotedMore
  <2>3. m \in Firm(D, g) /\ m.hit # {}
    <3> HIDE DEF H
    <3>1. m \in Firm(D, g)
      BY <1>5, <2>2, HitFirm
    <3>2. k \in Gens(Byte)
      BY <1>5, FirmIs DEF Kept
    <3> QED BY <2>2, <3>1, <3>2 DEF Gens
  <2> HIDE DEF m, H
  <2>4. m \in Sure(D, g, val)
    BY <2>3 DEF Sure
  <2>5. Sound' /\ g'.hit = m.hit
    BY <1>1, <1>3, <2>1, <2>4, QuietSure DEF D
  <2> QED BY <1>1, <2>3, <2>5 DEF Held, EffectsMeant
<1> QED BY <1>6, <1>7, <1>8

-----------------------------------------------------------------------------
(* Return.  Of what may be read only the bytes of x from i on are claimed  *)
(* when byte i is put into its result register.                            *)
Comes(w, x, i) == \A c \in AllBytes : w[c] # Junk => c[1] = x /\ c[2] >= i

(* Register i holds v, and those before it what they did.                  *)
Loaded(h, u, i, v) == u.hit = {} => u.reg[i] = v /\ \A q \in 0 .. i - 1 : u.reg[q] = h.reg[q]

LEMMA ReturnByteSure ==
  ASSUME NEW o, NEW w, NEW h \in Sure(Now(o), o, w), NEW x \in Syms, o.liveTo[x] >= o.seq,
         NEW i \in Bytes(x), NEW b, b = <<x, i>>, w[b] # Junk, Comes(w, x, i),
         NEW u, u = ReturnByte(h, x, i)
  PROVE  u \in Sure(Now(o), o, With(w, b, Junk)) /\ Stains(h, u) /\ Loaded(h, u, i, w[b])
<1> DEFINE D == Now(o)
           v == With(w, b, Junk)
           held == \E r \in Regs : h.bank[r] = b
           k == IF held THEN Touch(h, x, i) ELSE h
           m == IF held THEN Emit(k, i, k.reg[k.home[b]])
                ELSE IF h.at[x] # None THEN fetchVariable(h, x, i, i) ELSE Emit(h, i, Junk)
           marked == \/ \E j \in Bytes(x) : j > i /\ h.home[<<x, j>>] = i
                     \/ \E q \in 0 .. i - 1 : m.reg[q] # h.reg[q]
           e == [m EXCEPT !.hit = @ \cup {"result overwritten"}]
<1>0. /\ b \in AllBytes /\ b \in Places /\ b[1] = x /\ i \in Regs /\ i # None /\ x \in D /\ Covers(D, o)
      /\ i \in 0 .. MaxSize - 1 /\ i \in Nat
  <2>1. i \in Regs /\ i \in 0 .. MaxSize - 1 /\ i \in Nat /\ i # None
    BY CallAssumption, RegsAssumption, BytesArePlaces DEF Regs, Bytes
  <2> QED BY <2>1, BytesArePlaces, NowCovers DEF Now
<1>1. /\ h \in Firm(D, o) /\ h \in Right(Byte, {}, o, w) /\ h \in Kept(Byte, {}, o) /\ h \in Gens(Byte)
      /\ h.liveTo = o.liveTo /\ h.seq = o.seq
      /\ h.hit = {} => Means(h, w) /\ Backed(h, D)
  BY SureIs, RightIs
<1>2. u \in Firm(D, o)
  BY <1>1, ReturnByteFirm
<1>3. Within(o, v, w)
  BY DEF Within, With
<1>4. h \in Sure(D, o, v)
  <2> HIDE DEF v, D
  <2> QED BY <1>3, SureWeak DEF D
<1>5. h.hit = {} => At(h, b) = w[b]
  BY <1>0, <1>1 DEF Means
<1>6. ASSUME NEW c \in AllBytes, v[c] # Junk
      PROVE  c = <<x, c[2]>> /\ c[2] > i /\ c[2] \in Bytes(x) /\ c # b /\ c \in Places
  <2>1. c # b /\ w[c] # Junk
    BY <1>6 DEF With
  <2>2. c[1] = x /\ c[2] >= i /\ c = <<c[1], c[2]>> /\ c[2] \in Bytes(c[1]) /\ c \in Places
    BY <2>1, BytesArePlaces DEF Comes
  <2>3. c[2] # i
    BY <2>1, <2>2
  <2>4. c[2] > i
    BY <1>0, <2>2, <2>3 DEF Bytes
  <2> QED BY <2>1, <2>2, <2>4
<1>7. CASE h.home[b] = i
  <2>1. u = h
    BY <1>7 DEF ReturnByte
  <2>2. h.hit = {} => h.reg[i] = w[b]
    BY <1>0, <1>5, <1>7 DEF At
  <2> HIDE DEF v, D
  <2> QED BY <1>4, <2>1, <2>2 DEF Stains, Loaded, v, D
<1>8. CASE h.home[b] # i
  <2>1. u = IF marked THEN e ELSE m
    BY <1>8 DEF ReturnByte
  (* Unless another byte of x was in the register, none that v claims was. *)
  <2>2. ASSUME ~marked, NEW c \in AllBytes, v[c] # Junk PROVE h.home[c] # i
    <3>1. c = <<x, c[2]>> /\ c[2] > i /\ c[2] \in Bytes(x)
      BY <1>6, <2>2
    <3>2. \A j \in Bytes(x) : ~(j > i /\ h.home[<<x, j>>] = i)
      BY <2>2
    <3> HIDE DEF marked, v
    <3> QED BY <3>1, <3>2
  <2>3. CASE held
    <3>1. k = Touch(h, x, i) /\ m = Emit(k, i, k.reg[k.home[b]])
      BY <2>3
    <3> HIDE DEF k, D, v
    <3>2. k \in Sure(D, o, w) /\ Grows(h, k) /\ k.home[b] \in Regs /\ Alone(h, k, b)
      BY <1>0, <3>1, TouchSure DEF D
    <3>3. k \in Sure(D, o, v)
      BY <1>3, <3>2, SureWeak
    <3>4. k.reg[k.home[b]] \in Byte \cup {Junk}
      BY <3>2, SureIs, RegIn
    <3>5. k \in Gens(Byte) /\ (k.hit = {} => Means(k, w)) /\ k.liveTo = o.liveTo /\ k.seq = o.seq
      BY <3>2, SureIs, RightIs
    <3>6. k.hit = {} => k.reg[k.home[b]] = w[b]
      <4> SUFFICES ASSUME k.hit = {} PROVE k.reg[k.home[b]] = w[b]
        OBVIOUS
      <4>1. At(k, b) = w[b] /\ k.home[b] # None
        BY <1>0, <3>2, <3>5, RegsAssumption DEF Means, Regs
      <4> QED BY <4>1 DEF At
    <3>7. ~marked => Over(o, k, v, i, k.reg[k.home[b]])
      <4> SUFFICES ASSUME ~marked, NEW c \in AllBytes, v[c] # Junk, k.home[c] = i PROVE FALSE
        BY DEF Over
      <4>1. h.home[c] # i /\ c # b /\ c \in Places
        BY <1>6, <2>2
      <4>2. k.home[c] = h.home[c] \/ k.home[c] = None
        BY <3>2, <4>1 DEF Alone
      <4> QED BY <1>0, <4>1, <4>2
    <3>8. m.hit = k.hit /\ m.reg[i] = k.reg[k.home[b]]
      <4> DEFINE q == k.reg[k.home[b]]
      <4> HIDE DEF q
      <4>1. m = Emit(k, i, q)
        BY <3>1 DEF q
      <4> HIDE DEF m
      <4> QED BY <1>0, <3>5, <4>1 DEF Emit, Gens, q
    <3>9. ~marked => m \in Sure(D, o, v)
      <4> HIDE DEF marked, m
      <4> QED BY <1>0, <3>1, <3>3, <3>4, <3>7, EmitSure
    <3>10. m \in Gens(Byte)
      <4> HIDE DEF m
      <4>1. k \in Firm(D, o)
        BY <3>2, SureIs
      <4>2. m \in Firm(D, o)
        BY <1>0, <3>1, <3>4, <4>1, EmitFirm
      <4> QED BY <4>2, FirmIs DEF Kept
    <3>11. CASE marked
      <4>1. u.hit # {}
        <5> HIDE DEF m
        <5> QED BY <2>1, <3>10, <3>11 DEF Gens
      <4> QED BY <1>2, <4>1 DEF Sure, Stains, Loaded, D
    <3>12. CASE ~marked
      <4>1. u = m /\ \A q \in 0 .. i - 1 : m.reg[q] = h.reg[q]
        BY <2>1, <3>12
      <4>2. m \in Sure(D, o, v)
        BY <3>9, <3>12
      <4> HIDE DEF m, marked
      <4> QED BY <3>2, <3>6, <3>8, <4>1, <4>2, GrowsHit DEF Stains, Loaded, D, v
    <3> QED BY <3>11, <3>12
  <2>4. CASE ~held
    <3>1. h.hit = {} => h.home[b] = None
      <4> SUFFICES ASSUME h.hit = {}, h.home[b] # None PROVE FALSE
        OBVIOUS
      <4>1. h.bank[h.home[b]] = b /\ h.home[b] \in Regs
        BY <1>0, <1>1 DEF Backed, Gens
      <4> QED BY <2>4, <4>1
    <3>2. h.hit = {} => h.at[x] # None /\ h.ram[h.at[x] + i] = w[b]
      BY <1>0, <1>5, <3>1 DEF At
    <3>3. CASE h.at[x] # None
      <4> DEFINE c == h.at[x] + i
      <4>1. m = fetchVariable(h, x, i, i)
        BY <2>4, <3>3
      <4>2. ~marked => Over(o, h, v, i, h.ram[c])
        <5> SUFFICES ASSUME ~marked, NEW d \in AllBytes, v[d] # Junk, h.home[d] = i PROVE FALSE
          BY DEF Over
        <5> QED BY <2>2
      <4> HIDE DEF c
      <4>c. c = h.at[x] + i
        BY DEF c
      <4> HIDE DEF D, v
      <4>3. m.hit = h.hit /\ m.reg = [h.reg EXCEPT ![i] = h.ram[c]] /\ m \in Gens(Byte)
        <5> DEFINE z == [d \in AllBytes |-> Junk]
        <5>1. Within(o, z, w)
          BY DEF Within
        <5>2. h \in Right(Byte, {}, o, z)
          BY <1>1, <5>1, RightWeak
        <5>3. Over(o, h, z, i, h.ram[c])
          BY DEF Over
        <5> HIDE DEF z, m
        <5>4. m \in Right(Byte, {}, o, z) /\ m.hit = h.hit /\ m.reg = [h.reg EXCEPT ![i] = h.ram[c]]
          BY <1>0, <3>3, <4>1, <4>c, <5>2, <5>3, FetchOver
        <5> QED BY <5>4, RightIs
      <4>4. m.reg[i] = h.ram[c]
        <5> HIDE DEF m
        <5> QED BY <1>0, <1>1, <4>3 DEF Gens
      <4>5. CASE marked
        <5>1. u.hit # {}
          <6>1. u = e
            BY <2>1, <4>5
          <6>2. m \in Gens(Byte)
            BY <4>3
          <6> HIDE DEF m
          <6>3. e.hit = m.hit \cup {"result overwritten"}
            BY <6>2 DEF Gens
          <6> HIDE DEF e
          <6> QED BY <6>1, <6>3
        <5> QED BY <1>2, <5>1 DEF Sure, Stains, Loaded, D
      <4>6. CASE ~marked
        <5>1. u = m /\ \A q \in 0 .. i - 1 : m.reg[q] = h.reg[q]
          BY <2>1, <4>6
        <5> HIDE DEF m, marked
        <5>2. h \in Right(Byte, {}, o, v)
          BY <1>4, SureIs
        <5>3. m \in Right(Byte, {}, o, v)
          BY <1>0, <3>3, <4>1, <4>2, <4>6, <4>c, <5>2, FetchOver
        <5>4. m \in Sure(D, o, v)
          BY <1>2, <5>1, <5>3 DEF Sure, Right, D
        <5>5. m.hit = {} => m.reg[i] = w[b]
          BY <3>2, <4>3, <4>4, <4>c
        <5> QED BY <4>3, <5>1, <5>4, <5>5 DEF Stains, Loaded, D, v
      <4> QED BY <4>5, <4>6
    <3>4. CASE h.at[x] = None
      <4>1. h.hit # {}
        BY <3>2, <3>4
      <4>2. m = Emit(h, i, Junk)
        BY <2>4, <3>4
      <4>3. m.hit = h.hit /\ m \in Gens(Byte)
        <5> HIDE DEF m
        <5>1. m \in Kept(Byte, {}, o)
          BY <1>0, <1>1, <4>2, EmitKeeps
        <5> QED BY <1>1, <4>2, <5>1 DEF Emit, Gens, Kept
      <4>4. u.hit # {}
        <5> HIDE DEF m
        <5>1. u = m \/ u = e
          BY <2>1
        <5> QED BY <4>1, <4>3, <5>1 DEF Gens
      <4> QED BY <1>2, <4>4 DEF Sure, Stains, Loaded, D
    <3> QED BY <3>3, <3>4
  <2> QED BY <2>3, <2>4
<1> QED BY <1>7, <1>8

LEMMA ReturnBytesSure ==
  ASSUME NEW o, NEW w, NEW h \in Sure(Now(o), o, w), NEW x \in Syms, o.liveTo[x] >= o.seq,
         \A i \in Bytes(x) : w[<<x, i>>] # Junk, NEW u, u = ReturnBytes(h, x, SizeOf[x])
  PROVE  /\ u \in Firm(Now(o), o) /\ Stains(h, u)
         /\ u.hit = {} => \A i \in Bytes(x) : u.reg[i] = w[<<x, i>>]
<1> DEFINE n == SizeOf[x]
           W(j) == [c \in AllBytes |-> IF c[1] = x /\ c[2] >= j THEN w[c] ELSE Junk]
           J(j) == {k \in Sure(Now(o), o, W(j)) :
                      Stains(h, k) /\ (k.hit = {} => \A q \in 0 .. j - 1 : k.reg[q] = w[<<x, q>>])}
           K == [j \in 0 .. n |-> J(j)]
<1>0. n \in Nat /\ Bytes(x) = 0 .. n - 1
  BY RegsAssumption DEF Bytes
<1>1. h \in K[0]
  <2>1. Within(o, W(0), w)
    BY DEF Within
  <2> HIDE DEF W
  <2>2. h \in Sure(Now(o), o, W(0))
    BY <2>1, SureWeak
  <2>3. h \in J(0)
    BY <2>2 DEF Stains
  <2> QED BY <1>0, <2>3
<1>2. ASSUME NEW i \in 0 .. n - 1, NEW k \in K[i] PROVE ReturnByte(k, x, i) \in K[i + 1]
  <2> DEFINE t == ReturnByte(k, x, i)
             v == W(i)
             b == <<x, i>>
  <2>0. i \in 0 .. n /\ i + 1 \in 0 .. n /\ i \in Bytes(x) /\ i \in Nat
    <3> HIDE DEF n
    <3> QED BY <1>0
  <2>k. k \in J(i) /\ K[i + 1] = J(i + 1)
    <3> HIDE DEF J, n
    <3> QED BY <2>0
  <2>1. /\ k \in Sure(Now(o), o, v) /\ Stains(h, k)
        /\ k.hit = {} => \A q \in 0 .. i - 1 : k.reg[q] = w[<<x, q>>]
    <3> HIDE DEF K, W, n
    <3> QED BY <2>k
  <2>2. b \in AllBytes /\ v[b] = w[b] /\ v[b] # Junk
    <3>1. b \in AllBytes /\ b[1] = x /\ b[2] = i
      BY <2>0, BytesArePlaces
    <3> QED BY <2>0, <3>1
  <2>3. Comes(v, x, i)
    BY DEF Comes
  <2>4. Within(o, W(i + 1), With(v, b, Junk))
    <3> SUFFICES ASSUME NEW c \in AllBytes, W(i + 1)[c] # Junk PROVE W(i + 1)[c] = With(v, b, Junk)[c]
      BY DEF Within
    <3>1. c[1] = x /\ c[2] >= i + 1 /\ W(i + 1)[c] = w[c] /\ c[2] \in Bytes(x)
      BY BytesArePlaces
    <3>2. c # b /\ c[2] >= i
      BY <1>0, <2>0, <3>1
    <3> QED BY <3>1, <3>2 DEF With
  <2>5. b = <<x, i>> /\ t = ReturnByte(k, x, i)
    OBVIOUS
  <2> HIDE DEF K, J, v, W, t, b
  <2>6. t \in Sure(Now(o), o, With(v, b, Junk)) /\ Stains(k, t) /\ Loaded(k, t, i, v[b])
    BY <2>0, <2>1, <2>2, <2>3, <2>5, ReturnByteSure
  <2>7. t \in Sure(Now(o), o, W(i + 1))
    <3> DEFINE z == With(v, b, Junk)
    <3> HIDE DEF z
    <3> QED BY <2>4, <2>6, SureWeak DEF z
  <2>8. Stains(h, t)
    BY <2>1, <2>6 DEF Stains
  <2>9. ASSUME t.hit = {}, NEW q \in 0 .. (i + 1) - 1 PROVE t.reg[q] = w[<<x, q>>]
    <3>1. k.hit = {} /\ t.reg[i] = v[b] /\ \A p \in 0 .. i - 1 : t.reg[p] = k.reg[p]
      BY <2>6, <2>9 DEF Stains, Loaded
    <3>2. CASE q = i
      BY <2>2, <3>1, <3>2 DEF b
    <3>3. CASE q # i
      <4>1. q \in 0 .. i - 1
        BY <2>0, <2>9, <3>3
      <4> QED BY <2>1, <3>1, <4>1
    <3> QED BY <3>2, <3>3
  <2> QED BY <2>k, <2>7, <2>8, <2>9 DEF J, t
<1>3. K[n] = J(n)
  BY <1>0
<1> HIDE DEF K
<1>4. ReturnBytes(h, x, n) \in K[n]
  <2> HIDE DEF J, n
  <2> QED BY <1>0, <1>1, <1>2, ReturnBytesReach
<1>5. u \in J(n)
  BY <1>3, <1>4
<1> QED BY <1>0, <1>5, SureIs

(* What outlives the function is stored before.                            *)
LEMMA OutlivesSure ==
  ASSUME NEW D, NEW o, NEW w, NEW h \in Sure(D, o, w), NEW k, k = Outlives(h, REG_CNT - 1)
  PROVE  k \in Sure(D, o, w) /\ Stains(h, k)
<1> DEFINE n == REG_CNT - 1
           J == {e \in Sure(D, o, w) : Stains(h, e)}
           K == [j \in 0 .. n |-> J]
<1>0. n \in Nat /\ 0 .. n - 1 \subseteq Regs
  BY RegsAssumption DEF Regs
<1>1. h \in K[0]
  BY <1>0 DEF Stains
<1>2. ASSUME NEW i \in 0 .. n - 1, NEW e \in K[i] PROVE OutliveByte(e, i) \in K[i + 1]
  <2>1. e \in Sure(D, o, w) /\ Stains(h, e) /\ i \in Regs /\ K[i + 1] = J
    BY <1>0
  <2>2. clear(e, i) \in Sure(D, o, w) /\ Stains(e, clear(e, i))
    BY <2>1, ClearSure, GrowsHit DEF Stains
  <2>3. OutliveByte(e, i) \in {e, clear(e, i)}
    BY DEF OutliveByte
  <2> HIDE DEF K
  <2> QED BY <2>1, <2>2, <2>3 DEF Stains
<1>3. K[n] = J
  BY <1>0
<1> HIDE DEF K, n, J
<1>4. Outlives(h, n) \in K[n]
  BY <1>0, <1>1, <1>2, OutlivesReach
<1> QED BY <1>3, <1>4 DEF J, n

LEMMA ReturnSure ==
  ASSUME CallInv, Sound, NEW x \in Syms, Return(x), g'.hit = {}, NEW i \in Bytes(x)
  PROVE  g'.reg[i] = val[<<x, i>>]
<1> DEFINE e == Outlives(g, REG_CNT - 1)
           h == ReturnBytes(e, x, SizeOf[x])
<1>1. Generate(h) /\ g.liveTo[x] >= g.seq /\ \A j \in Bytes(x) : val[<<x, j>>] # Junk
  BY DEF Return, Readable, Stored, Outlives, OutliveByte, ReturnBytes, ForBytes
<1>2. e \in Sure(Now(g), g, val)
  BY NowSure, OutlivesSure
<1> HIDE DEF e
<1>3. /\ h \in Firm(Now(g), g)
      /\ h.hit = {} => \A j \in Bytes(x) : h.reg[j] = val[<<x, j>>]
  BY <1>1, <1>2, ReturnBytesSure
<1>4. h \in Gens(Byte)
  BY <1>3, FirmIs DEF Kept
<1> HIDE DEF h
<1>5. g'.hit = h.hit /\ g'.reg = h.reg
  BY <1>1, <1>4 DEF Generate, Gens
<1> QED BY <1>3, <1>5

-----------------------------------------------------------------------------
(* What holds of a function that calls others, in every state.             *)
MeantInv ==
  /\ FormsInv
  /\ done => params = <<>> /\ port = <<>>
  /\ ~done => Sound
  /\ ArgumentsInPlace /\ Held /\ EffectsMeant

LEMMA MeantInvInit == FormsInit => MeantInv
<1> SUFFICES ASSUME FormsInit PROVE MeantInv
  OBVIOUS
<1>1. FormsInv
  BY FormsInvInit
<1>2. /\ val = [b \in AllBytes |-> Junk] /\ sent = <<>> /\ done = FALSE /\ port = <<>> /\ effect = None
  BY DEF FormsInit, CallInit
<1>3. Sound
  BY <1>2 DEF Sound, Means
<1>4. ArgumentsInPlace
  BY <1>2 DEF ArgumentsInPlace
<1>5. Held /\ EffectsMeant
  BY <1>2 DEF Held, EffectsMeant
<1> QED BY <1>1, <1>2, <1>3, <1>4, <1>5 DEF MeantInv

(* A step of PbCall: no port_out is under way, and nothing is done to the  *)
(* world.                                                                  *)
LEMMA CallNextMeant ==
  ASSUME MeantInv, port = <<>>, CallNext, port' = port, effect' = None, FormsInv'
  PROVE  MeantInv'
<1>0. CallInv /\ Held' /\ EffectsMeant'
  BY DEF MeantInv, FormsInv, Held, EffectsMeant
<1>1. ASSUME NEW x \in Syms, NEW c \in Literals(x), Receive(x, c) PROVE MeantInv'
  <2>1. sent = <<>> /\ sent' = sent /\ ~done /\ done' = done
    BY <1>0, <1>1 DEF MeantInv, Receive, CallInv, Packed
  <2>2. Sound'
    BY <1>0, <1>1, <2>1, ReceiveSure DEF MeantInv
  <2>3. ArgumentsInPlace'
    BY <2>1, ArgumentsNone
  <2> QED BY <1>0, <2>1, <2>2, <2>3 DEF MeantInv
<1>2. ASSUME NEW x \in Syms, NEW y \in Syms, Body(Assign(x, y)) PROVE MeantInv'
  <2>1. /\ sent = <<>> /\ sent' = sent /\ ~done /\ done' = done /\ params = <<>> /\ params' = params
        /\ Assign(x, y)
    BY <1>2 DEF Body, Ready
  <2>2. Sound'
    BY <1>0, <2>1, AssignSure DEF MeantInv
  <2>3. ArgumentsInPlace'
    BY <2>1, ArgumentsNone
  <2> QED BY <1>0, <2>1, <2>2, <2>3 DEF MeantInv
<1>3. ASSUME NEW x \in Syms, NEW c \in Literals(x), Body(AssignLit(x, c)) PROVE MeantInv'
  <2>1. /\ sent = <<>> /\ sent' = sent /\ ~done /\ done' = done /\ params = <<>> /\ params' = params
        /\ AssignLit(x, c)
    BY <1>3 DEF Body, Ready
  <2>2. Sound'
    BY <1>0, <2>1, AssignLitSure DEF MeantInv
  <2>3. ArgumentsInPlace'
    BY <2>1, ArgumentsNone
  <2> QED BY <1>0, <2>1, <2>2, <2>3 DEF MeantInv
<1>4. ASSUME NEW x \in Syms, Send(x) PROVE MeantInv'
  <2>1. ~done /\ done' = done /\ params = <<>> /\ params' = params
    BY <1>4 DEF Send, SendBytes, Ready
  <2>2. Sound' /\ ArgumentsInPlace'
    BY <1>0, <1>4, <2>1, SendSure DEF MeantInv
  <2> QED BY <1>0, <2>1, <2>2 DEF MeantInv
<1>5. ASSUME NEW c \in Arguments, SendLit(c) PROVE MeantInv'
  <2>1. ~done /\ done' = done /\ params = <<>> /\ params' = params
    BY <1>5 DEF SendLit, SendBytes, Ready
  <2>2. Sound' /\ ArgumentsInPlace'
    BY <1>0, <1>5, <2>1, SendLitSure DEF MeantInv
  <2> QED BY <1>0, <2>1, <2>2 DEF MeantInv
<1>6. ASSUME NEW x \in Syms, NEW c \in Literals(x), Call(x, c) PROVE MeantInv'
  <2>1. ~done /\ done' = done /\ params = <<>> /\ params' = params
    BY <1>6 DEF Call, CallFrom, Ready
  <2>2. Sound' /\ ArgumentsInPlace'
    BY <1>0, <1>6, <2>1, CallSure DEF MeantInv
  <2> QED BY <1>0, <2>1, <2>2 DEF MeantInv
<1>7. ASSUME NEW x \in Syms, Return(x) PROVE MeantInv'
  <2>1. done' = TRUE /\ params = <<>> /\ params' = params /\ sent = <<>> /\ sent' = sent
    BY <1>7 DEF Return, Ready
  <2>2. ArgumentsInPlace'
    BY <2>1, ArgumentsNone
  <2> QED BY <1>0, <2>1, <2>2 DEF MeantInv
<1> QED BY <1>1, <1>2, <1>3, <1>4, <1>5, <1>6, <1>7 DEF CallNext

LEMMA MeantInvStep == MeantInv /\ [FormsNext]_formsVars => MeantInv'
<1> SUFFICES ASSUME MeantInv, [FormsNext]_formsVars PROVE MeantInv'
  OBVIOUS
<1>0. FormsInv /\ CallInv /\ Held /\ FormsInv'
  BY FormsInvStep DEF MeantInv, FormsInv
<1>1. CASE UNCHANGED formsVars
  <2>1. lastReg' = lastReg /\ ArgumentsInPlace' /\ Held' /\ EffectsMeant' /\ Sound' = Sound
    BY <1>1 DEF MeantInv, formsVars, lastReg, ArgumentsInPlace, ArgReg, Sent, Held, Holding, EffectsMeant,
                Sound, Means, At
  <2> QED BY <1>0, <1>1, <2>1 DEF MeantInv, formsVars
<1>2. CASE /\ port = <<>> /\ CallNext
           /\ stale' = IF Len(sent') > Len(sent) THEN lastReg' ELSE stale
           /\ effect' = None /\ UNCHANGED port
  BY <1>0, <1>2, CallNextMeant
<1>3. ASSUME NEW p \in Syms, NEW x \in Syms, NEW c \in Literals(x), PCall(p, x, c) PROVE MeantInv'
  <2>1. ~done /\ done' = done /\ params = <<>> /\ params' = params /\ port = <<>> /\ port' = port
    BY <1>3 DEF PCall, CallFrom, Ready
  <2>2. Sound' /\ ArgumentsInPlace' /\ EffectsMeant'
    BY <1>0, <1>3, <2>1, PCallSure DEF MeantInv
  <2>3. Held'
    BY <2>1 DEF Held
  <2> QED BY <1>0, <2>1, <2>2, <2>3 DEF MeantInv
<1>4. ASSUME NEW v \in Syms, SendPort(v) PROVE MeantInv'
  <2>1. /\ ~done /\ done' = done /\ params = <<>> /\ params' = params /\ sent = <<>> /\ sent' = sent
        /\ effect' = None
    BY <1>4 DEF SendPort, Ready
  <2>2. Sound' /\ Held'
    BY <1>0, <1>4, <2>1, SendPortSure DEF MeantInv
  <2>3. ArgumentsInPlace' /\ EffectsMeant'
    BY <2>1, ArgumentsNone DEF EffectsMeant
  <2> QED BY <1>0, <2>1, <2>2, <2>3 DEF MeantInv
<1>5. ASSUME NEW r \in 0 .. REG_CNT + MaxSeq, NEW n \in Arguments, SendPortNumber(r, n) PROVE MeantInv'
  <2>1. port # <<>> /\ done' = done /\ params' = params /\ sent' = sent /\ effect' = None
    <3>1. Len(port) = 1
      BY <1>5 DEF SendPortNumber
    <3>2. port # <<>>
      BY <3>1
    <3> QED BY <1>5, <3>2 DEF SendPortNumber
  <2>2. ~done /\ params = <<>> /\ sent = <<>>
    BY <1>0, <2>1 DEF MeantInv, FormsInv, PortIs
  <2>3. Sound' /\ Held'
    BY <1>0, <1>5, <2>2, SendPortNumberSure DEF MeantInv
  <2>4. ArgumentsInPlace' /\ EffectsMeant'
    BY <2>1, <2>2, ArgumentsNone DEF EffectsMeant
  <2> QED BY <1>0, <2>1, <2>2, <2>3, <2>4 DEF MeantInv
<1>6. CASE PortOut
  <2>1. port # <<>> /\ port' = <<>> /\ done' = done /\ params' = params /\ sent' = sent
    <3>1. Len(port) = 2
      BY <1>6 DEF PortOut
    <3>2. port # <<>>
      BY <3>1
    <3> QED BY <1>6, <3>2 DEF PortOut
  <2>2. ~done /\ params = <<>> /\ sent = <<>>
    BY <1>0, <2>1 DEF MeantInv, FormsInv, PortIs
  <2>3. Sound' /\ Held' /\ EffectsMeant'
    BY <1>0, <1>6, <2>2, PortOutSure DEF MeantInv
  <2>4. ArgumentsInPlace'
    BY <2>1, <2>2, ArgumentsNone
  <2> QED BY <1>0, <2>1, <2>2, <2>3, <2>4 DEF MeantInv
<1> QED BY <1>1, <1>2, <1>3, <1>4, <1>5, <1>6 DEF FormsNext

(* A function that calls others keeps what its code means, its arguments   *)
(* and its effects together: what Receive, Send, Call, Return, PCALL and   *)
(* port_out of gen.cc each rely on, the others leave behind them.          *)
THEOREM MeantInvariant == FormsSpec => []MeantInv
<1>1. FormsInit => MeantInv
  BY MeantInvInit
<1>2. MeantInv /\ [FormsNext]_formsVars => MeantInv'
  BY MeantInvStep
<1> QED BY <1>1, <1>2, PTL DEF FormsSpec

(* The code of a function that calls others computes what the program      *)
(* means until it returns, through its parameters and every call, on any   *)
(* number of registers and with any split of them (gen.cc, ralloc.cc): as  *)
(* long as none of the hazards that g.hit names was met, every byte that   *)
(* may still be read is in its register, or on the stack when it has none. *)
THEOREM CallsAlwaysCoherent == FormsSpec => []CallCoherent
<1>1. ASSUME MeantInv PROVE CallCoherent
  <2> SUFFICES ASSUME ~done, g.hit = {}, NEW x \in Syms, g.liveTo[x] >= g.seq, NEW i \in Bytes(x),
                      val[<<x, i>>] # Junk
               PROVE  Reads(x, i) = val[<<x, i>>]
    BY DEF CallCoherent, Coherent, Live
  <2>1. <<x, i>> \in AllBytes
    BY BytesArePlaces
  <2>2. At(g, <<x, i>>) = val[<<x, i>>]
    BY <1>1, <2>1 DEF MeantInv, Sound, Means
  <2> QED BY <2>2 DEF Reads, At
<1> QED BY <1>1, MeantInvariant, PTL

(* The callee finds every argument where it looks for it (gen.cc, Send and *)
(* Receive): each stays in the registers its Send put it in, packed from   *)
(* register 0 on, whatever the later ones evict or reload.                 *)
THEOREM ArgumentsAlwaysInPlace == FormsSpec => []ArgumentsInPlace
<1>1. MeantInv => ArgumentsInPlace
  BY DEF MeantInv
<1> QED BY <1>1, MeantInvariant, PTL

(* A call through a pointer goes to the address the program gave it, and   *)
(* port_out writes the value the program gave it (gen.cc, PCALL and Send). *)
THEOREM EffectsAlwaysMeant == FormsSpec => []EffectsMeant
<1>1. MeantInv => EffectsMeant
  BY DEF MeantInv
<1> QED BY <1>1, MeantInvariant, PTL

(* A function that returns leaves the bytes of the operand of its return   *)
(* statement in its result registers (gen.cc, Return), wherever they were. *)
THEOREM ReturnsAlwaysResult == FormsSpec => ReturnsResult
<1> DEFINE Answered == \A x \in Syms : Return(x) /\ g'.hit = {} =>
                                       \A i \in Bytes(x) : g'.reg[i] = val[<<x, i>>]
<1>1. ASSUME MeantInv, [FormsNext]_formsVars PROVE [Answered]_callVars
  <2> SUFFICES ASSUME NEW x \in Syms, Return(x), g'.hit = {}, NEW i \in Bytes(x)
               PROVE  g'.reg[i] = val[<<x, i>>]
    OBVIOUS
  <2>1. CallInv /\ Sound
    BY <1>1 DEF MeantInv, FormsInv, Return, Ready
  <2> QED BY <2>1, ReturnSure
<1> QED BY <1>1, MeantInvariant, PTL DEF FormsSpec, ReturnsResult
=============================================================================
