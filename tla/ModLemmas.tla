----------------------------- MODULE ModLemmas -----------------------------
(***************************************************************************)
(* Arithmetic modulo a positive number, as the 8-bit registers and         *)
(* pointers of the port use it, least elements of sets of naturals, and    *)
(* induction: over a set of naturals in place of a predicate, and over the *)
(* states a loop goes through.                                             *)
(***************************************************************************)
EXTENDS Integers, WellFoundedInduction, TLAPS

(* A non-empty set of naturals has a least element.                        *)
LEMMA LeastExists ==
  ASSUME NEW S \in SUBSET Nat, S # {}
  PROVE  \E m \in S : \A k \in S : m <= k
<1>1. PICK m \in S : \A y \in S : ~ (<<y, m>> \in OpToRel(<, Nat))
  BY NatLessThanWellFounded, WFMin
<1>2. \A y \in S : ~ (y < m)
  BY <1>1 DEF OpToRel
<1>3. \A y \in S : m <= y
  <2> TAKE y \in S
  <2>1. y \in Nat /\ m \in Nat
    OBVIOUS
  <2>2. ~ (y < m)
    BY <1>2
  <2> QED BY <2>1, <2>2
<1> QED BY <1>3

(* A set that holds 0 and the successor of each of its naturals holds all. *)
LEMMA Inductive ==
  ASSUME NEW S, 0 \in S, \A k \in Nat : k \in S => k + 1 \in S
  PROVE  Nat \subseteq S
<1> DEFINE Missing == Nat \ S
<1> SUFFICES ASSUME Missing # {} PROVE FALSE
  OBVIOUS
<1>1. PICK m \in Missing : \A k \in Missing : m <= k
  <2>1. Missing \in SUBSET Nat
    OBVIOUS
  <2> HIDE DEF Missing
  <2> QED BY <2>1, LeastExists
<1>2. m \in Nat /\ m # 0
  OBVIOUS
<1>3. m - 1 \in Nat /\ m - 1 \in S
  BY <1>1, <1>2
<1> QED BY <1>2, <1>3

(* A loop of n steps whose k-th state is in K[k], step by step.            *)
LEMMA LoopKeeps ==
  ASSUME NEW K, NEW n \in Nat, NEW f, f[0] \in K[0],
         \A k \in 1 .. n : f[k - 1] \in K[k - 1] => f[k] \in K[k]
  PROVE  f[n] \in K[n]
<1> DEFINE T == {k \in Nat : k <= n => f[k] \in K[k]}
<1>1. 0 \in T
  OBVIOUS
<1>2. ASSUME NEW k \in Nat, k \in T PROVE k + 1 \in T
  <2> SUFFICES ASSUME k + 1 <= n PROVE f[k + 1] \in K[k + 1]
    OBVIOUS
  <2>1. k + 1 \in 1 .. n /\ (k + 1) - 1 = k /\ f[k] \in K[k]
    BY <1>2
  <2> QED BY <2>1
<1>3. Nat \subseteq T
  <2> HIDE DEF T
  <2> QED BY <1>1, <1>2, Inductive
<1> QED BY <1>3

(* Two loops that begin in the same state and do the same step by step.    *)
LEMMA LoopSame ==
  ASSUME NEW N \in Nat, NEW f, NEW e, f[0] = e[0],
         \A k \in 1 .. N : f[k - 1] = e[k - 1] => f[k] = e[k]
  PROVE  f[N] = e[N]
<1> DEFINE K == [k \in 0 .. N |-> {e[k]}]
<1>1. \A k \in 0 .. N : K[k] = {e[k]}
  OBVIOUS
<1> HIDE DEF K
<1>2. f[0] \in K[0]
  BY <1>1
<1>3. \A k \in 1 .. N : f[k - 1] \in K[k - 1] => f[k] \in K[k]
  <2> SUFFICES ASSUME NEW k \in 1 .. N, f[k - 1] \in K[k - 1] PROVE f[k] \in K[k]
    OBVIOUS
  <2>1. k \in 0 .. N /\ k - 1 \in 0 .. N
    OBVIOUS
  <2> QED BY <1>1, <2>1
<1>4. f[N] \in K[N]
  BY <1>2, <1>3, LoopKeeps
<1> QED BY <1>1, <1>4

(* The states that a loop of n steps G goes through, from h: the k-th is   *)
(* in K[k].                                                                *)
Stages(K, n) == UNION {K[i] : i \in 0 .. n}
LoopRuns(K, n, h, G) ==
  {f \in [0 .. n -> Stages(K, n)] :
     /\ f[0] = h /\ \A k \in 0 .. n : f[k] \in K[k]
     /\ \A k \in 1 .. n : f[k] = G[<<f[k - 1], k - 1>>]}

LEMMA LoopExists ==
  ASSUME NEW K, NEW n \in Nat, NEW h \in K[0], NEW G,
         \A i \in 0 .. n - 1 : \A k \in K[i] : G[<<k, i>>] \in K[i + 1]
  PROVE  LoopRuns(K, n, h, G) # {}
<1> DEFINE T == {m \in Nat : m <= n => LoopRuns(K, m, h, G) # {}}
<1>1. 0 \in T
  <2> DEFINE f == [k \in 0 .. 0 |-> h]
  <2>1. f \in [0 .. 0 -> Stages(K, 0)] /\ f[0] = h
    BY DEF Stages
  <2>2. f \in LoopRuns(K, 0, h, G)
    BY <2>1 DEF LoopRuns
  <2> QED BY <2>2
<1>2. ASSUME NEW m \in Nat, m \in T PROVE m + 1 \in T
  <2> SUFFICES ASSUME m + 1 <= n PROVE LoopRuns(K, m + 1, h, G) # {}
    OBVIOUS
  <2>1. PICK e \in LoopRuns(K, m, h, G) : TRUE
    BY <1>2
  <2> DEFINE v == G[<<e[m], m>>]
             f == [k \in 0 .. m + 1 |-> IF k = m + 1 THEN v ELSE e[k]]
  <2>2. e[m] \in K[m] /\ m \in 0 .. n - 1
    BY <2>1 DEF LoopRuns
  <2>3. v \in K[m + 1]
    BY <2>2
  <2>4. \A k \in 0 .. m + 1 : f[k] \in K[k]
    <3> SUFFICES ASSUME NEW k \in 0 .. m + 1 PROVE f[k] \in K[k]
      OBVIOUS
    <3>1. CASE k = m + 1
      BY <2>3, <3>1
    <3>2. CASE k # m + 1
      <4>1. k \in 0 .. m /\ f[k] = e[k]
        BY <3>2
      <4> QED BY <2>1, <4>1 DEF LoopRuns
    <3> QED BY <3>1, <3>2
  <2>5. f[0] = h
    BY <2>1 DEF LoopRuns
  <2>6. ASSUME NEW k \in 1 .. m + 1 PROVE f[k] = G[<<f[k - 1], k - 1>>]
    <3>1. CASE k = m + 1
      <4>1. f[k] = G[<<e[m], m>>] /\ f[k - 1] = e[m] /\ k - 1 = m
        BY <3>1
      <4> QED BY <4>1
    <3>2. CASE k # m + 1
      <4>1. k \in 1 .. m /\ f[k] = e[k] /\ f[k - 1] = e[k - 1]
        BY <3>2
      <4> QED BY <2>1, <4>1 DEF LoopRuns
    <3> QED BY <3>1, <3>2
  <2>7. f \in [0 .. m + 1 -> Stages(K, m + 1)]
    <3>1. \A k \in 0 .. m + 1 : f[k] \in Stages(K, m + 1)
      <4> HIDE DEF f
      <4> QED BY <2>4 DEF Stages
    <3> QED BY <3>1
  <2> HIDE DEF f
  <2>8. f \in LoopRuns(K, m + 1, h, G)
    BY <2>4, <2>5, <2>6, <2>7 DEF LoopRuns
  <2> QED BY <2>8
<1>3. Nat \subseteq T
  <2> HIDE DEF T
  <2> QED BY <1>1, <1>2, Inductive
<1> QED BY <1>3

(* The remainder of a division by M is one of the M residues.              *)
LEMMA ModRange ==
  ASSUME NEW M \in Nat \ {0}, NEW a \in Int
  PROVE  a % M \in 0 .. M - 1
OBVIOUS

(* Every integer is a multiple of M plus its residue.                      *)
LEMMA DivMod ==
  ASSUME NEW M \in Nat \ {0}, NEW a \in Int
  PROVE  \E q \in Int : a = M * q + (a % M)
<1>1. a = M * (a \div M) + (a % M)
  OBVIOUS
<1>2. a \div M \in Int
  OBVIOUS
<1> QED BY <1>1, <1>2

(* The only multiple of M strictly between -M and M is zero.               *)
LEMMA MulGap ==
  ASSUME NEW M \in Nat \ {0}, NEW q \in Int, -M < M * q, M * q < M
  PROVE  q = 0
<1>1. CASE q >= 1
  <2>1. M * q >= M
    BY <1>1
  <2> QED BY <2>1
<1>2. CASE q <= -1
  <2>1. M * q <= -M
    BY <1>2
  <2> QED BY <2>1
<1> QED BY <1>1, <1>2

(* A residue that differs from a by a multiple of M is the residue of a.   *)
LEMMA ModUnique ==
  ASSUME NEW M \in Nat \ {0}, NEW a \in Int, NEW q \in Int,
         NEW r \in 0 .. M - 1, a = M * q + r
  PROVE  a % M = r
<1>1. PICK p \in Int : a = M * p + (a % M)
  BY DivMod
<1>2. a % M \in 0 .. M - 1
  BY ModRange
<1>3. M * (p - q) = r - (a % M)
  BY <1>1, <1>2
<1>4. p - q = 0
  <2>1. -M < M * (p - q) /\ M * (p - q) < M
    BY <1>2, <1>3
  <2> QED BY <2>1, MulGap
<1> QED BY <1>2, <1>3, <1>4

(* Reducing a summand first does not change the residue of a sum.          *)
LEMMA ModAdd ==
  ASSUME NEW M \in Nat \ {0}, NEW a \in Int, NEW b \in Int
  PROVE  ((a % M) + b) % M = (a + b) % M
<1> DEFINE s == (a % M) + b
           r == s % M
<1>1. PICK p \in Int : a = M * p + (a % M)
  BY DivMod
<1>2. a % M \in 0 .. M - 1
  BY ModRange
<1>3. s \in Int
  BY <1>2
<1> HIDE DEF s
<1>4. PICK q \in Int : s = M * q + r
  BY <1>3, DivMod
<1>5. r \in 0 .. M - 1
  BY <1>3, ModRange
<1> HIDE DEF r
<1>6. a + b = M * (p + q) + r
  BY <1>1, <1>2, <1>4, <1>5 DEF s
<1>7. a + b \in Int /\ p + q \in Int
  OBVIOUS
<1>8. (a + b) % M = r
  BY <1>5, <1>6, <1>7, ModUnique
<1> QED BY <1>8 DEF r, s

(* Within one period different offsets from a base have different residues.*)
LEMMA ModInjective ==
  ASSUME NEW M \in Nat \ {0}, NEW a \in Int,
         NEW k \in 0 .. M - 1, NEW l \in 0 .. M - 1,
         (a + k) % M = (a + l) % M
  PROVE  k = l
<1> DEFINE u == a + k
           v == a + l
           r == u % M
<1>1. u \in Int /\ v \in Int /\ v % M = r
  OBVIOUS
<1>2. u - v = k - l
  OBVIOUS
<1> HIDE DEF u, v
<1>3. PICK p \in Int : u = M * p + r
  BY <1>1, DivMod
<1>4. PICK q \in Int : v = M * q + (v % M)
  BY <1>1, DivMod
<1>5. r \in 0 .. M - 1
  BY <1>1, ModRange
<1> HIDE DEF r
<1>6. M * (p - q) = k - l
  BY <1>1, <1>2, <1>3, <1>4, <1>5
<1>7. p - q = 0
  <2>1. -M < M * (p - q) /\ M * (p - q) < M
    BY <1>6
  <2>2. p - q \in Int
    OBVIOUS
  <2> QED BY <2>1, <2>2, MulGap
<1> QED BY <1>6, <1>7

(* The quotient is what the residue leaves.                                *)
LEMMA DivUnique ==
  ASSUME NEW M \in Nat \ {0}, NEW a \in Int, NEW q \in Int,
         NEW r \in 0 .. M - 1, a = M * q + r
  PROVE  a \div M = q
<1> DEFINE d == a \div M
<1>1. a % M = r
  BY ModUnique
<1>2. d \in Int /\ a = M * d + (a % M)
  OBVIOUS
<1> HIDE DEF d
<1>3. M * (d - q) = 0
  <2>1. M * d = M * q
    BY <1>1, <1>2
  <2>2. M * (d - q) = M * d - M * q
    BY <1>2
  <2> QED BY <1>2, <2>1, <2>2
<1>4. d - q \in Int /\ -M < M * (d - q) /\ M * (d - q) < M
  BY <1>2, <1>3
<1>5. d - q = 0
  BY <1>4, MulGap
<1> QED BY <1>2, <1>5 DEF d

(* Doubling a residue, and halving a quotient.                             *)
LEMMA ModTwice ==
  ASSUME NEW M \in Nat \ {0}, NEW a \in Int
  PROVE  (2 * (a % M)) % M = (2 * a) % M
<1> DEFINE r == a % M
<1>1. r \in Int
  BY ModRange
<1>2. (r + r) % M = (a + r) % M
  <2>1. ((a % M) + r) % M = (a + r) % M
    <3> HIDE DEF r
    <3> QED BY <1>1, ModAdd
  <2> QED BY <2>1
<1>3. (r + a) % M = (a + a) % M
  BY ModAdd
<1>4. a + r = r + a /\ r + r = 2 * r /\ a + a = 2 * a
  BY <1>1
<1> QED BY <1>2, <1>3, <1>4

LEMMA DivTwice ==
  ASSUME NEW p \in Nat \ {0}, NEW a \in Nat
  PROVE  a \div (2 * p) = (a \div p) \div 2
<1> DEFINE q == a \div p
           r == a % p
           g == q \div 2
           s == q % 2
           w == p * s + r
<1>1. q \in Int /\ r \in 0 .. p - 1 /\ a = p * q + r
  BY ModRange
<1> HIDE DEF q, r
<1>2. g \in Int /\ s \in {0, 1} /\ q = 2 * g + s
  BY <1>1
<1> HIDE DEF g, s
<1>3. w \in 0 .. 2 * p - 1
  <2>1. CASE s = 0
    BY <1>1, <2>1
  <2>2. CASE s = 1
    BY <1>1, <2>2
  <2> QED BY <1>2, <2>1, <2>2
<1>4. a = (2 * p) * g + w
  <2>1. p * q = p * (2 * g + s)
    BY <1>2
  <2>2. p * (2 * g + s) = (2 * p) * g + p * s
    BY <1>2
  <2> QED BY <1>1, <1>2, <2>1, <2>2
<1> DEFINE M == 2 * p
<1>5. M \in Nat \ {0} /\ w \in 0 .. M - 1 /\ a \in Int /\ a = M * g + w
  BY <1>3, <1>4
<1> HIDE DEF w, M
<1>6. a \div M = g
  BY <1>2, <1>5, DivUnique
<1> QED BY <1>6 DEF M, g, q
=============================================================================
