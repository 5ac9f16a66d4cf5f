----------------------------- MODULE EntityProofs -----------------------------
(***************************************************************************)
(* Proofs about ReplayOf for histories of any length and whatever Apply    *)
(* does: a replay is a fold, so its lemmas are proved by induction.        *)
(***************************************************************************)
EXTENDS Entity, Integers, WellFoundedInduction, TLAPS

(* Induction over the naturals for a set T in the place of a predicate: if *)
(* some number were not in T, the least such number would have a           *)
(* predecessor in T.                                                       *)
LEMMA NatSetInduction ==
    ASSUME NEW T, 0 \in T, \A n \in Nat : n \in T => n + 1 \in T
    PROVE  Nat \subseteq T
<1> DEFINE R == OpToRel(<, Nat)
           Left == Nat \ T
<1>1. ASSUME Left # {} PROVE FALSE
  <2>1. IsWellFoundedOn(R, Nat) /\ Left \subseteq Nat
    BY NatLessThanWellFounded, Zenon
  <2>2. PICK n \in Left : \A m \in Left : ~(<<m, n>> \in R)
    <3> HIDE DEF R, Left
    <3> QED BY <1>1, <2>1, WFMin, Zenon
  <2>3. \A m \in Nat : m < n => <<m, n>> \in R
    BY <2>2, Zenon DEF OpToRel
  <2>4. n \in Nat /\ n \notin T /\ \A m \in Nat : m \notin T => ~(<<m, n>> \in R)
    BY <2>2, Zenon
  <2> HIDE DEF R, Left
  <2>5. n # 0
    BY <2>4, Zenon
  <2>6. n - 1 \in Nat /\ n - 1 < n /\ (n - 1) + 1 = n
    BY <2>4, <2>5
  <2>7. n - 1 \in T
    BY <2>3, <2>4, <2>6, Zenon
  <2> QED
    BY <2>4, <2>6, <2>7
<1> QED
  BY <1>1

-----------------------------------------------------------------------------
(* A replay as a recursion over the length of the history *)

(* g is the recursive function behind ReplayOf over the first n events of h *)
IsFold(h, g, n) ==
    g = [s \in SUBSET (1 .. n) |->
            IF s = {} THEN Fresh
            ELSE ApplyEvent(g[s \ {Max(s)}], h[Max(s)])]

LEMMA MaxOfTop ==
    ASSUME NEW n \in Nat, NEW s \in SUBSET (1 .. n), n \in s
    PROVE  Max(s) = n
<1>1. \A y \in s : y \in Nat /\ y <= n
  OBVIOUS
<1>2. n \in s /\ \A y \in s : n >= y
  BY <1>1
<1>3. \A x \in s : (\A y \in s : x >= y) => x = n
  BY <1>1
<1> QED
  BY <1>2, <1>3 DEF Max

LEMMA FoldStarts == ASSUME NEW h PROVE \E g : IsFold(h, g, 0)
<1> DEFINE g == [s \in SUBSET (1 .. 0) |-> Fresh]
<1>1. \A s \in SUBSET (1 .. 0) : s = {}
  OBVIOUS
<1>2. IsFold(h, g, 0)
  BY <1>1 DEF IsFold
<1> QED
  BY <1>2

LEMMA FoldExtends ==
    ASSUME NEW h, NEW n \in Nat, NEW g, IsFold(h, g, n)
    PROVE  \E f : IsFold(h, f, n + 1)
<1> DEFINE f == [s \in SUBSET (1 .. n + 1) |->
                    IF n + 1 \in s THEN ApplyEvent(g[s \ {n + 1}], h[n + 1]) ELSE g[s]]
           rhs(s) == IF s = {} THEN Fresh ELSE ApplyEvent(f[s \ {Max(s)}], h[Max(s)])
<1>1. ASSUME NEW s \in SUBSET (1 .. n + 1), n + 1 \in s
      PROVE  f[s] = rhs(s)
  <2>1. Max(s) = n + 1 /\ s # {}
    BY <1>1, MaxOfTop
  <2>2. s \ {n + 1} \in SUBSET (1 .. n + 1) /\ n + 1 \notin s \ {n + 1}
    OBVIOUS
  <2>3. f[s \ {n + 1}] = g[s \ {n + 1}] /\ f[s] = ApplyEvent(g[s \ {n + 1}], h[n + 1])
    BY <1>1, <2>2
  <2> QED
    BY <2>1, <2>3
<1>2. ASSUME NEW s \in SUBSET (1 .. n + 1), n + 1 \notin s
      PROVE  f[s] = rhs(s)
  <2>1. s \in SUBSET (1 .. n)
    BY <1>2
  <2>2. f[s] = g[s] /\ g[s] = IF s = {} THEN Fresh ELSE ApplyEvent(g[s \ {Max(s)}], h[Max(s)])
    BY <1>2, <2>1, Zenon DEF IsFold
  <2>3. s \ {Max(s)} \in SUBSET (1 .. n + 1) /\ n + 1 \notin s \ {Max(s)}
    BY <1>2
  <2>4. f[s \ {Max(s)}] = g[s \ {Max(s)}]
    BY <2>3
  <2> QED
    BY <2>2, <2>4, Zenon
<1>3. f = [s \in SUBSET (1 .. n + 1) |-> rhs(s)]
  <2>1. \A s \in SUBSET (1 .. n + 1) : f[s] = rhs(s)
    BY <1>1, <1>2
  <2>2. f = [s \in SUBSET (1 .. n + 1) |-> f[s]]
    OBVIOUS
  <2> HIDE DEF f, rhs
  <2> QED
    BY <2>1, <2>2
<1> QED
  BY <1>3 DEF IsFold

LEMMA FoldExists == ASSUME NEW h, NEW n \in Nat PROVE \E g : IsFold(h, g, n)
<1> DEFINE T == {m \in Nat : \E g : IsFold(h, g, m)}
<1>1. 0 \in T
  BY FoldStarts
<1>2. \A m \in Nat : m \in T => m + 1 \in T
  BY FoldExtends
<1> HIDE DEF T
<1>3. Nat \subseteq T
  BY <1>1, <1>2, NatSetInduction
<1> QED
  BY <1>3 DEF T

LEMMA FoldIs ==
    ASSUME NEW h, NEW n \in Nat, DOMAIN h = 1 .. n
    PROVE  \E g : IsFold(h, g, n) /\ ReplayOf(h) = g[1 .. n]
<1> DEFINE g == CHOOSE g : g = [s \in SUBSET (1 .. n) |->
            IF s = {} THEN Fresh ELSE ApplyEvent(g[s \ {Max(s)}], h[Max(s)])]
<1>1. ReplayOf(h) = g[1 .. n]
  BY Zenon DEF ReplayOf, FoldLeft, MapThenFoldSet
<1>2. IsFold(h, g, n)
  BY FoldExists, Zenon DEF IsFold
<1> QED
  BY <1>1, <1>2
(* What the replay of no event, and of one event more, leads to. *)
LEMMA ReplayOfNone ==
    ASSUME NEW h, DOMAIN h = 1 .. 0
    PROVE  ReplayOf(h) = Fresh
<1>1. PICK g : IsFold(h, g, 0) /\ ReplayOf(h) = g[1 .. 0]
  BY FoldIs
<1>2. 1 .. 0 = {}
  OBVIOUS
<1> QED
  BY <1>1, <1>2, Zenon DEF IsFold

LEMMA FoldUnrolls ==
    ASSUME NEW h, NEW n \in Nat, NEW g, IsFold(h, g, n), NEW m \in Nat, m + 1 <= n
    PROVE  g[1 .. (m + 1)] = ApplyEvent(g[1 .. m], h[m + 1])
<1> DEFINE s == 1 .. (m + 1)
<1>1. s \in SUBSET (1 .. n) /\ s # {} /\ s \ {m + 1} = 1 .. m
  OBVIOUS
<1>2. Max(s) = m + 1
  BY MaxOfTop
<1> HIDE DEF s
<1>3. g[s] = ApplyEvent(g[s \ {Max(s)}], h[Max(s)])
  BY <1>1, Zenon DEF IsFold
<1> QED
  BY <1>1, <1>2, <1>3 DEF s

(* Two histories that agree on their first n events agree on what the      *)
(* first n events lead to.                                                 *)
LEMMA FoldsAgree ==
    ASSUME NEW n \in Nat, NEW h, NEW g, IsFold(h, g, n),
           NEW p \in Nat, n <= p, NEW k, NEW f, IsFold(k, f, p),
           \A i \in 1 .. n : k[i] = h[i]
    PROVE  f[1 .. n] = g[1 .. n]
<1> DEFINE T == {m \in Nat : m <= n => f[1 .. m] = g[1 .. m]}
<1>1. 0 \in T
  <2>1. 1 .. 0 = {} /\ {} \in SUBSET (1 .. n) /\ {} \in SUBSET (1 .. p)
    OBVIOUS
  <2>2. f[{}] = Fresh /\ g[{}] = Fresh
    BY <2>1, Zenon DEF IsFold
  <2> QED
    BY <2>1, <2>2
<1>2. ASSUME NEW m \in Nat, m \in T PROVE m + 1 \in T
  <2> SUFFICES ASSUME m + 1 <= n PROVE f[1 .. (m + 1)] = g[1 .. (m + 1)]
    OBVIOUS
  <2>1. f[1 .. m] = g[1 .. m] /\ m + 1 <= p /\ k[m + 1] = h[m + 1]
    BY <1>2
  <2>2. g[1 .. (m + 1)] = ApplyEvent(g[1 .. m], h[m + 1])
    BY FoldUnrolls
  <2>3. f[1 .. (m + 1)] = ApplyEvent(f[1 .. m], k[m + 1])
    BY <2>1, FoldUnrolls
  <2> QED
    BY <2>1, <2>2, <2>3
<1> HIDE DEF T
<1>3. n \in T
  BY <1>1, <1>2, NatSetInduction
<1> QED
  BY <1>3 DEF T

LEMMA ReplayOfOneMore ==
    ASSUME NEW n \in Nat, NEW h, DOMAIN h = 1 .. n,
           NEW k, DOMAIN k = 1 .. (n + 1), \A i \in 1 .. n : k[i] = h[i]
    PROVE  ReplayOf(k)
             = ApplyEvent(ReplayOf(h), k[n + 1])
<1>1. PICK g : IsFold(h, g, n) /\ ReplayOf(h) = g[1 .. n]
  BY FoldIs
<1>2. PICK f : IsFold(k, f, n + 1) /\ ReplayOf(k) = f[1 .. (n + 1)]
  BY FoldIs
<1>3. f[1 .. (n + 1)] = ApplyEvent(f[1 .. n], k[n + 1])
  BY <1>2, FoldUnrolls
<1>4. f[1 .. n] = g[1 .. n]
  BY <1>1, <1>2, FoldsAgree
<1> QED
  BY <1>1, <1>2, <1>3, <1>4
=============================================================================
