---------------------------- MODULE VectorProofs ----------------------------
(***************************************************************************)
(* What Vec::retain leaves (module Vectors), for every vector.  retain is  *)
(* defined by recursion, so first that it satisfies its own equation, then *)
(* what follows by induction.  Induction is stated over sets of naturals.  *)
(***************************************************************************)
EXTENDS Vectors, SequencesExt, WellFoundedInduction, FiniteSetTheorems, TLAPS

\* A set of naturals has a least element.
LEMMA LeastNat ==
    ASSUME NEW T \in SUBSET Nat, T # {}
    PROVE  \E x \in T : \A y \in T : x <= y
<1>1. \E R : IsWellFoundedOn(R, Nat) /\ \A x, y \in Nat : <<y, x>> \in R <=> y < x
  <2>1. \A x, y \in Nat : <<y, x>> \in OpToRel(<, Nat) <=> y < x
    BY DEF OpToRel
  <2> QED BY <2>1, NatLessThanWellFounded
<1>2. PICK R : IsWellFoundedOn(R, Nat) /\ \A x, y \in Nat : <<y, x>> \in R <=> y < x
  BY <1>1
<1>3. PICK x \in T : \A y \in T : ~ (<<y, x>> \in R)
  BY <1>2, WFMin
<1>4. ASSUME NEW y \in T PROVE x <= y
  <2>1. x \in Nat /\ y \in Nat
    OBVIOUS
  <2>2. <<y, x>> \notin R
    BY <1>3
  <2>3. ~ (y < x)
    BY <1>2, <2>1, <2>2
  <2> QED BY <2>1, <2>3
<1> QED BY <1>4

\* Induction over the naturals.
LEMMA InductiveSet ==
    ASSUME NEW T \in SUBSET Nat, 0 \in T, \A n \in T : n + 1 \in T
    PROVE  T = Nat
<1> SUFFICES ASSUME Nat \ T # {} PROVE FALSE
  OBVIOUS
<1>1. PICK x \in Nat \ T : \A y \in Nat \ T : x <= y
  BY LeastNat
<1>2. x \in Nat /\ x # 0
  OBVIOUS
<1>3. x - 1 \in Nat
  BY <1>2
<1>4. x - 1 \in T
  BY <1>1, <1>2, <1>3
<1>5. (x - 1) + 1 \in T
  BY <1>4
<1> QED BY <1>2, <1>5

\* The elements of a vector, and of one with one more entry.
LEMMA RangeIn ==
    ASSUME NEW S, NEW s \in Seq(S)
    PROVE  \A x \in Range(s) : x \in S
<1>1. \A i \in DOMAIN s : s[i] \in S
  OBVIOUS
<1> QED BY <1>1 DEF Range

LEMMA FunctionIsSeq ==
    ASSUME NEW S, NEW n \in Nat, NEW s \in [1..n -> S]
    PROVE  s \in Seq(S) /\ Len(s) = n
OBVIOUS

LEMMA SeqOfMore ==
    ASSUME NEW S, NEW T, S \subseteq T, NEW s \in Seq(S)
    PROVE  s \in Seq(T)
OBVIOUS

LEMMA RangeAppend ==
    ASSUME NEW S, NEW log \in Seq(S), NEW m \in S
    PROVE  Range(Append(log, m)) = Range(log) \cup {m}
<1> DEFINE more == Append(log, m)
<1>1. /\ DOMAIN log = 1..Len(log) /\ Len(log) \in Nat
      /\ DOMAIN more = 1..Len(log) + 1
      /\ \A i \in 1..Len(log) : more[i] = log[i]
      /\ more[Len(log) + 1] = m
  OBVIOUS
<1> HIDE DEF more
<1>2. \A x \in Range(more) : x \in Range(log) \cup {m}
  BY <1>1 DEF Range
<1>3. \A x \in Range(log) \cup {m} : x \in Range(more)
  BY <1>1 DEF Range
<1>4. Range(more) = Range(log) \cup {m}
  BY <1>2, <1>3
<1> QED BY <1>4 DEF more

---------------------------------------------------------------------------
(* The rounds of retain.                                                   *)

\* f[i] is what retain keeps of the first i elements of s.
Rounds(s, kept, n, f) ==
    f = [i \in 0..n |-> IF i = 0 THEN <<>>
                        ELSE IF s[i] \in kept THEN Append(f[i - 1], s[i]) ELSE f[i - 1]]

\* One round of them.
LEMMA Round ==
    ASSUME NEW s, NEW kept, NEW n \in Nat, NEW f, Rounds(s, kept, n, f)
    PROVE  /\ f[0] = <<>>
           /\ \A i \in 1..n : f[i] = IF s[i] \in kept THEN Append(f[i - 1], s[i]) ELSE f[i - 1]
<1> DEFINE h == [i \in 0..n |-> IF i = 0 THEN <<>>
                   ELSE IF s[i] \in kept THEN Append(f[i - 1], s[i]) ELSE f[i - 1]]
<1>1. f = h
  BY Zenon DEF Rounds
<1>2. h[0] = <<>>
  OBVIOUS
<1>3. ASSUME NEW i \in 1..n
      PROVE  h[i] = IF s[i] \in kept THEN Append(f[i - 1], s[i]) ELSE f[i - 1]
  OBVIOUS
<1> HIDE DEF h
<1> QED BY <1>1, <1>2, <1>3

LEMMA RoundsExist ==
    ASSUME NEW s, NEW kept, NEW n \in Nat
    PROVE  \E f : Rounds(s, kept, n, f)
<1> DEFINE T == {m \in Nat : \E f : Rounds(s, kept, m, f)}
<1>1. 0 \in T
  <2> DEFINE f == [i \in 0..0 |-> <<>>]
  <2>1. Rounds(s, kept, 0, f)
    BY DEF Rounds
  <2> QED BY <2>1
<1>2. ASSUME NEW m \in T PROVE m + 1 \in T
  <2>1. PICK f : Rounds(s, kept, m, f)
    OBVIOUS
  <2>2. m \in Nat
    OBVIOUS
  <2> HIDE DEF T
  <2>0. \A i \in 1..m : f[i] = IF s[i] \in kept THEN Append(f[i - 1], s[i]) ELSE f[i - 1]
    BY <2>1, <2>2, Round
  <2> DEFINE g == [i \in 0..m + 1 |->
                     IF i <= m THEN f[i]
                     ELSE IF s[m + 1] \in kept THEN Append(f[m], s[m + 1]) ELSE f[m]]
             h == [i \in 0..m + 1 |-> IF i = 0 THEN <<>>
                        ELSE IF s[i] \in kept THEN Append(g[i - 1], s[i]) ELSE g[i - 1]]
  <2>3. ASSUME NEW i \in 0..m + 1 PROVE g[i] = h[i]
    <3>1. CASE i = 0
      BY <2>1, <2>2, <3>1 DEF Rounds
    <3>2. CASE i \in 1..m
      <4>1. g[i - 1] = f[i - 1] /\ g[i] = f[i]
        BY <2>2, <3>2
      <4> QED BY <2>0, <3>2, <4>1
    <3>3. CASE i = m + 1
      <4>1. g[i - 1] = f[m] /\ i # 0 /\ ~ (i <= m)
        BY <2>2, <3>3
      <4> QED BY <3>3, <4>1
    <3> QED BY <2>2, <3>1, <3>2, <3>3
  <2>4. g = h
    BY <2>3
  <2>5. Rounds(s, kept, m + 1, g)
    BY <2>4 DEF Rounds
  <2> QED BY <2>2, <2>5 DEF T
<1> HIDE DEF T
<1>3. T = Nat
  <2>1. T \in SUBSET Nat
    BY DEF T
  <2> QED BY <1>1, <1>2, <2>1, InductiveSet
<1> QED BY <1>3 DEF T

\* retain satisfies its own equation.
LEMMA RetainRounds ==
    ASSUME NEW s, NEW kept, Len(s) \in Nat
    PROVE  \E f : Rounds(s, kept, Len(s), f) /\ retain(s, kept) = f[Len(s)]
<1> DEFINE f == CHOOSE g : Rounds(s, kept, Len(s), g)
<1>1. Rounds(s, kept, Len(s), f)
  BY RoundsExist, Zenon
<1>2. retain(s, kept) = f[Len(s)]
  BY Zenon DEF retain, Rounds
<1> QED BY <1>1, <1>2, Zenon

---------------------------------------------------------------------------
(* What is left.                                                           *)

\* t is made of elements of s, the h[k]-th being its k-th: those of the first
\* n that are in kept, in their order.
Picked(s, kept, n, t, h) ==
    /\ Len(t) <= n
    /\ h \in [1..Len(t) -> 1..n]
    /\ \A k \in 1..Len(t) : t[k] = s[h[k]] /\ s[h[k]] \in kept
    /\ \A k, l \in 1..Len(t) : k < l => h[k] < h[l]
    /\ \A j \in 1..n : s[j] \in kept => \E k \in 1..Len(t) : h[k] = j

\* A round that keeps its element.
LEMMA PickedOneMore ==
    ASSUME NEW S, NEW s \in Seq(S), NEW kept, NEW n \in Nat, n + 1 <= Len(s),
           NEW t \in Seq(S), NEW h, Picked(s, kept, n, t, h), s[n + 1] \in kept
    PROVE  \E g : Picked(s, kept, n + 1, Append(t, s[n + 1]), g)
<1> DEFINE u == Append(t, s[n + 1])
           g == [k \in 1..Len(t) + 1 |-> IF k <= Len(t) THEN h[k] ELSE n + 1]
<1>1. /\ Len(t) \in Nat /\ Len(u) = Len(t) + 1
      /\ u[Len(t) + 1] = s[n + 1]
      /\ \A k \in 1..Len(t) : u[k] = t[k]
  <2>1. s[n + 1] \in S
    OBVIOUS
  <2> QED BY <2>1
<1>2. /\ \A k \in 1..Len(t) : g[k] = h[k] /\ h[k] \in 1..n
      /\ g[Len(t) + 1] = n + 1
  <2>1. h \in [1..Len(t) -> 1..n]
    BY DEF Picked
  <2>2. ASSUME NEW k \in 1..Len(t) PROVE g[k] = h[k] /\ h[k] \in 1..n
    <3>1. k \in 1..Len(t) + 1 /\ k <= Len(t)
      BY <1>1
    <3>2. g[k] = h[k]
      BY <3>1
    <3> QED BY <2>1, <3>2
  <2>3. g[Len(t) + 1] = n + 1
    BY <1>1
  <2> QED BY <2>2, <2>3
<1>3. Len(t) <= n
  BY DEF Picked
<1>4. g \in [1..Len(u) -> 1..n + 1]
  <2>1. ASSUME NEW k \in 1..Len(t) + 1 PROVE g[k] \in 1..n + 1
    <3>1. CASE k <= Len(t)
      <4> HIDE DEF g
      <4>1. k \in 1..Len(t)
        BY <1>1, <3>1
      <4>2. g[k] = h[k] /\ h[k] \in 1..n
        BY <1>2, <4>1
      <4> QED BY <4>2
    <3>2. CASE ~ (k <= Len(t))
      BY <1>1, <3>2
    <3> QED BY <3>1, <3>2
  <2>2. \A k \in 1..Len(t) + 1 : g[k] \in 1..n + 1
    BY <2>1
  <2> QED BY <1>1, <2>2
<1> HIDE DEF g, u
<1>5. ASSUME NEW k \in 1..Len(u)
      PROVE  u[k] = s[g[k]] /\ s[g[k]] \in kept
  <2>1. CASE k \in 1..Len(t)
    BY <1>1, <1>2, <2>1 DEF Picked
  <2>2. CASE k = Len(t) + 1
    BY <1>1, <1>2, <2>2
  <2> QED BY <1>1, <2>1, <2>2
<1>6. ASSUME NEW k \in 1..Len(u), NEW l \in 1..Len(u), k < l
      PROVE  g[k] < g[l]
  <2>1. k \in 1..Len(t)
    BY <1>1, <1>6
  <2>2. CASE l \in 1..Len(t)
    BY <1>2, <1>6, <2>1, <2>2 DEF Picked
  <2>3. CASE l = Len(t) + 1
    BY <1>2, <2>1, <2>3
  <2> QED BY <1>1, <2>2, <2>3
<1>7. ASSUME NEW j \in 1..n + 1, s[j] \in kept
      PROVE  \E k \in 1..Len(u) : g[k] = j
  <2>1. CASE j \in 1..n
    <3>1. PICK k \in 1..Len(t) : h[k] = j
      BY <1>7, <2>1 DEF Picked
    <3>2. k \in 1..Len(u)
      BY <1>1
    <3>3. g[k] = j
      BY <1>2, <3>1
    <3> QED BY <3>2, <3>3
  <2>2. CASE j = n + 1
    <3>1. Len(t) + 1 \in 1..Len(u)
      BY <1>1
    <3> QED BY <1>2, <2>2, <3>1
  <2> QED BY <2>1, <2>2
<1>8. Len(u) <= n + 1
  BY <1>1, <1>3
<1>9. Picked(s, kept, n + 1, u, g)
  BY <1>4, <1>5, <1>6, <1>7, <1>8 DEF Picked
<1> QED BY <1>9 DEF u

\* What retain returns: the elements in kept, in order.
LEMMA RetainPicks ==
    ASSUME NEW S, NEW s \in Seq(S), NEW kept
    PROVE  /\ retain(s, kept) \in Seq(S)
           /\ \E h : Picked(s, kept, Len(s), retain(s, kept), h)
<1>0. Len(s) \in Nat
  OBVIOUS
<1>1. PICK f : Rounds(s, kept, Len(s), f) /\ retain(s, kept) = f[Len(s)]
  BY <1>0, RetainRounds
<1>2. /\ f[0] = <<>>
      /\ \A i \in 1..Len(s) : f[i] = IF s[i] \in kept THEN Append(f[i - 1], s[i]) ELSE f[i - 1]
  BY <1>0, <1>1, Round
<1> DEFINE T == {n \in Nat : n <= Len(s) =>
                    f[n] \in Seq(S) /\ \E h : Picked(s, kept, n, f[n], h)}
<1>3. 0 \in T
  <2> DEFINE h == [k \in 1..0 |-> 0]
  <2>1. <<>> \in Seq(S) /\ Len(<<>>) = 0
    OBVIOUS
  <2>2. Picked(s, kept, 0, <<>>, h)
    BY <2>1 DEF Picked
  <2> QED BY <1>2, <2>1, <2>2
<1>4. ASSUME NEW n \in T PROVE n + 1 \in T
  <2> SUFFICES ASSUME n + 1 <= Len(s)
               PROVE  f[n + 1] \in Seq(S) /\ \E h : Picked(s, kept, n + 1, f[n + 1], h)
    OBVIOUS
  <2>1. n \in Nat /\ n + 1 \in 1..Len(s) /\ (n + 1) - 1 = n /\ s[n + 1] \in S
    BY <1>0
  <2>2. PICK h : f[n] \in Seq(S) /\ Picked(s, kept, n, f[n], h)
    BY <2>1
  <2>3. f[n + 1] = IF s[n + 1] \in kept THEN Append(f[n], s[n + 1]) ELSE f[n]
    BY <1>2, <2>1
  <2> HIDE DEF T
  <2>4. CASE s[n + 1] \in kept
    <3>1. f[n + 1] = Append(f[n], s[n + 1])
      BY <2>3, <2>4
    <3>2. f[n + 1] \in Seq(S)
      BY <2>1, <2>2, <3>1
    <3>3. \E g : Picked(s, kept, n + 1, Append(f[n], s[n + 1]), g)
      BY <2>1, <2>2, <2>4, PickedOneMore
    <3> QED BY <3>1, <3>2, <3>3
  <2>5. CASE s[n + 1] \notin kept
    <3>1. f[n + 1] = f[n] /\ Len(f[n]) \in Nat
      BY <2>2, <2>3, <2>5
    <3>2. h \in [1..Len(f[n]) -> 1..n + 1]
      BY <2>1, <2>2, <3>1 DEF Picked
    <3>3. Len(f[n]) <= n + 1
      BY <2>1, <2>2, <3>1 DEF Picked
    <3>4. ASSUME NEW j \in 1..n + 1, s[j] \in kept
          PROVE  \E k \in 1..Len(f[n]) : h[k] = j
      <4>1. j \in 1..n
        BY <2>1, <2>5, <3>4
      <4> QED BY <2>2, <3>4, <4>1 DEF Picked
    <3>5. Picked(s, kept, n + 1, f[n], h)
      BY <2>2, <3>2, <3>3, <3>4 DEF Picked
    <3> QED BY <2>2, <3>1, <3>5
  <2> QED BY <2>4, <2>5
<1>5. T = Nat
  <2>1. T \in SUBSET Nat
    OBVIOUS
  <2> HIDE DEF T
  <2> QED BY <1>3, <1>4, <2>1, InductiveSet
<1> QED BY <1>0, <1>1, <1>5

\* Its elements.
LEMMA RetainRange ==
    ASSUME NEW S, NEW s \in Seq(S), NEW kept
    PROVE  /\ retain(s, kept) \in Seq(S)
           /\ Len(retain(s, kept)) <= Len(s)
           /\ Range(retain(s, kept)) = Range(s) \cap kept
<1> DEFINE t == retain(s, kept)
<1>1. t \in Seq(S)
  BY RetainPicks
<1>2. PICK h : Picked(s, kept, Len(s), t, h)
  BY RetainPicks
<1> HIDE DEF t
<1>3. /\ Len(s) \in Nat /\ DOMAIN s = 1..Len(s)
      /\ Len(t) \in Nat /\ DOMAIN t = 1..Len(t)
  BY <1>1
<1>4. ASSUME NEW x \in Range(t) PROVE x \in Range(s) \cap kept
  <2>1. PICK k \in 1..Len(t) : x = t[k]
    BY <1>3 DEF Range
  <2>2. h[k] \in 1..Len(s) /\ t[k] = s[h[k]] /\ s[h[k]] \in kept
    BY <1>2 DEF Picked
  <2> QED BY <1>3, <2>1, <2>2 DEF Range
<1>5. ASSUME NEW x \in Range(s), x \in kept PROVE x \in Range(t)
  <2>1. PICK j \in 1..Len(s) : x = s[j]
    BY <1>3 DEF Range
  <2>2. PICK k \in 1..Len(t) : h[k] = j
    BY <1>2, <1>5, <2>1 DEF Picked
  <2>3. t[k] = x
    BY <1>2, <2>1, <2>2 DEF Picked
  <2> QED BY <1>3, <2>3 DEF Range
<1>6. Len(t) <= Len(s)
  BY <1>2 DEF Picked
<1> QED BY <1>1, <1>4, <1>5, <1>6 DEF t

\* Elements that are distinct before are distinct after.
LEMMA RetainInjective ==
    ASSUME NEW S, NEW s \in Seq(S), NEW kept, IsInjective(s)
    PROVE  IsInjective(retain(s, kept))
<1> DEFINE t == retain(s, kept)
<1>1. t \in Seq(S)
  BY RetainPicks
<1>2. PICK h : Picked(s, kept, Len(s), t, h)
  BY RetainPicks
<1> HIDE DEF t
<1>3. /\ DOMAIN s = 1..Len(s) /\ Len(s) \in Nat
      /\ DOMAIN t = 1..Len(t) /\ Len(t) \in Nat
  BY <1>1
<1>4. ASSUME NEW k \in 1..Len(t), NEW l \in 1..Len(t), t[k] = t[l] PROVE k = l
  <2>1. h[k] \in 1..Len(s) /\ h[l] \in 1..Len(s) /\ s[h[k]] = s[h[l]]
    BY <1>2, <1>4 DEF Picked
  <2>2. h[k] = h[l]
    BY <1>3, <2>1 DEF IsInjective
  <2>3. k < l => h[k] < h[l]
    BY <1>2 DEF Picked
  <2>4. l < k => h[l] < h[k]
    BY <1>2 DEF Picked
  <2> QED BY <1>3, <2>1, <2>2, <2>3, <2>4
<1>5. IsInjective(t)
  BY <1>3, <1>4 DEF IsInjective
<1> QED BY <1>5 DEF t

\* One element more, and a set that says the same of the others.
LEMMA RetainAppend ==
    ASSUME NEW S, NEW s \in Seq(S), NEW x \in S, NEW K, NEW L,
           \A y \in Range(s) : y \in K <=> y \in L
    PROVE  retain(Append(s, x), L) =
              IF x \in L THEN Append(retain(s, K), x) ELSE retain(s, K)
<1> DEFINE t == Append(s, x)
<1>1. /\ t \in Seq(S) /\ Len(s) \in Nat /\ Len(t) = Len(s) + 1 /\ t[Len(s) + 1] = x
      /\ DOMAIN s = 1..Len(s)
      /\ \A i \in 1..Len(s) : t[i] = s[i]
  OBVIOUS
<1> HIDE DEF t
<1>2. PICK f : Rounds(s, K, Len(s), f) /\ retain(s, K) = f[Len(s)]
  BY <1>1, RetainRounds
<1>3. PICK g : Rounds(t, L, Len(t), g) /\ retain(t, L) = g[Len(t)]
  BY <1>1, RetainRounds
<1>4. /\ f[0] = <<>>
      /\ \A i \in 1..Len(s) : f[i] = IF s[i] \in K THEN Append(f[i - 1], s[i]) ELSE f[i - 1]
  <2>1. Len(s) \in Nat
    OBVIOUS
  <2> QED BY <1>2, <2>1, Round
<1>5. /\ g[0] = <<>>
      /\ \A i \in 1..Len(t) : g[i] = IF t[i] \in L THEN Append(g[i - 1], t[i]) ELSE g[i - 1]
  <2>1. Len(t) \in Nat
    BY <1>1
  <2> QED BY <1>3, <2>1, Round
<1> DEFINE T == {n \in Nat : n <= Len(s) => f[n] = g[n]}
<1>6. 0 \in T
  BY <1>4, <1>5
<1>7. ASSUME NEW n \in T PROVE n + 1 \in T
  <2> SUFFICES ASSUME n + 1 <= Len(s) PROVE f[n + 1] = g[n + 1]
    OBVIOUS
  <2>1. /\ n \in Nat /\ n + 1 \in 1..Len(s) /\ n + 1 \in 1..Len(t) /\ (n + 1) - 1 = n
        /\ f[n] = g[n]
    BY <1>1
  <2> HIDE DEF T
  <2>2. t[n + 1] = s[n + 1] /\ s[n + 1] \in Range(s)
    BY <1>1, <2>1 DEF Range
  <2>3. f[n + 1] = IF s[n + 1] \in K THEN Append(f[n], s[n + 1]) ELSE f[n]
    BY <1>4, <2>1
  <2>4. g[n + 1] = IF t[n + 1] \in L THEN Append(g[n], t[n + 1]) ELSE g[n]
    BY <1>5, <2>1
  <2> QED BY <2>1, <2>2, <2>3, <2>4
<1>8. T = Nat
  <2>1. T \in SUBSET Nat
    OBVIOUS
  <2> HIDE DEF T
  <2> QED BY <1>6, <1>7, <2>1, InductiveSet
<1>9. f[Len(s)] = g[Len(s)]
  BY <1>1, <1>8
<1>10. g[Len(t)] = IF x \in L THEN Append(g[Len(s)], x) ELSE g[Len(s)]
  <2>1. Len(t) \in 1..Len(t) /\ Len(t) - 1 = Len(s) /\ t[Len(t)] = x
    BY <1>1
  <2> QED BY <1>5, <2>1
<1> QED BY <1>2, <1>3, <1>9, <1>10 DEF t

LEMMA RetainEmpty ==
    ASSUME NEW kept
    PROVE  retain(<<>>, kept) = <<>>
<1>1. <<>> \in Seq({}) /\ Len(<<>>) = 0
  OBVIOUS
<1>2. retain(<<>>, kept) \in Seq({}) /\ Len(retain(<<>>, kept)) <= 0
  BY <1>1, RetainRange
<1> DEFINE t == retain(<<>>, kept)
<1> HIDE DEF t
<1>3. t \in Seq({}) /\ Len(t) <= 0
  BY <1>2 DEF t
<1>4. Len(t) = 0
  BY <1>3
<1>5. t = <<>>
  BY <1>3, <1>4
<1> QED BY <1>5 DEF t

\* Nothing to remove.
LEMMA RetainAll ==
    ASSUME NEW S, NEW s \in Seq(S), NEW kept, Range(s) \subseteq kept
    PROVE  retain(s, kept) = s
<1>0. Len(s) \in Nat
  OBVIOUS
<1>1. PICK f : Rounds(s, kept, Len(s), f) /\ retain(s, kept) = f[Len(s)]
  BY <1>0, RetainRounds
<1>2. /\ f[0] = <<>>
      /\ \A i \in 1..Len(s) : f[i] = IF s[i] \in kept THEN Append(f[i - 1], s[i]) ELSE f[i - 1]
  <2> DEFINE n == Len(s)
  <2>1. n \in Nat /\ Rounds(s, kept, n, f)
    BY <1>0, <1>1
  <2> HIDE DEF n
  <2>2. /\ f[0] = <<>>
        /\ \A i \in 1..n : f[i] = IF s[i] \in kept THEN Append(f[i - 1], s[i]) ELSE f[i - 1]
    BY <2>1, Round
  <2> QED BY <2>2 DEF n
<1>3. \A i \in 1..Len(s) : s[i] \in kept /\ s[i] \in S
  <2>1. DOMAIN s = 1..Len(s)
    OBVIOUS
  <2> QED BY <2>1 DEF Range
<1> DEFINE T == {n \in Nat : n <= Len(s) =>
                    f[n] \in Seq(S) /\ Len(f[n]) = n /\ \A i \in 1..n : f[n][i] = s[i]}
<1>4. 0 \in T
  <2>1. <<>> \in Seq(S) /\ Len(<<>>) = 0
    OBVIOUS
  <2>2. \A i \in 1..0 : f[0][i] = s[i]
    OBVIOUS
  <2> QED BY <1>2, <2>1, <2>2
<1>5. ASSUME NEW n \in T PROVE n + 1 \in T
  <2> SUFFICES ASSUME n + 1 <= Len(s)
               PROVE  /\ f[n + 1] \in Seq(S) /\ Len(f[n + 1]) = n + 1
                      /\ \A i \in 1..n + 1 : f[n + 1][i] = s[i]
    OBVIOUS
  <2>1. /\ n \in Nat /\ n + 1 \in 1..Len(s) /\ (n + 1) - 1 = n
        /\ f[n] \in Seq(S) /\ Len(f[n]) = n /\ \A i \in 1..n : f[n][i] = s[i]
    BY <1>0
  <2> HIDE DEF T
  <2>2. f[n + 1] = Append(f[n], s[n + 1]) /\ s[n + 1] \in S
    BY <1>2, <1>3, <2>1
  <2> DEFINE g == f[n]
             h == f[n + 1]
             x == s[n + 1]
  <2>3. /\ g \in Seq(S) /\ Len(g) = n /\ h = Append(g, x) /\ x \in S
    BY <2>1, <2>2
  <2> HIDE DEF g, h, x
  <2>4. h \in Seq(S) /\ Len(h) = n + 1 /\ h[n + 1] = x /\ \A i \in 1..n : h[i] = g[i]
    BY <2>1, <2>3
  <2>5. \A i \in 1..n + 1 : i \in 1..n \/ i = n + 1
    BY <2>1
  <2> QED BY <2>1, <2>4, <2>5 DEF g, h, x
<1>6. T = Nat
  <2>1. T \in SUBSET Nat
    OBVIOUS
  <2> HIDE DEF T
  <2> QED BY <1>4, <1>5, <2>1, InductiveSet
<1>7. /\ f[Len(s)] \in Seq(S) /\ Len(f[Len(s)]) = Len(s)
      /\ \A i \in 1..Len(s) : f[Len(s)][i] = s[i]
  BY <1>0, <1>6
<1> DEFINE t == f[Len(s)]
<1> HIDE DEF t
<1>8. t = s
  BY <1>7 DEF t
<1> QED BY <1>1, <1>8 DEF t

---------------------------------------------------------------------------
(* Vectors without repetitions.                                            *)

\* The numbers up to n are n.
LEMMA CountTo ==
    ASSUME NEW n \in Nat
    PROVE  IsFiniteSet(1..n) /\ Cardinality(1..n) = n
<1> DEFINE c == Cardinality(1..n)
<1>1. IsFiniteSet(1..n) /\ c = IF 1 > n THEN 0 ELSE n - 1 + 1
  BY FS_Interval
<1> HIDE DEF c
<1>2. c = n
  BY <1>1
<1> QED BY <1>1, <1>2 DEF c

LEMMA LenIsCardinality ==
    ASSUME NEW S, NEW s \in Seq(S), IsInjective(s)
    PROVE  IsFiniteSet(Range(s)) /\ Cardinality(Range(s)) = Len(s)
<1>1. DOMAIN s = 1..Len(s) /\ Len(s) \in Nat
  OBVIOUS
<1>2. s \in [1..Len(s) -> Range(s)]
  BY <1>1 DEF Range
<1>3. \A x \in Range(s) : \E i \in 1..Len(s) : s[i] = x
  BY <1>1 DEF Range
<1>4. s \in Bijection(1..Len(s), Range(s))
  BY <1>2, <1>3 DEF Bijection, Injection, Surjection
<1>5. ExistsBijection(1..Len(s), Range(s))
  BY <1>4 DEF ExistsBijection
<1>6. IsFiniteSet(1..Len(s)) /\ Cardinality(1..Len(s)) = Len(s)
  BY <1>1, CountTo
<1> QED BY <1>5, <1>6, FS_Bijection

\* The elements of a set in some order, each once.
LEMMA SetToSeqIs ==
    ASSUME NEW S, IsFiniteSet(S)
    PROVE  /\ SetToSeq(S) \in Seq(S)
           /\ IsInjective(SetToSeq(S))
           /\ Range(SetToSeq(S)) = S
<1> DEFINE n == Cardinality(S)
<1>1. n \in Nat /\ ExistsBijection(1..n, S)
  BY FS_CardinalityType
<1>2. \E f \in [1..n -> S] : IsInjective(f)
  BY <1>1 DEF ExistsBijection, Bijection, Injection
<1> DEFINE f == SetToSeq(S)
<1>3. f \in [1..n -> S] /\ IsInjective(f)
  BY <1>2, Zenon DEF SetToSeq
<1> HIDE DEF f
<1>4. f \in Injection(1..n, S)
  BY <1>3 DEF Injection
<1>5. Cardinality(1..n) = n
  BY <1>1, CountTo
<1>6. f \in Surjection(1..n, S)
  BY <1>4, <1>5, FS_Injection
<1> HIDE DEF n
<1>7. Range(f) = S
  BY <1>3, <1>6 DEF Range, Surjection
<1>8. f \in Seq(S)
  BY <1>1, <1>3, FunctionIsSeq
<1> QED BY <1>3, <1>7, <1>8 DEF f

\* One vector after another.
LEMMA ConcatIs ==
    ASSUME NEW S, NEW s \in Seq(S), NEW t \in Seq(S)
    PROVE  /\ s \o t \in Seq(S)
           /\ Range(s \o t) = Range(s) \cup Range(t)
           /\ IsInjective(s) /\ IsInjective(t) /\ Range(s) \cap Range(t) = {} => IsInjective(s \o t)
<1> DEFINE u == s \o t
           m == Len(s)
           n == Len(t)
<1>1. /\ u \in Seq(S) /\ m \in Nat /\ n \in Nat /\ DOMAIN s = 1..m /\ DOMAIN t = 1..n
      /\ DOMAIN u = 1..m + n
  OBVIOUS
<1>2. /\ \A i \in 1..m : u[i] = s[i]
      /\ \A i \in 1..n : u[m + i] = t[i]
  OBVIOUS
<1> HIDE DEF u, m, n
<1>3. \A i \in 1..m + n : i \in 1..m \/ (i - m \in 1..n /\ m + (i - m) = i)
  BY <1>1
<1>4. \A i \in 1..m : i \in 1..m + n
  BY <1>1
<1>5. \A i \in 1..n : m + i \in 1..m + n
  BY <1>1
<1>6. ASSUME NEW x \in Range(u) PROVE x \in Range(s) \cup Range(t)
  <2>1. PICK i \in 1..m + n : x = u[i]
    BY <1>1 DEF Range
  <2>2. CASE i \in 1..m
    BY <1>1, <1>2, <2>1, <2>2 DEF Range
  <2>3. CASE i - m \in 1..n /\ m + (i - m) = i
    <3>1. u[m + (i - m)] = t[i - m]
      BY <1>2, <2>3
    <3> QED BY <1>1, <2>1, <2>3, <3>1 DEF Range
  <2> QED BY <1>3, <2>2, <2>3
<1>7. ASSUME NEW x \in Range(s) \cup Range(t) PROVE x \in Range(u)
  BY <1>1, <1>2, <1>4, <1>5 DEF Range
<1>8. ASSUME IsInjective(s), IsInjective(t), Range(s) \cap Range(t) = {},
             NEW i \in 1..m + n, NEW j \in 1..m + n, u[i] = u[j]
      PROVE  i = j
  <2>1. CASE i \in 1..m /\ j \in 1..m
    BY <1>1, <1>2, <1>8, <2>1 DEF IsInjective
  <2>2. CASE i - m \in 1..n /\ m + (i - m) = i /\ j - m \in 1..n /\ m + (j - m) = j
    <3>1. u[m + (i - m)] = t[i - m] /\ u[m + (j - m)] = t[j - m]
      BY <1>2, <2>2
    <3>2. i - m = j - m
      BY <1>1, <1>8, <2>2, <3>1 DEF IsInjective
    <3> QED BY <1>1, <2>2, <3>2
  <2>3. ASSUME NEW a \in 1..m, NEW b \in 1..m + n, b - m \in 1..n, m + (b - m) = b, u[a] = u[b]
        PROVE  FALSE
    <3>1. u[m + (b - m)] = t[b - m]
      BY <1>2, <2>3
    <3>2. s[a] = t[b - m]
      BY <1>2, <2>3, <3>1
    <3>3. s[a] \in Range(s) /\ t[b - m] \in Range(t)
      BY <1>1, <2>3 DEF Range
    <3> QED BY <1>8, <3>2, <3>3
  <2> QED BY <1>3, <1>8, <2>1, <2>2, <2>3
<1> QED BY <1>1, <1>6, <1>7, <1>8 DEF u, IsInjective

\* Without its first n elements.
LEMMA DropIs ==
    ASSUME NEW S, NEW s \in Seq(S), IsInjective(s), NEW n \in 0..Len(s)
    PROVE  /\ SubSeq(s, n + 1, Len(s)) \in Seq(S)
           /\ Len(SubSeq(s, n + 1, Len(s))) = Len(s) - n
           /\ IsInjective(SubSeq(s, n + 1, Len(s)))
           /\ Range(SubSeq(s, n + 1, Len(s))) = Range(s) \ {s[j] : j \in 1..n}
<1> DEFINE t == SubSeq(s, n + 1, Len(s))
           l == Len(s)
           m == l - n
<1>1. l \in Nat /\ n \in Nat /\ n <= l /\ m \in Nat /\ DOMAIN s = 1..l
  OBVIOUS
<1>2. t \in Seq(S)
  OBVIOUS
<1>3. Len(t) = m
  OBVIOUS
<1>4. \A i \in 1..m : t[i] = s[n + i]
  OBVIOUS
<1> HIDE DEF t
<1>5. DOMAIN t = 1..m
  BY <1>2, <1>3
<1> HIDE DEF l
<1>6. \A i \in 1..m : n + i \in 1..l /\ n + i \notin 1..n
  BY <1>1
<1>7. \A i \in 1..l : i \in 1..n \/ (i - n \in 1..m /\ n + (i - n) = i)
  BY <1>1
<1>8. \A i \in 1..n : i \in 1..l
  BY <1>1
<1> DEFINE E == {s[j] : j \in 1..n}
<1>9. ASSUME NEW x \in Range(t) PROVE x \in Range(s) \ E
  <2>1. PICK i \in 1..m : x = s[n + i]
    BY <1>4, <1>5 DEF Range
  <2>2. x \in Range(s)
    BY <1>1, <1>6, <2>1 DEF Range
  <2>3. \A j \in 1..n : s[j] # x
    BY <1>1, <1>6, <1>8, <2>1 DEF IsInjective
  <2> QED BY <2>2, <2>3
<1>10. ASSUME NEW x \in Range(s) \ E PROVE x \in Range(t)
  <2>1. PICK i \in 1..l : x = s[i]
    BY <1>1 DEF Range
  <2>2. i - n \in 1..m /\ n + (i - n) = i
    BY <1>7, <2>1
  <2>3. t[i - n] = x
    BY <1>4, <2>1, <2>2
  <2> QED BY <1>5, <2>2, <2>3 DEF Range
<1>11. ASSUME NEW i \in 1..m, NEW j \in 1..m, t[i] = t[j] PROVE i = j
  <2>1. n + i = n + j
    BY <1>1, <1>4, <1>6, <1>11 DEF IsInjective
  <2> QED BY <1>1, <2>1
<1>12. IsInjective(t)
  BY <1>5, <1>11 DEF IsInjective
<1>13. Range(t) = Range(s) \ E
  BY <1>9, <1>10
<1> QED BY <1>2, <1>3, <1>12, <1>13 DEF t, l

\* A list without repetitions of some elements of I, with the missing ones put
\* in front: all of I, and the same list if none was missing.
LEMMA CompletedIs ==
    ASSUME NEW S, NEW o \in Seq(S), IsInjective(o), NEW I, I \subseteq S, IsFiniteSet(I),
           Range(o) \subseteq I
    PROVE  LET q == SetToSeq(I \ Range(o)) \o o
           IN  /\ q \in Seq(S) /\ IsInjective(q) /\ Range(q) = I /\ Len(q) = Cardinality(I)
               /\ Len(o) = Cardinality(I) => q = o
<1> DEFINE N == I \ Range(o)
           a == SetToSeq(N)
           q == a \o o
<1>1. IsFiniteSet(N) /\ N \subseteq S
  BY FS_Difference
<1>2. a \in Seq(N) /\ IsInjective(a) /\ Range(a) = N
  BY <1>1, SetToSeqIs
<1> HIDE DEF a
<1>3. Range(a) \cap Range(o) = {} /\ Range(a) \cup Range(o) = I
  BY <1>2
<1>4. a \in Seq(S)
  BY <1>1, <1>2, SeqOfMore
<1>5. q \in Seq(S) /\ Range(q) = I /\ IsInjective(q) /\ Len(q) = Len(a) + Len(o)
  <2>1. Len(q) = Len(a) + Len(o)
    BY <1>4
  <2>2. q \in Seq(S) /\ Range(q) = Range(a) \cup Range(o)
    BY <1>4, ConcatIs, SMTT(60)
  <2>3. IsInjective(q)
    BY <1>2, <1>3, <1>4, ConcatIs, Zenon
  <2> QED BY <1>3, <2>1, <2>2, <2>3
<1>6. Len(q) = Cardinality(I)
  BY <1>5, LenIsCardinality
<1>7. ASSUME Len(o) = Cardinality(I) PROVE q = o
  <2>1. Len(a) = 0
    BY <1>4, <1>5, <1>6, <1>7
  <2>2. a = <<>>
    BY <1>4, <2>1
  <2> QED BY <2>2
<1> HIDE DEF q
<1> QED BY <1>5, <1>6, <1>7 DEF q, a

\* Records that differ in their ids.
LEMMA CountById ==
    ASSUME NEW K, IsFiniteSet(K), \A e, f \in K : e.id = f.id => e = f
    PROVE  /\ IsFiniteSet({e.id : e \in K})
           /\ Cardinality({e.id : e \in K}) = Cardinality(K)
<1> DEFINE I == {e.id : e \in K}
           f == [e \in K |-> e.id]
<1>1. f \in [K -> I] /\ DOMAIN f = K /\ \A e \in K : f[e] = e.id
  OBVIOUS
<1>2. \A x \in I : \E e \in K : f[e] = x
  OBVIOUS
<1> HIDE DEF f, I
<1>3. IsInjective(f)
  BY <1>1 DEF IsInjective
<1>4. f \in Bijection(K, I)
  BY <1>1, <1>2, <1>3 DEF Bijection, Injection, Surjection
<1>5. ExistsBijection(K, I)
  BY <1>4 DEF ExistsBijection
<1>6. IsFiniteSet(I) /\ Cardinality(I) = Cardinality(K)
  BY <1>5, FS_Bijection
<1> QED BY <1>6 DEF I
============================================================================
