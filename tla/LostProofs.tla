----------------------------- MODULE LostProofs -----------------------------
(***************************************************************************)
(* Proof that module Ratchet loses an unread message only to the cap on    *)
(* banked keys: the two parties derive the same keys, every message has    *)
(* one place in one chain, and a place the receiver has come past is read, *)
(* banked, or was evicted behind MAX_SKIPPED_KEYS younger ones.            *)
(***************************************************************************)
EXTENDS RatchetProofs

---------------------------------------------------------------------------
(* The inductive invariant.                                                *)

\* The place of a message: its chain and its number in it.
Place(m) == skipped_key_id(m.header.dh, m.header.n)
Places(M) == {Place(m) : m \in M}

Older(x, y) == \/ x[1][2] < y[1][2]
               \/ x[1][2] = y[1][2] /\ x[2] < y[2]

\* How the messages M that q sealed are related: they are numbered without a
\* gap, and each names the length of the chain before its own.
History(q, M) ==
    \A m \in M :
        /\ m.sealed.key.i = m.header.n
        /\ m.header.dh[2] >= 1
        /\ \A n \in Nat : n < m.header.n => <<m.header.dh, n>> \in Places(M)
        /\ \A n \in Nat : <<<<q, m.header.dh[2] - 1>>, n>> \in Places(M) <=> n < m.header.pn

\* The counters of q's sending side agree with the messages M that it sealed.
Sending(q, s, M) ==
    /\ s.sending_chain_key # None => s.sending_chain_key.i = s.sending_msg_number
    /\ \A m \in M : m.header.dh[2] <= s.dhs[2]
    /\ \A n \in Nat : <<s.dhs, n>> \in Places(M) <=> n < s.sending_msg_number
    /\ \A n \in Nat : <<<<q, s.dhs[2] - 1>>, n>> \in Places(M)
                         <=> n < s.previous_sending_chain_length

\* p can derive the key of every message of M, those the peer sealed, that lies
\* ahead, and has the right key for what is banked.
Receiving(p, s, M) ==
    /\ s.receiving_chain_key # None => s.receiving_chain_key.i = s.receiving_msg_number
    /\ \A n \in Nat : n < s.receiving_msg_number => <<s.dhr, n>> \in Places(M)
    /\ \A m \in M : m.header.dh = s.dhr =>
          s.receiving_chain_key # None /\ m.sealed.key.rk = s.receiving_chain_key.rk
    /\ \A m \in M : NextChain(p, s, m.header.dh) =>
          m.sealed.key.rk = Append(s.root_key, {s.dhs, m.header.dh})
    /\ \A m \in M : \/ NextChain(p, s, m.header.dh)
                    \/ s.dhr # None /\ m.header.dh[2] <= s.dhr[2]
    /\ \A e \in s.skipped_keys :
          e.id \in Places(M) /\ \A m \in M : Place(m) = e.id => m.sealed.key = e.mk
    /\ \A x \in Range(s.retired_peer_dh_keys) : s.dhr # None /\ x[2] < s.dhr[2]

\* p, in state a, made the last step: its root key is one derivation ahead of
\* the one the peer, in state b, sends under.
Leads(p, a, b) ==
    /\ a.sending_chain_key # None
    /\ NextChain(Peer(p), b, a.dhs)
    /\ a.dhr = b.dhs
    /\ a.root_key = Append(b.root_key, {b.dhs, a.dhs})
    /\ a.receiving_chain_key = None <=> b.sending_chain_key = None
    /\ a.receiving_chain_key # None => a.receiving_chain_key.rk = b.root_key

\* The order list goes from the oldest key to the youngest.
ByAge(o) == \A i, j \in DOMAIN o : i < j => Older(o[i], o[j])

\* The places p has come past, of those in P.
Past(p, s, P) == {x \in P : Reached(p, s, x[1], x[2])}

\* B are banked, Q read: what p has come past and is neither, went when
\* MAX_SKIPPED_KEYS others were banked, and except in a session of an older
\* version (u) all of them were younger.
Capped(u, P, Q, B) ==
    \A x \in P \ (Q \cup B) :
        /\ u \/ \A b \in B : Older(x, b)
        /\ Cardinality({b \in Q \cup B : u \/ Older(x, b)}) >= MAX_SKIPPED_KEYS

Evictions(u, p, s, M, R) ==
    /\ u \/ ByAge(s.skipped_key_order)
    /\ Capped(u, Past(p, s, Places(M)), Places(R), Ids(s.skipped_keys))

Delivery(p) ==
    /\ Sending(p, st[p], Range(sent[p]))
    /\ Receiving(p, st[p], Range(sent[Peer(p)]))
    /\ Evictions(p \in upgraded, p, st[p], Range(sent[Peer(p)]), Range(read[p]))

\* Messages are in order.
InOrder(q) == \A i, j \in DOMAIN sent[q] : i < j => Older(Place(sent[q][i]), Place(sent[q][j]))

DeliveryInv ==
    /\ \A p \in Party : InOrder(p) /\ History(p, Range(sent[p]))
    /\ \A p \in Party : ~Zeroed(st[p]) => Delivery(p)
    /\ (\A p \in Party : ~Zeroed(st[p])) => \E p \in Party : Leads(p, st[p], st[Peer(p)])

---------------------------------------------------------------------------
(* Lists ordered by age.                                                   *)

LEMMA ByAgeRetain ==
    ASSUME NEW S, NEW o \in Seq(S), ByAge(o), NEW kept
    PROVE  ByAge(retain(o, kept))
<1> DEFINE t == retain(o, kept)
<1>1. t \in Seq(S)
  BY RetainPicks
<1>2. PICK h : Picked(o, kept, Len(o), t, h)
  BY RetainPicks
<1> HIDE DEF t
<1>3. DOMAIN o = 1..Len(o) /\ DOMAIN t = 1..Len(t)
  BY <1>1
<1>4. ASSUME NEW i \in 1..Len(t), NEW j \in 1..Len(t), i < j PROVE Older(t[i], t[j])
  <2>1. /\ h[i] \in 1..Len(o) /\ h[j] \in 1..Len(o) /\ h[i] < h[j]
        /\ t[i] = o[h[i]] /\ t[j] = o[h[j]]
    BY <1>2, <1>4 DEF Picked
  <2> QED BY <1>3, <2>1 DEF ByAge
<1>5. ByAge(t)
  BY <1>3, <1>4 DEF ByAge
<1> QED BY <1>5 DEF t

LEMMA ByAgeConcat ==
    ASSUME NEW S, NEW s \in Seq(S), NEW t \in Seq(S), ByAge(s), ByAge(t),
           \A x \in Range(s), y \in Range(t) : Older(x, y)
    PROVE  ByAge(s \o t)
<1> DEFINE u == s \o t
           m == Len(s)
           n == Len(t)
<1>1. /\ m \in Nat /\ n \in Nat /\ DOMAIN s = 1..m /\ DOMAIN t = 1..n
      /\ DOMAIN u = 1..m + n
      /\ \A i \in 1..m : u[i] = s[i]
      /\ \A i \in m + 1 .. m + n : u[i] = t[i - m]
  OBVIOUS
<1> HIDE DEF u, m, n
<1>2. ASSUME NEW i \in 1..m + n, NEW j \in 1..m + n, i < j PROVE Older(u[i], u[j])
  <2>1. CASE j <= m
    <3>1. i \in 1..m /\ j \in 1..m
      BY <1>1, <1>2, <2>1
    <3> QED BY <1>1, <1>2, <3>1 DEF ByAge
  <2>2. CASE i <= m /\ j > m
    <3>1. i \in 1..m /\ j \in m + 1 .. m + n /\ j - m \in 1..n
      BY <1>1, <2>2
    <3>2. u[i] \in Range(s) /\ u[j] \in Range(t)
      BY <1>1, <3>1 DEF Range
    <3> QED BY <3>2
  <2>3. CASE i > m
    <3>1. /\ i \in m + 1 .. m + n /\ j \in m + 1 .. m + n
          /\ i - m \in 1..n /\ j - m \in 1..n /\ i - m < j - m
      BY <1>1, <1>2, <2>3
    <3>2. u[i] = t[i - m] /\ u[j] = t[j - m]
      BY <1>1, <3>1
    <3>3. Older(t[i - m], t[j - m])
      BY <1>1, <3>1 DEF ByAge
    <3> QED BY <3>2, <3>3
  <2> QED BY <1>1, <2>1, <2>2, <2>3
<1>3. ByAge(u)
  BY <1>1, <1>2 DEF ByAge
<1> QED BY <1>3 DEF u

LEMMA ByAgeDrop ==
    ASSUME NEW S, NEW s \in Seq(S), ByAge(s), NEW n \in 0..Len(s)
    PROVE  /\ ByAge(SubSeq(s, n + 1, Len(s)))
           /\ \A j \in 1..n, y \in Range(SubSeq(s, n + 1, Len(s))) : Older(s[j], y)
<1> DEFINE t == SubSeq(s, n + 1, Len(s))
           l == Len(s)
           m == l - n
<1>1. l \in Nat /\ n \in Nat /\ n <= l /\ m \in Nat /\ DOMAIN s = 1..l
  OBVIOUS
<1>2. t \in Seq(S) /\ Len(t) = m
  OBVIOUS
<1>3. \A i \in 1..m : t[i] = s[n + i]
  OBVIOUS
<1> HIDE DEF t
<1>4. DOMAIN t = 1..m
  BY <1>2
<1> HIDE DEF l
<1>5. \A i \in 1..m : n + i \in 1..l
  BY <1>1
<1>6. ASSUME NEW i \in 1..m, NEW j \in 1..m, i < j PROVE Older(t[i], t[j])
  <2>1. n + i < n + j
    BY <1>1, <1>6
  <2> QED BY <1>1, <1>3, <1>5, <2>1 DEF ByAge
<1>7. ASSUME NEW j \in 1..n, NEW y \in Range(t) PROVE Older(s[j], y)
  <2>1. PICK i \in 1..m : y = s[n + i]
    BY <1>3, <1>4 DEF Range
  <2>2. j \in 1..l /\ n + i \in 1..l /\ j < n + i
    BY <1>1, <1>5
  <2> QED BY <1>1, <2>1, <2>2 DEF ByAge
<1>8. ByAge(t)
  BY <1>4, <1>6 DEF ByAge
<1> QED BY <1>7, <1>8 DEF t, l

---------------------------------------------------------------------------
(* What skip_message_keys leaves banked.                                   *)

\* All of A is banked, or as much as the cap allows, the youngest.
Thinned(u, A, B) ==
    /\ B \subseteq A
    /\ \/ B = A
       \/ /\ Cardinality(B) = MAX_SKIPPED_KEYS
          /\ u \/ \A x \in A \ B, b \in B : Older(x, b)

LEMMA EvictThins ==
    ASSUME NEW s, Typed(s), BankOf(s.skipped_keys, s.skipped_key_order), NEW u \in BOOLEAN,
           u \/ (Complete(s) /\ ByAge(s.skipped_key_order))
    PROVE  LET t == evict_oldest_skipped_keys(s)
           IN  /\ u \/ ByAge(t.skipped_key_order)
               /\ Thinned(u, Ids(s.skipped_keys), Ids(t.skipped_keys))
<1> DEFINE t == evict_oldest_skipped_keys(s)
           K == s.skipped_keys
           o == s.skipped_key_order
           c == Cardinality(K)
<1>0. IsFiniteSet(K) /\ c \in Nat /\ MAX_SKIPPED_KEYS \in Nat
  BY FS_CardinalityType, LimitsAssumption DEF BankOf
<1>1. CASE c <= MAX_SKIPPED_KEYS
  <2>1. t = s
    BY <1>1 DEF evict_oldest_skipped_keys
  <2> QED BY <2>1 DEF Thinned
<1>2. CASE ~(c <= MAX_SKIPPED_KEYS)
  <2> DEFINE q == adopt_unordered_skipped_keys(s).skipped_key_order
             excess == c - MAX_SKIPPED_KEYS
             evicted == {q[j] : j \in 1..excess}
             L == {e \in K : e.id \notin evicted}
             r == SubSeq(q, excess + 1, Len(q))
  <2>1. t = [s EXCEPT !.skipped_keys = L, !.skipped_key_order = r]
    BY <1>2, Zenon DEF evict_oldest_skipped_keys
  <2>2. BankOf(K, q) /\ Range(q) = Ids(K)
    BY AdoptIs
  <2>3. u \/ ByAge(q)
    <3>1. ASSUME ~u PROVE q = o
      <4>1. IsInjective(o) /\ o \in Seq(SkippedIds) /\ Range(o) = Ids(K)
        BY <3>1 DEF BankOf, Complete
      <4>2. Cardinality(Range(o)) = Len(o)
        BY <4>1, LenIsCardinality
      <4>3. Cardinality(Ids(K)) = Cardinality(K)
        BY <1>0, IdsCount DEF BankOf
      <4>4. Len(o) = Cardinality(K)
        BY <4>1, <4>2, <4>3
      <4> QED BY <4>4 DEF adopt_unordered_skipped_keys
    <3> HIDE DEF q, o
    <3> QED BY <3>1 DEF o
  <2> HIDE DEF K, q, t, c
  <2>4. /\ \A e, f \in K : e.id = f.id => e = f
        /\ q \in Seq(SkippedIds) /\ IsInjective(q)
    BY <2>2 DEF BankOf
  <2>5. Len(q) = c
    <3>1. Cardinality(Range(q)) = Len(q)
      BY <2>4, LenIsCardinality
    <3>2. Cardinality(Ids(K)) = Cardinality(K)
      BY <1>0, <2>4, IdsCount
    <3> QED BY <2>2, <3>1, <3>2 DEF c
  <2>6. excess \in 0..Len(q) /\ Len(q) - excess = MAX_SKIPPED_KEYS
    BY <1>0, <1>2, <2>5
  <2> HIDE DEF excess
  <2>7. /\ r \in Seq(SkippedIds) /\ Len(r) = MAX_SKIPPED_KEYS /\ IsInjective(r)
        /\ Range(r) = Range(q) \ evicted
    BY <2>4, <2>6, DropIs
  <2>8. u \/ (ByAge(r) /\ \A x \in evicted, y \in Range(r) : Older(x, y))
    <3>1. ASSUME ~u PROVE ByAge(r) /\ \A j \in 1..excess, y \in Range(r) : Older(q[j], y)
      BY <2>3, <2>4, <2>6, <3>1, ByAgeDrop
    <3> QED BY <3>1
  <2> HIDE DEF evicted, r
  <2>9. Ids(L) = Ids(K) \ evicted
    BY DEF Ids
  <2> HIDE DEF L
  <2>10. Range(r) = Ids(L)
    BY <2>2, <2>7, <2>9
  <2>11. Cardinality(Ids(L)) = MAX_SKIPPED_KEYS
    BY <2>7, <2>10, LenIsCardinality
  <2>12. t.skipped_keys = L /\ t.skipped_key_order = r
    BY <2>1 DEF Typed
  <2>13. (u \/ ByAge(r)) /\ Thinned(u, Ids(K), Ids(L))
    BY <2>8, <2>9, <2>10, <2>11 DEF Thinned
  <2> QED BY <2>12, <2>13 DEF t, K
<1> QED BY <1>1, <1>2

\* The places skip_message_keys comes past on its way to `until`.
FreshPlaces(s, until) == {<<s.dhr, n>> : n \in s.receiving_msg_number .. until - 1}

LEMMA FreshIds ==
    ASSUME NEW s, Typed(s), NEW until \in Nat
    PROVE  Ids(SkippedEntries(s, until)) = FreshPlaces(s, until)
<1> DEFINE N == s.receiving_msg_number .. until - 1
           entry(n) == [id |-> <<s.dhr, n>>,
                        mk |-> Advance(s.receiving_chain_key, n - s.receiving_msg_number)]
<1>1. SkippedEntries(s, until) = {entry(n) : n \in N}
  BY DEF SkippedEntries, skipped_key_id
<1>2. \A n \in N : entry(n).id = <<s.dhr, n>>
  OBVIOUS
<1>3. FreshPlaces(s, until) = {<<s.dhr, n>> : n \in N}
  BY DEF FreshPlaces
<1> HIDE DEF N, entry
<1> QED BY <1>1, <1>2, <1>3 DEF Ids

LEMMA FreshByAge ==
    ASSUME NEW d, NEW n0 \in Nat, NEW k \in Nat
    PROVE  ByAge([j \in 1..k |-> skipped_key_id(d, n0 + j - 1)])
<1> DEFINE f == [j \in 1..k |-> skipped_key_id(d, n0 + j - 1)]
<1>1. DOMAIN f = 1..k
  OBVIOUS
<1>2. \A j \in 1..k : f[j][1] = d /\ f[j][2] = n0 + j - 1
  BY DEF skipped_key_id
<1> HIDE DEF f
<1>3. ASSUME NEW i \in 1..k, NEW j \in 1..k, i < j PROVE Older(f[i], f[j])
  <2>1. f[i][1] = f[j][1] /\ f[i][2] < f[j][2]
    BY <1>2, <1>3
  <2> QED BY <2>1 DEF Older
<1>4. ByAge(f)
  BY <1>1, <1>3 DEF ByAge
<1> QED BY <1>4 DEF f

\* Forwarding the chain banks what it comes past, all of it new and younger
\* than what is banked, and then evicts the oldest.
LEMMA SkipThins ==
    ASSUME NEW s, Typed(s), BankInv(s), NEW u \in BOOLEAN,
           u \/ (Complete(s) /\ ByAge(s.skipped_key_order)),
           NEW until \in Nat, skip_message_keys(s, until).err = "none",
           skip_message_keys(s, until).s # s,
           Ids(s.skipped_keys) \cap FreshPlaces(s, until) = {},
           \A x \in Ids(s.skipped_keys), y \in FreshPlaces(s, until) : Older(x, y)
    PROVE  LET t == skip_message_keys(s, until).s
           IN  /\ u \/ ByAge(t.skipped_key_order)
               /\ Thinned(u, Ids(s.skipped_keys) \cup FreshPlaces(s, until), Ids(t.skipped_keys))
<1> DEFINE t == skip_message_keys(s, until).s
           K == s.skipped_keys
           o == s.skipped_key_order
           fresh == SkippedEntries(s, until)
           F == FreshPlaces(s, until)
           n0 == s.receiving_msg_number
           ids == [j \in 1..(until - n0) |-> skipped_key_id(s.dhr, n0 + j - 1)]
           ck2 == Advance(s.receiving_chain_key, until - n0)
           kept == {e \in K : e.id \notin Ids(fresh)}
           B == kept \cup fresh
           new == retain(ids, Range(ids) \ Ids(K))
           q == o \o new
           v == [s EXCEPT !.skipped_keys = B, !.skipped_key_order = q]
           w == evict_oldest_skipped_keys(v)
<1>1. s.receiving_chain_key # None /\ s.dhr # None /\ until > n0
  BY SkipShape
<1>2. t = [bank_skipped_keys(s, until) EXCEPT !.receiving_msg_number = until,
                                              !.receiving_chain_key = ck2]
  BY DEF skip_message_keys, Ok, Err
<1>3. bank_skipped_keys(s, until) = w
  BY Zenon DEF bank_skipped_keys
<1>4. /\ IsFiniteSet(fresh) /\ \A e, f \in fresh : e.id = f.id => e = f
      /\ ids \in Seq(SkippedIds) /\ IsInjective(ids) /\ Range(ids) = Ids(fresh)
  BY <1>1, FreshBank
<1>5. fresh \in SUBSET [id : SkippedIds, mk : MsgKeys] /\ Ids(fresh) = F
  BY <1>1, FreshEntries, FreshIds
<1>6. /\ K \in SUBSET [id : SkippedIds, mk : MsgKeys] /\ IsFiniteSet(K)
      /\ \A e, f \in K : e.id = f.id => e = f
      /\ o \in Seq(SkippedIds) /\ IsInjective(o) /\ Range(o) \subseteq Ids(K)
  BY DEF BankInv, BankOf
<1>7. ByAge(ids)
  <2>1. n0 \in Nat /\ until - n0 \in Nat
    BY <1>1 DEF Typed
  <2> HIDE DEF n0
  <2> QED BY <2>1, FreshByAge
<1> HIDE DEF K, o, fresh, F, ids, n0, t, ck2
<1>8. /\ new \in Seq(SkippedIds) /\ IsInjective(new) /\ ByAge(new)
      /\ Range(new) = F
  <2>1. new \in Seq(SkippedIds) /\ Range(new) = Range(ids) \cap (Range(ids) \ Ids(K))
    BY <1>4, RetainRange
  <2>2. IsInjective(new) /\ ByAge(new)
    BY <1>4, <1>7, RetainInjective, ByAgeRetain
  <2>3. Range(ids) \ Ids(K) = F
    BY <1>4, <1>5 DEF F, K
  <2> QED BY <1>4, <1>5, <2>1, <2>2, <2>3
<1> HIDE DEF new
<1>9. /\ q \in Seq(SkippedIds) /\ IsInjective(q) /\ Range(q) = Range(o) \cup F
      /\ u \/ ByAge(q)
  <2>1. Range(o) \cap Range(new) = {}
    BY <1>6, <1>8 DEF F, K
  <2>2. q \in Seq(SkippedIds) /\ IsInjective(q) /\ Range(q) = Range(o) \cup F
    BY <1>6, <1>8, <2>1, ConcatIs
  <2>3. \A x \in Range(o), y \in Range(new) : Older(x, y)
    BY <1>6, <1>8 DEF F, K
  <2>4. ByAge(o) => ByAge(q)
    BY <1>6, <1>8, <2>3, ByAgeConcat
  <2> QED BY <2>2, <2>4 DEF o
<1>10. kept = K
  <2>1. \A e \in K : e.id \in Ids(K)
    BY DEF Ids
  <2> QED BY <1>5, <2>1 DEF K, F
<1>11. Ids(B) = Ids(K) \cup F
  <2>1. Ids(K \cup fresh) = Ids(K) \cup Ids(fresh)
    BY DEF Ids
  <2> QED BY <1>5, <1>10, <2>1
<1>12. IsFiniteSet(B) /\ B \in SUBSET [id : SkippedIds, mk : MsgKeys]
  <2>1. IsFiniteSet(K \cup fresh)
    BY <1>4, <1>6, FS_Union
  <2> QED BY <1>5, <1>6, <1>10, <2>1
<1>13. \A e, f \in B : e.id = f.id => e = f
  <2>1. ASSUME NEW e \in K, NEW f \in fresh PROVE e.id # f.id
    <3>1. e.id \in Ids(K) /\ f.id \in Ids(fresh)
      BY DEF Ids
    <3> QED BY <1>5, <3>1 DEF K, F
  <2> QED BY <1>4, <1>6, <1>10, <2>1
<1> HIDE DEF B, q
<1>14. BankOf(B, q)
  BY <1>6, <1>9, <1>11, <1>12, <1>13 DEF BankOf
<1>15. Typed(v) /\ v.skipped_keys = B /\ v.skipped_key_order = q
  BY <1>12 DEF Typed
<1>16. u \/ (Complete(v) /\ ByAge(v.skipped_key_order))
  BY <1>9, <1>11, <1>15 DEF Complete, K, o
<1> HIDE DEF v
<1>17. (u \/ ByAge(w.skipped_key_order)) /\ Thinned(u, Ids(B), Ids(w.skipped_keys))
  BY <1>14, <1>15, <1>16, EvictThins
<1>18. t.skipped_keys = w.skipped_keys /\ t.skipped_key_order = w.skipped_key_order
  <2>1. \E L \in SUBSET v.skipped_keys : \E r :
           w = [v EXCEPT !.skipped_keys = L, !.skipped_key_order = r]
    BY <1>15, EvictShrinks
  <2> HIDE DEF w
  <2> QED BY <1>2, <1>3, <1>15, <2>1 DEF Typed
<1> HIDE DEF w
<1>19. (u \/ ByAge(t.skipped_key_order)) /\ Thinned(u, Ids(K) \cup F, Ids(t.skipped_keys))
  BY <1>11, <1>17, <1>18
<1> QED BY <1>19 DEF t, K, F

---------------------------------------------------------------------------
(* What is neither read nor banked.                                        *)

\* More is read or banked, of the same or of later places.
LEMMA CappedGrows ==
    ASSUME NEW u \in BOOLEAN, NEW P, NEW Q, NEW B, NEW P2, NEW Q2, NEW B2,
           Capped(u, P, Q, B), IsFiniteSet(Q2 \cup B2),
           Q \cup B \subseteq Q2 \cup B2,
           \A x \in P2 \ (Q2 \cup B2) : x \in P /\ (u \/ \A b \in B2 : b \in B \/ Older(x, b))
    PROVE  Capped(u, P2, Q2, B2)
<1> SUFFICES ASSUME NEW x \in P2 \ (Q2 \cup B2)
             PROVE  /\ u \/ \A b \in B2 : Older(x, b)
                    /\ Cardinality({b \in Q2 \cup B2 : u \/ Older(x, b)}) >= MAX_SKIPPED_KEYS
  BY DEF Capped
<1> DEFINE A == {b \in Q \cup B : u \/ Older(x, b)}
           A2 == {b \in Q2 \cup B2 : u \/ Older(x, b)}
<1>1. x \in P \ (Q \cup B)
  OBVIOUS
<1>2. (u \/ \A b \in B : Older(x, b)) /\ Cardinality(A) >= MAX_SKIPPED_KEYS
  BY <1>1 DEF Capped
<1>3. u \/ \A b \in B2 : Older(x, b)
  BY <1>2
<1>4. A \subseteq A2 /\ A2 \subseteq Q2 \cup B2
  OBVIOUS
<1> HIDE DEF A, A2
<1>5. IsFiniteSet(A2)
  BY <1>4, FS_Subset
<1>6. Cardinality(A) <= Cardinality(A2) /\ IsFiniteSet(A)
  BY <1>4, <1>5, FS_Subset
<1>7. Cardinality(A) \in Nat /\ Cardinality(A2) \in Nat
  BY <1>5, <1>6, FS_CardinalityType
<1>8. Cardinality(A2) >= MAX_SKIPPED_KEYS
  BY <1>2, <1>6, <1>7, LimitsAssumption
<1> QED BY <1>3, <1>8 DEF A2

\* The places in F come up, all of them younger, and the bank is thinned.
LEMMA CappedThins ==
    ASSUME NEW u \in BOOLEAN, NEW P, NEW Q, NEW B, NEW F, NEW P2, NEW B2,
           Capped(u, P, Q, B), IsFiniteSet(Q), IsFiniteSet(B2),
           P2 \subseteq P \cup F, \A x \in P, y \in F : Older(x, y),
           Thinned(u, B \cup F, B2)
    PROVE  Capped(u, P2, Q, B2)
<1>0. IsFiniteSet(Q \cup B2)
  BY FS_Union
<1>1. CASE B2 = B \cup F
  BY <1>0, <1>1, CappedGrows
<1>2. CASE /\ B2 \subseteq B \cup F
           /\ Cardinality(B2) = MAX_SKIPPED_KEYS
           /\ u \/ \A x \in (B \cup F) \ B2, b \in B2 : Older(x, b)
  <2> SUFFICES ASSUME NEW x \in P2 \ (Q \cup B2)
               PROVE  /\ u \/ \A b \in B2 : Older(x, b)
                      /\ Cardinality({b \in Q \cup B2 : u \/ Older(x, b)}) >= MAX_SKIPPED_KEYS
    BY DEF Capped
  <2> DEFINE A == {b \in Q \cup B2 : u \/ Older(x, b)}
  <2>1. u \/ \A b \in B2 : Older(x, b)
    <3>1. CASE x \in (B \cup F) \ B2
      BY <1>2, <3>1
    <3>2. CASE x \in P \ (Q \cup B)
      <4>1. u \/ \A b \in B : Older(x, b)
        BY <3>2 DEF Capped
      <4> QED BY <1>2, <3>2, <4>1
    <3> QED BY <3>1, <3>2
  <2>2. B2 \subseteq A /\ A \subseteq Q \cup B2
    BY <2>1
  <2> HIDE DEF A
  <2>3. IsFiniteSet(A)
    BY <1>0, <2>2, FS_Subset
  <2>4. Cardinality(B2) <= Cardinality(A)
    BY <2>2, <2>3, FS_Subset
  <2>5. Cardinality(A) >= MAX_SKIPPED_KEYS
    <3>1. Cardinality(A) \in Nat
      BY <2>3, FS_CardinalityType
    <3> QED BY <1>2, <2>4, <3>1, LimitsAssumption
  <2> QED BY <2>1, <2>5 DEF A
<1> QED BY <1>1, <1>2 DEF Thinned

---------------------------------------------------------------------------
(* The steps of ratchet_decrypt.                                           *)

\* The messages M that q sealed.
Script(q, M) ==
    /\ History(q, M)
    /\ \A m \in M : m \in Messages /\ SealedBy(q, m) /\ NumberedMessage(q, m)

\* Such a message has its types, its place and its key number.
WellSealed(q, M, m) ==
    /\ m.header.dh \in PubKeys /\ m.header.dh[1] = q /\ m.header.dh[2] \in Nat
    /\ m.header.dh # None
    /\ m.header.n \in Nat /\ m.header.pn \in Nat
    /\ m.sealed.key \in MsgKeys /\ m.sealed.key.i = m.header.n
    /\ m.sealed = [key |-> m.sealed.key, ad |-> m.header]
    /\ Place(m) = <<m.header.dh, m.header.n>>
    /\ Place(m) \in Places(M)

LEMMA ScriptPlace ==
    ASSUME NEW q, NEW M, Script(q, M), NEW m \in M
    PROVE  WellSealed(q, M, m)
<1>1. m \in Messages /\ SealedBy(q, m) /\ NumberedMessage(q, m) /\ m.sealed.key.i = m.header.n
  BY DEF Script, History
<1>2. m.header.dh \in PubKeys /\ m.header.dh[1] = q /\ m.header.dh[2] \in Nat
  BY <1>1 DEF NumberedMessage, PubKeys
<1>3. m.header.n \in Nat /\ m.header.pn \in Nat
  BY <1>1 DEF Messages, Headers
<1>4. m.sealed.key \in MsgKeys /\ m.sealed = [key |-> m.sealed.key, ad |-> m.header]
  BY <1>1 DEF SealedBy
<1>5. Place(m) = <<m.header.dh, m.header.n>> /\ Place(m) \in Places(M)
  BY DEF Place, Places, skipped_key_id
<1> QED BY <1>1, <1>2, <1>3, <1>4, <1>5, NoneAssumption DEF WellSealed

\* A place in a chain of q.
PlaceIn(q, x) ==
    /\ x \in SkippedIds
    /\ x = <<x[1], x[2]>>
    /\ x[1] \in PubKeys /\ x[1][1] = q /\ x[1][2] \in Nat
    /\ x[2] \in Nat

LEMMA PlaceOf ==
    ASSUME NEW q, NEW M, Script(q, M), NEW x \in Places(M)
    PROVE  /\ \E m \in M : x = Place(m)
           /\ PlaceIn(q, x)
<1>1. PICK m \in M : x = Place(m)
  BY DEF Places
<1>2. WellSealed(q, M, m)
  BY ScriptPlace
<1>3. x = <<m.header.dh, m.header.n>> /\ m.header.dh \in PubKeys /\ m.header.dh[1] = q
      /\ m.header.dh[2] \in Nat /\ m.header.n \in Nat
  BY <1>1, <1>2 DEF WellSealed
<1>4. x \in SkippedIds
  BY <1>3 DEF SkippedIds
<1>5. PlaceIn(q, x)
  BY <1>3, <1>4 DEF PlaceIn
<1> QED BY <1>1, <1>5

\* Forwarding the chain over places of M derives their keys.
LEMMA SkipReceives ==
    ASSUME NEW p \in Party, NEW s, Typed(s), NEW M, Script(Peer(p), M), Receiving(p, s, M),
           NEW until \in Nat, skip_message_keys(s, until).err = "none",
           s.receiving_chain_key # None =>
              \A n \in Nat : n < until => <<s.dhr, n>> \in Places(M)
    PROVE  Receiving(p, skip_message_keys(s, until).s, M)
<1> DEFINE t == skip_message_keys(s, until).s
           ck == s.receiving_chain_key
           n0 == s.receiving_msg_number
           ck2 == Advance(ck, until - n0)
           fresh == SkippedEntries(s, until)
<1>1. CASE t = s
  BY <1>1
<1>2. CASE t # s
  <2>1. s.receiving_chain_key # None /\ s.dhr # None /\ until > n0
    BY <1>2, SkipShape
  <2>2. PICK K \in SUBSET (s.skipped_keys \cup fresh) : \E o :
           t = [s EXCEPT !.skipped_keys = K, !.skipped_key_order = o,
                         !.receiving_msg_number = until, !.receiving_chain_key = ck2]
    BY <1>2, SkipShape
  <2>3. PICK o : t = [s EXCEPT !.skipped_keys = K, !.skipped_key_order = o,
                               !.receiving_msg_number = until, !.receiving_chain_key = ck2]
    BY <2>2
  <2>4. n0 \in Nat /\ s.dhr \in PubKeys /\ ck \in ChainKeys /\ ck.i \in Nat
    BY <2>1 DEF Typed, ChainKeys
  <2>5. ck.i = n0
    BY <2>1 DEF Receiving
  <2>6. ck2.rk = ck.rk /\ ck2.i = until /\ ck2 # None
    <3>1. ck2 = [rk |-> ck.rk, i |-> ck.i + (until - n0)]
      BY DEF Advance
    <3>2. ck.i + (until - n0) = until
      BY <2>4, <2>5
    <3>3. ck2 \in ChainKeys
      BY <2>4, <3>1, <3>2 DEF ChainKeys
    <3> QED BY <3>1, <3>2, <3>3, NoneAssumption
  <2>7. ASSUME NEW e \in fresh
        PROVE  \E n \in Nat : /\ n >= n0 /\ n < until /\ e.id = <<s.dhr, n>>
                              /\ e.mk = [rk |-> ck.rk, i |-> n]
    <3>1. PICK n \in n0 .. until - 1 : e = [id |-> skipped_key_id(s.dhr, n), mk |-> Advance(ck, n - n0)]
      BY DEF SkippedEntries
    <3>2. n \in Nat /\ n >= n0 /\ n < until /\ ck.i + (n - n0) = n
      BY <2>4, <2>5
    <3>3. e.id = <<s.dhr, n>> /\ e.mk = [rk |-> ck.rk, i |-> ck.i + (n - n0)]
      BY <3>1 DEF skipped_key_id, Advance
    <3> QED BY <3>2, <3>3
  <2> HIDE DEF fresh, t, ck2
  <2>8. /\ t.root_key = s.root_key /\ t.dhs = s.dhs /\ t.dhr = s.dhr
        /\ t.retired_peer_dh_keys = s.retired_peer_dh_keys
        /\ t.receiving_msg_number = until /\ t.skipped_keys = K
        /\ t.receiving_chain_key = ck2
    BY <2>3 DEF Typed
  <2>9. \A d : NextChain(p, t, d) <=> NextChain(p, s, d)
    BY <2>8 DEF NextChain
  <2>10. ASSUME NEW e \in K
         PROVE  e.id \in Places(M) /\ \A m \in M : Place(m) = e.id => m.sealed.key = e.mk
    <3>1. CASE e \in s.skipped_keys
      BY <3>1 DEF Receiving
    <3>2. CASE e \in fresh
      <4>1. PICK n \in Nat : /\ n >= n0 /\ n < until /\ e.id = <<s.dhr, n>>
                             /\ e.mk = [rk |-> ck.rk, i |-> n]
        BY <2>7, <3>2
      <4>2. e.id \in Places(M)
        BY <2>1, <4>1
      <4>3. ASSUME NEW m \in M, Place(m) = e.id PROVE m.sealed.key = e.mk
        <5>1. Place(m) = <<m.header.dh, m.header.n>> /\ m.sealed.key \in MsgKeys
              /\ m.sealed.key.i = m.header.n
          <6>1. WellSealed(Peer(p), M, m)
            BY ScriptPlace
          <6> QED BY <6>1 DEF WellSealed
        <5>2. m.header.dh = s.dhr /\ m.header.n = n
          BY <4>1, <4>3, <5>1
        <5>3. m.sealed.key.rk = ck.rk /\ m.sealed.key.i = n
          BY <5>1, <5>2 DEF Receiving
        <5>4. m.sealed.key = [rk |-> m.sealed.key.rk, i |-> m.sealed.key.i]
          BY <5>1 DEF MsgKeys, ChainKeys
        <5> QED BY <4>1, <5>3, <5>4
      <4> QED BY <4>2, <4>3
    <3> QED BY <3>1, <3>2
  <2>11. \A n \in Nat : n < until => <<s.dhr, n>> \in Places(M)
    BY <2>1
  <2>12. Receiving(p, t, M)
    <3>1. \A m \in M : m.header.dh = t.dhr =>
             t.receiving_chain_key # None /\ m.sealed.key.rk = t.receiving_chain_key.rk
      BY <2>6, <2>8 DEF Receiving
    <3>2. \A m \in M : NextChain(p, t, m.header.dh) =>
             m.sealed.key.rk = Append(t.root_key, {t.dhs, m.header.dh})
      BY <2>8, <2>9 DEF Receiving
    <3>3. \A m \in M : \/ NextChain(p, t, m.header.dh)
                       \/ t.dhr # None /\ m.header.dh[2] <= t.dhr[2]
      BY <2>8, <2>9 DEF Receiving
    <3>4. \A x \in Range(t.retired_peer_dh_keys) : t.dhr # None /\ x[2] < t.dhr[2]
      BY <2>8 DEF Receiving
    <3>5. t.receiving_chain_key.i = t.receiving_msg_number
      BY <2>6, <2>8
    <3>6. \A n \in Nat : n < t.receiving_msg_number => <<t.dhr, n>> \in Places(M)
      BY <2>8, <2>11
    <3>7. \A e \in t.skipped_keys :
             e.id \in Places(M) /\ \A m \in M : Place(m) = e.id => m.sealed.key = e.mk
      BY <2>8, <2>10
    <3> QED BY <3>1, <3>2, <3>3, <3>4, <3>5, <3>6, <3>7 DEF Receiving
  <2> QED BY <2>12 DEF t
<1> QED BY <1>1, <1>2

\* What lies ahead is younger than what p has come past.
LEMMA AheadIsYounger ==
    ASSUME NEW p, NEW s, Typed(s), Numbered(p, s), NEW x,
           Reached(p, s, x[1], x[2]), NEW until \in Nat, NEW y \in FreshPlaces(s, until)
    PROVE  Older(x, y) /\ x # y
<1> DEFINE n0 == s.receiving_msg_number
<1>1. PICK n \in n0 .. until - 1 : y = <<s.dhr, n>>
  BY DEF FreshPlaces
<1>2. n0 \in Nat /\ n >= n0 /\ y[1] = s.dhr /\ y[2] = n /\ n \in Nat
  BY <1>1 DEF Typed
<1>3. s.dhr \in PubKeys /\ s.dhr[1] = Peer(p) /\ s.dhr[2] \in Nat
  BY DEF Reached, Numbered, Typed, PubKeys
<1>4. x[1] \in PubKeys /\ x[2] \in Nat /\ x[1][1] = Peer(p) /\ x[1][2] \in Nat /\ x[1][2] <= s.dhr[2]
      /\ (x[1] = s.dhr => x[2] < n0)
  BY DEF Reached, PubKeys
<1>5. CASE x[1] = s.dhr
  <2>1. x[2] < n /\ x[2] # n
    BY <1>2, <1>4, <1>5
  <2> QED BY <1>2, <1>5, <2>1 DEF Older
<1>6. CASE x[1] # s.dhr
  <2>1. x[1][2] # s.dhr[2]
    BY <1>3, <1>4, <1>6, PairEq
  <2>2. x[1][2] < s.dhr[2]
    BY <1>3, <1>4, <2>1
  <2> QED BY <1>2, <1>6, <2>2 DEF Older
<1> QED BY <1>5, <1>6

\* All that holds of p's receiving side when M was sealed for it and R read.
Delivered(u, p, s, M, R) ==
    /\ Safe(p, s)
    /\ s.retired_peer_dh_keys \in Seq(PubKeys)
    /\ BankInv(s)
    /\ u \/ Complete(s)
    /\ Known(p, s, R)
    /\ Receiving(p, s, M)
    /\ Evictions(u, p, s, M, R)

LEMMA BankFinite ==
    ASSUME NEW s, BankInv(s)
    PROVE  IsFiniteSet(Ids(s.skipped_keys))
BY IdsCount DEF BankInv, BankOf

LEMMA PlacesFinite ==
    ASSUME NEW R, IsFiniteSet(R)
    PROVE  IsFiniteSet(Places(R))
<1> DEFINE f == [m \in R |-> Place(m)]
<1>1. f \in [R -> Places(R)] /\ \A m \in R : f[m] = Place(m)
  BY DEF Places
<1> HIDE DEF f
<1>2. \A x \in Places(R) : \E m \in R : f[m] = x
  BY <1>1 DEF Places
<1>3. f \in Surjection(R, Places(R))
  BY <1>1, <1>2 DEF Surjection
<1> QED BY <1>3, FS_Surjection

\* No place that forwarding comes past is lost, unless to the cap.
LEMMA SkipEvictions ==
    ASSUME NEW p \in Party, NEW s, Typed(s), BankInv(s), NEW u \in BOOLEAN, u \/ Complete(s),
           NEW M, Script(Peer(p), M), NEW R, IsFiniteSet(R), Known(p, s, R), Evictions(u, p, s, M, R),
           NEW until \in Nat, skip_message_keys(s, until).err = "none"
    PROVE  Evictions(u, p, skip_message_keys(s, until).s, M, R)
<1> DEFINE t == skip_message_keys(s, until).s
           B == Ids(s.skipped_keys)
           F == FreshPlaces(s, until)
           P == Past(p, s, Places(M))
           P2 == Past(p, t, Places(M))
<1>1. CASE t = s
  BY <1>1
<1>2. CASE t # s
  <2>1. /\ s.receiving_chain_key # None /\ s.dhr # None /\ until > s.receiving_msg_number
        /\ Forwarded(s, t) /\ t.receiving_msg_number = until
    <3>1. s.receiving_chain_key # None /\ s.dhr # None /\ until > s.receiving_msg_number
      BY <1>2, SkipShape
    <3>2. until >= s.receiving_msg_number
      BY <3>1 DEF Typed
    <3> QED BY <3>1, <3>2, SkipForwards
  <2>2. Numbered(p, s)
    BY DEF Known
  <2>3. ASSUME NEW x \in B, NEW y \in F PROVE Older(x, y) /\ x # y
    <3>1. PICK e \in s.skipped_keys : x = e.id
      BY DEF Ids
    <3>2. Reached(p, s, x[1], x[2])
      BY <3>1 DEF Known
    <3> QED BY <2>2, <3>2, AheadIsYounger
  <2>4. ASSUME NEW x \in P, NEW y \in F PROVE Older(x, y)
    <3>1. Reached(p, s, x[1], x[2])
      BY DEF Past
    <3> QED BY <2>2, <3>1, AheadIsYounger
  <2>5. B \cap F = {}
    BY <2>3
  <2>6. u \/ (Complete(s) /\ ByAge(s.skipped_key_order))
    BY DEF Evictions
  <2>7. (u \/ ByAge(t.skipped_key_order)) /\ Thinned(u, B \cup F, Ids(t.skipped_keys))
    BY <1>2, <2>3, <2>5, <2>6, SkipThins
  <2>8. P2 \subseteq P \cup F
    <3> SUFFICES ASSUME NEW x \in Places(M), Reached(p, t, x[1], x[2]), ~Reached(p, s, x[1], x[2])
                 PROVE  x \in F
      BY DEF Past
    <3>1. x = <<x[1], x[2]>> /\ x[2] \in Nat
      <4>1. PlaceIn(Peer(p), x)
        BY PlaceOf
      <4> QED BY <4>1 DEF PlaceIn
    <3>2. x[1] = s.dhr /\ x[2] >= s.receiving_msg_number /\ x[2] < until
      BY <2>1, <3>1 DEF Reached, Forwarded
    <3>3. x[2] \in s.receiving_msg_number .. until - 1
      BY <2>1, <3>1, <3>2 DEF Typed
    <3> QED BY <3>1, <3>2, <3>3 DEF FreshPlaces
  <2>9. IsFiniteSet(Places(R)) /\ IsFiniteSet(Ids(t.skipped_keys))
    <3>1. BankInv(t)
      BY SkipKeepsBank DEF BankKept
    <3> QED BY <3>1, BankFinite, PlacesFinite
  <2>10. Capped(u, P, Places(R), B)
    BY DEF Evictions
  <2> HIDE DEF t, B, F, P, P2
  <2>11. Capped(u, P2, Places(R), Ids(t.skipped_keys))
    BY <2>4, <2>7, <2>8, <2>9, <2>10, CappedThins
  <2>12. Evictions(u, p, t, M, R)
    BY <2>7, <2>11 DEF Evictions, P2
  <2> QED BY <2>12 DEF t
<1> QED BY <1>1, <1>2

LEMMA SkipDelivers ==
    ASSUME NEW p \in Party, NEW u \in BOOLEAN, NEW s, NEW M, Script(Peer(p), M),
           NEW R, IsFiniteSet(R), Delivered(u, p, s, M, R),
           NEW until \in Nat, skip_message_keys(s, until).err = "none",
           s.receiving_chain_key # None =>
              \A n \in Nat : n < until => <<s.dhr, n>> \in Places(M)
    PROVE  Delivered(u, p, skip_message_keys(s, until).s, M, R)
<1> DEFINE t == skip_message_keys(s, until).s
<1>1. /\ Safe(p, s) /\ BankInv(s) /\ (u \/ Complete(s)) /\ Known(p, s, R)
      /\ Receiving(p, s, M) /\ Evictions(u, p, s, M, R)
      /\ s.retired_peer_dh_keys \in Seq(PubKeys)
  BY DEF Delivered
<1>2. Typed(s)
  BY <1>1 DEF Safe
<1>3. Safe(p, t)
  BY <1>1, SkipIsSafe
<1>4. BankInv(t) /\ (u \/ Complete(t))
  BY <1>1, <1>2, SkipKeepsBank DEF BankKept
<1>5. Known(p, t, R) /\ t.retired_peer_dh_keys = s.retired_peer_dh_keys
  <2>1. Forwarded(s, t)
    BY <1>2, SkipForwards
  <2>2. t.retired_peer_dh_keys = s.retired_peer_dh_keys
    BY <2>1 DEF Forwarded
  <2> QED BY <1>1, <1>2, <2>1, <2>2, ForwardedKnown
<1>6. Receiving(p, t, M)
  BY <1>1, <1>2, SkipReceives
<1>7. Evictions(u, p, t, M, R)
  BY <1>1, <1>2, SkipEvictions
<1> QED BY <1>1, <1>3, <1>4, <1>5, <1>6, <1>7 DEF Delivered

\* t sends on the chain s sends on and receives on the one s receives on.
SameChains(s, t) ==
    /\ t.root_key = s.root_key /\ t.dhs = s.dhs /\ t.dhr = s.dhr
    /\ t.sending_chain_key = s.sending_chain_key
    /\ t.sending_msg_number = s.sending_msg_number
    /\ t.previous_sending_chain_length = s.previous_sending_chain_length
    /\ t.receiving_chain_key = None <=> s.receiving_chain_key = None
    /\ s.receiving_chain_key # None => t.receiving_chain_key.rk = s.receiving_chain_key.rk

\* t receives on the chain of dh and sends on a new one.
Stepped(s, dh, t) ==
    /\ t.dhr = dh
    /\ t.dhs = <<s.dhs[1], s.dhs[2] + 1>>
    /\ t.receiving_chain_key # None
    /\ t.receiving_chain_key.rk = Append(s.root_key, {s.dhs, dh})
    /\ t.root_key = Append(Append(s.root_key, {s.dhs, dh}), {t.dhs, dh})
    /\ t.sending_chain_key # None
    /\ t.sending_chain_key.i = 0
    /\ t.sending_msg_number = 0
    /\ t.previous_sending_chain_length = s.sending_msg_number

LEMMA SkipSameChains ==
    ASSUME NEW s, Typed(s), NEW until \in Nat, skip_message_keys(s, until).err = "none"
    PROVE  SameChains(s, skip_message_keys(s, until).s)
<1> DEFINE t == skip_message_keys(s, until).s
           ck2 == Advance(s.receiving_chain_key, until - s.receiving_msg_number)
<1>1. CASE t = s
  BY <1>1 DEF SameChains
<1>2. CASE t # s
  <2>1. s.receiving_chain_key # None
    BY <1>2, SkipShape
  <2>2. t.receiving_chain_key \in ChainKeys
        /\ t.receiving_chain_key.rk = s.receiving_chain_key.rk
    BY <2>1, SkipKeepsChain
  <2>3. \E K, o : t = [s EXCEPT !.skipped_keys = K, !.skipped_key_order = o,
                                !.receiving_msg_number = until, !.receiving_chain_key = ck2]
    BY <1>2, SkipShape
  <2> HIDE DEF t, ck2
  <2>4. /\ t.root_key = s.root_key /\ t.dhs = s.dhs /\ t.dhr = s.dhr
        /\ t.sending_chain_key = s.sending_chain_key
        /\ t.sending_msg_number = s.sending_msg_number
        /\ t.previous_sending_chain_length = s.previous_sending_chain_length
    BY <2>3 DEF Typed
  <2>5. SameChains(s, t)
    BY <2>1, <2>2, <2>4, NoneAssumption DEF SameChains
  <2> QED BY <2>5 DEF t
<1> QED BY <1>1, <1>2

LEMMA StepSteps ==
    ASSUME NEW s, Typed(s), NEW dh \in PubKeys
    PROVE  /\ Stepped(s, dh, dh_ratchet_step(s, dh))
           /\ dh_ratchet_step(s, dh).receiving_chain_key.i = 0
<1> DEFINE new_dhs == <<s.dhs[1], s.dhs[2] + 1>>
           rk1 == Append(s.root_key, {s.dhs, dh})
           rk2 == Append(rk1, {new_dhs, dh})
           recv == [rk |-> rk1, i |-> 0]
           send == [rk |-> rk2, i |-> 0]
           old == RetirePeerKey(s, dh)
           t == dh_ratchet_step(s, dh)
<1>1. t = [s EXCEPT
                !.previous_sending_chain_length = s.sending_msg_number,
                !.sending_msg_number = 0,
                !.receiving_msg_number = 0,
                !.retired_peer_dh_keys = old,
                !.dhr = dh,
                !.receiving_chain_key = recv,
                !.dhs = new_dhs,
                !.root_key = rk2,
                !.sending_chain_key = send]
  BY Zenon DEF dh_ratchet_step, kdf_rk, x25519_derive_shared, generate_x25519
<1>2. s.root_key \in Seq(SUBSET PubKeys) /\ s.dhs \in PubKeys
  BY DEF Typed, RootKeys
<1>3. new_dhs \in PubKeys
  BY <1>2 DEF PubKeys
<1> HIDE DEF new_dhs
<1>4. rk1 \in RootKeys
  BY <1>2 DEF RootKeys
<1> HIDE DEF rk1
<1>5. rk2 \in RootKeys
  BY <1>3, <1>4 DEF RootKeys
<1> HIDE DEF rk2
<1>6. recv \in ChainKeys /\ send \in ChainKeys
  BY <1>4, <1>5 DEF ChainKeys
<1>7. recv # None /\ send # None /\ recv.rk = rk1 /\ recv.i = 0 /\ send.i = 0
  BY <1>6, NoneAssumption
<1> HIDE DEF t, recv, send, old
<1>8. /\ t.dhr = dh /\ t.dhs = new_dhs /\ t.root_key = rk2
      /\ t.receiving_chain_key = recv /\ t.sending_chain_key = send
      /\ t.sending_msg_number = 0
      /\ t.previous_sending_chain_length = s.sending_msg_number
  BY <1>1 DEF Typed
<1>9. Stepped(s, dh, t) /\ t.receiving_chain_key.i = 0
  BY <1>7, <1>8 DEF Stepped, new_dhs, rk1, rk2
<1> QED BY <1>9 DEF t

LEMMA RetiredRange ==
    ASSUME NEW s, Typed(s), s.retired_peer_dh_keys \in Seq(PubKeys), NEW dh
    PROVE  \A x \in Range(RetirePeerKey(s, dh)) :
              x \in Range(s.retired_peer_dh_keys) \/ (s.dhr # None /\ x = s.dhr)
<1> DEFINE L == s.retired_peer_dh_keys
           P == Append(L, s.dhr)
<1>1. CASE s.dhr = None \/ s.dhr = dh \/ s.dhr \in Range(L)
  BY <1>1 DEF RetirePeerKey
<1>2. CASE ~(s.dhr = None \/ s.dhr = dh \/ s.dhr \in Range(L))
  <2>1. s.dhr \in PubKeys
    BY <1>2 DEF Typed
  <2>2. P \in Seq(PubKeys) /\ P # <<>> /\ Range(P) = Range(L) \cup {s.dhr}
    BY <2>1, RangeAppend
  <2>3. RetirePeerKey(s, dh) = IF Len(P) > MAX_RETIRED_DH_KEYS THEN Tail(P) ELSE P
    BY <1>2, Zenon DEF RetirePeerKey
  <2> HIDE DEF P
  <2>4. Range(Tail(P)) \subseteq Range(P)
    <3> DEFINE T == Tail(P)
    <3>1. /\ DOMAIN T = 1 .. Len(P) - 1 /\ \A i \in 1 .. Len(P) - 1 : T[i] = P[i + 1]
          /\ DOMAIN P = 1..Len(P) /\ Len(P) \in Nat
      BY <2>2
    <3> HIDE DEF T
    <3>2. \A i \in 1 .. Len(P) - 1 : i + 1 \in 1..Len(P)
      BY <3>1
    <3>3. Range(T) \subseteq Range(P)
      BY <3>1, <3>2 DEF Range
    <3> QED BY <3>3 DEF T
  <2> QED BY <1>2, <2>2, <2>3, <2>4
<1> QED BY <1>1, <1>2

\* The step derives the chain of the message that made it.
LEMMA StepReceives ==
    ASSUME NEW p \in Party, NEW s, Typed(s), s.retired_peer_dh_keys \in Seq(PubKeys),
           NEW M, Script(Peer(p), M), Receiving(p, s, M), NEW dh, NextChain(p, s, dh)
    PROVE  Receiving(p, dh_ratchet_step(s, dh), M)
<1> DEFINE t == dh_ratchet_step(s, dh)
<1>0. dh \in PubKeys /\ dh # None /\ dh[2] \in Nat /\ dh[1] = Peer(p)
  BY NoneAssumption DEF NextChain, PubKeys
<1>1. /\ t.receiving_msg_number = 0 /\ t.skipped_keys = s.skipped_keys
      /\ t.retired_peer_dh_keys = RetirePeerKey(s, dh)
  BY <1>0, StepIs
<1>2. Stepped(s, dh, t) /\ t.receiving_chain_key.i = 0
  BY <1>0, StepSteps
<1> HIDE DEF t
<1>3. /\ t.dhr = dh /\ t.receiving_chain_key # None
      /\ t.receiving_chain_key.rk = Append(s.root_key, {s.dhs, dh})
  BY <1>2 DEF Stepped
<1>4. s.dhr # None => s.dhr[2] \in Nat /\ dh[2] = s.dhr[2] + 1
  BY DEF NextChain, Typed, PubKeys
<1>5. ASSUME NEW m \in M PROVE m.header.dh[2] \in Nat /\ m.header.dh[2] <= dh[2]
  <2>1. WellSealed(Peer(p), M, m)
    BY ScriptPlace
  <2>2. m.header.dh[2] \in Nat
    BY <2>1 DEF WellSealed
  <2>3. CASE NextChain(p, s, m.header.dh)
    BY <1>0, <2>3 DEF NextChain
  <2>4. CASE s.dhr # None /\ m.header.dh[2] <= s.dhr[2]
    BY <1>0, <1>4, <2>2, <2>4
  <2> QED BY <2>2, <2>3, <2>4 DEF Receiving
<1>6. ASSUME NEW m \in M PROVE ~NextChain(p, t, m.header.dh)
  <2>1. t.dhr # None
    BY <1>0, <1>3
  <2> QED BY <1>0, <1>3, <1>5, <2>1 DEF NextChain
<1>7. ASSUME NEW m \in M, m.header.dh = dh PROVE m.sealed.key.rk = t.receiving_chain_key.rk
  BY <1>3, <1>7 DEF Receiving
<1>8. ASSUME NEW x \in Range(t.retired_peer_dh_keys) PROVE x[2] < dh[2]
  <2>1. x \in Range(s.retired_peer_dh_keys) \/ (s.dhr # None /\ x = s.dhr)
    BY <1>1, RetiredRange
  <2>2. CASE x \in Range(s.retired_peer_dh_keys)
    <3>1. s.dhr # None /\ x[2] < s.dhr[2]
      BY <2>2 DEF Receiving
    <3>2. x \in PubKeys
      BY <2>2, RangeIn
    <3> QED BY <1>4, <3>1, <3>2 DEF PubKeys
  <2>3. CASE s.dhr # None /\ x = s.dhr
    BY <1>4, <2>3
  <2> QED BY <2>1, <2>2, <2>3
<1>9. \A n \in Nat : ~(n < t.receiving_msg_number)
  BY <1>1
<1>10. \A e \in t.skipped_keys :
          e.id \in Places(M) /\ \A m \in M : Place(m) = e.id => m.sealed.key = e.mk
  BY <1>1 DEF Receiving
<1>11. t.receiving_chain_key.i = t.receiving_msg_number
  BY <1>1, <1>2
<1>12. Receiving(p, t, M)
  BY <1>0, <1>3, <1>5, <1>6, <1>7, <1>8, <1>9, <1>10, <1>11 DEF Receiving
<1> QED BY <1>12 DEF t

\* With the chain before forwarded to its end, the step leaves nothing behind.
LEMMA StepEvictions ==
    ASSUME NEW p \in Party, NEW s, Typed(s), NEW u \in BOOLEAN,
           NEW M, Script(Peer(p), M), NEW R, Evictions(u, p, s, M, R),
           NEW dh, NextChain(p, s, dh),
           \A m \in M : m.header.dh = s.dhr => m.header.n < s.receiving_msg_number
    PROVE  Evictions(u, p, dh_ratchet_step(s, dh), M, R)
<1> DEFINE t == dh_ratchet_step(s, dh)
<1>0. dh \in PubKeys /\ dh[2] \in Nat /\ dh[1] = Peer(p)
  BY DEF NextChain, PubKeys
<1>1. /\ t.dhr = dh /\ t.receiving_msg_number = 0 /\ t.skipped_keys = s.skipped_keys
      /\ t.skipped_key_order = s.skipped_key_order
  BY <1>0, StepIs
<1> HIDE DEF t
<1>2. ASSUME NEW x \in Places(M), Reached(p, t, x[1], x[2]) PROVE Reached(p, s, x[1], x[2])
  <2>1. /\ x[1] \in PubKeys /\ x[1][1] = Peer(p) /\ x[1][2] \in Nat /\ x[2] \in Nat
        /\ x[1][2] >= Base(p) /\ x[1][2] <= dh[2] /\ x[1] # dh
    BY <1>1, <1>2 DEF Reached, PubKeys
  <2>2. x[1][2] < dh[2]
    <3>1. x[1][2] # dh[2]
      BY <1>0, <2>1, PairEq
    <3> QED BY <1>0, <2>1, <3>1
  <2>3. s.dhr # None /\ s.dhr[2] \in Nat /\ dh[2] = s.dhr[2] + 1
    <3>1. s.dhr # None
      <4>1. Base(p) \in {0, 1}
        BY BaseType
      <4> QED BY <2>1, <2>2, <4>1 DEF NextChain
    <3> QED BY <3>1 DEF NextChain, Typed, PubKeys
  <2>4. x[1][2] <= s.dhr[2]
    BY <2>1, <2>2, <2>3
  <2>5. x[1] = s.dhr => x[2] < s.receiving_msg_number
    <3>1. PICK m \in M : x = Place(m)
      BY PlaceOf
    <3>2. x[1] = m.header.dh /\ x[2] = m.header.n
      BY <3>1 DEF Place, skipped_key_id
    <3> QED BY <3>2
  <2> QED BY <2>1, <2>3, <2>4, <2>5 DEF Reached
<1>3. ASSUME NEW x \in Past(p, t, Places(M)) PROVE x \in Past(p, s, Places(M))
  BY <1>2 DEF Past
<1>4. Capped(u, Past(p, t, Places(M)), Places(R), Ids(t.skipped_keys))
  BY <1>1, <1>3 DEF Evictions, Capped
<1>5. Evictions(u, p, t, M, R)
  BY <1>1, <1>4 DEF Evictions
<1> QED BY <1>5 DEF t

LEMMA StepDelivers ==
    ASSUME NEW p \in Party, NEW u \in BOOLEAN, NEW s, NEW M, Script(Peer(p), M),
           NEW R, Delivered(u, p, s, M, R), NEW dh, NextChain(p, s, dh),
           \A m \in M : m.header.dh = s.dhr => m.header.n < s.receiving_msg_number
    PROVE  Delivered(u, p, dh_ratchet_step(s, dh), M, R)
<1> DEFINE t == dh_ratchet_step(s, dh)
<1>1. /\ Safe(p, s) /\ BankInv(s) /\ (u \/ Complete(s)) /\ Known(p, s, R)
      /\ Receiving(p, s, M) /\ Evictions(u, p, s, M, R)
      /\ s.retired_peer_dh_keys \in Seq(PubKeys)
  BY DEF Delivered
<1>2. Typed(s) /\ dh \in PubKeys
  BY <1>1 DEF Safe, NextChain
<1>3. Safe(p, t) /\ t.receiving_chain_key # None
  BY <1>1, <1>2, StepIsSafe
<1>4. BankInv(t) /\ (u \/ Complete(t)) /\ t.retired_peer_dh_keys \in Seq(PubKeys)
  <2>1. /\ t.skipped_keys = s.skipped_keys /\ t.skipped_key_order = s.skipped_key_order
        /\ t.retired_peer_dh_keys = RetirePeerKey(s, dh)
    BY <1>2, StepIs
  <2>2. BankKept(s, t)
    BY <2>1, BankUntouched
  <2>3. RetirePeerKey(s, dh) \in Seq(PubKeys)
    BY <1>1, <1>2, RetiredType
  <2> QED BY <1>1, <2>1, <2>2, <2>3 DEF BankKept
<1>5. Known(p, t, R)
  BY <1>1, <1>2, <1>3, StepKnown
<1>6. Receiving(p, t, M)
  BY <1>1, <1>2, StepReceives
<1>7. Evictions(u, p, t, M, R)
  BY <1>1, <1>2, StepEvictions
<1> QED BY <1>3, <1>4, <1>5, <1>6, <1>7 DEF Delivered

\* A message that opens leaves the relations between the keys intact.
LEMMA OpenedSafe ==
    ASSUME NEW p, NEW s, NEW m, NEW t, Opened(p, s, m, t)
    PROVE  Safe(p, t)
BY DEF Opened

\* One more message is read, and nothing else of what p has come past changes.
LEMMA ReadEvictions ==
    ASSUME NEW p, NEW s, NEW t, NEW u \in BOOLEAN, NEW M, NEW R, IsFiniteSet(R), NEW m,
           Evictions(u, p, s, M, R), BankInv(t),
           u \/ ByAge(t.skipped_key_order),
           Ids(t.skipped_keys) \subseteq Ids(s.skipped_keys),
           Ids(s.skipped_keys) \subseteq Ids(t.skipped_keys) \cup {Place(m)},
           \A x \in Places(M) : Reached(p, t, x[1], x[2]) /\ x # Place(m) => Reached(p, s, x[1], x[2])
    PROVE  Evictions(u, p, t, M, R \cup {m})
<1> DEFINE P == Past(p, s, Places(M))
           P2 == Past(p, t, Places(M))
           B == Ids(s.skipped_keys)
           B2 == Ids(t.skipped_keys)
           Q == Places(R)
           Q2 == Places(R \cup {m})
<1>1. Q2 = Q \cup {Place(m)}
  BY DEF Places
<1>2. Q \cup B \subseteq Q2 \cup B2
  BY <1>1
<1>3. ASSUME NEW x \in P2 \ (Q2 \cup B2) PROVE x \in P /\ \A b \in B2 : b \in B
  BY <1>1 DEF Past
<1>4. IsFiniteSet(Q2 \cup B2)
  <2>1. IsFiniteSet(R \cup {m})
    BY FS_AddElement
  <2>2. IsFiniteSet(Q2) /\ IsFiniteSet(B2)
    BY <2>1, PlacesFinite, BankFinite
  <2> HIDE DEF Q2, B2
  <2> QED BY <2>2, FS_Union
<1>5. Capped(u, P, Q, B)
  BY DEF Evictions
<1> HIDE DEF P, P2, B, B2, Q, Q2
<1>6. Capped(u, P2, Q2, B2)
  BY <1>2, <1>3, <1>4, <1>5, CappedGrows
<1> QED BY <1>6 DEF Evictions, P2, Q2, B2

\* The next key of the receiving chain opens the message at its place.
LEMMA OpenDelivers ==
    ASSUME NEW p \in Party, NEW u \in BOOLEAN, NEW s, NEW M, Script(Peer(p), M),
           NEW R, IsFiniteSet(R), Delivered(u, p, s, M, R), NEW m \in M,
           m.header.dh = s.dhr, m.header.n = s.receiving_msg_number,
           OpenNext(s, m).err = "none"
    PROVE  Delivered(u, p, OpenNext(s, m).s, M, R \cup {m}) /\ SameChains(s, OpenNext(s, m).s)
<1> DEFINE ck == s.receiving_chain_key
           next == kdf_ck(ck).next
           n1 == s.receiving_msg_number + 1
           t == OpenNext(s, m).s
<1>1. /\ Safe(p, s) /\ BankInv(s) /\ (u \/ Complete(s)) /\ Known(p, s, R)
      /\ Receiving(p, s, M) /\ Evictions(u, p, s, M, R)
      /\ s.retired_peer_dh_keys \in Seq(PubKeys)
  BY DEF Delivered
<1>2. Typed(s) /\ s.receiving_msg_number \in Nat
  BY <1>1 DEF Safe, Typed
<1>3. t = [s EXCEPT !.receiving_chain_key = next, !.receiving_msg_number = n1] /\ ck # None
  BY DEF OpenNext, Err, Ok
<1>4. WellSealed(Peer(p), M, m)
  BY ScriptPlace
<1>5. s.dhr # None /\ m.header.n \in Nat /\ Place(m) = <<s.dhr, s.receiving_msg_number>>
      /\ Place(m) \in Places(M)
  BY <1>4 DEF WellSealed
<1>6. Safe(p, t)
  BY <1>1, OpenIsSafe, OpenedSafe
<1>7. ListsKept(p, s, m, t)
  BY <1>2, <1>5, OpenKnown
<1>8. Known(p, t, R \cup {m}) /\ t.retired_peer_dh_keys \in Seq(PubKeys)
  BY <1>1, <1>7 DEF ListsKept
<1>9. next.rk = ck.rk /\ next.i = n1 /\ next # None /\ n1 \in Nat
  <2>1. ck \in ChainKeys /\ ck.i = s.receiving_msg_number
    BY <1>1, <1>2, <1>3 DEF Typed, Receiving
  <2>2. next = [rk |-> ck.rk, i |-> ck.i + 1]
    BY DEF kdf_ck
  <2>3. next \in ChainKeys
    BY <2>1, <2>2 DEF ChainKeys
  <2> QED BY <1>2, <2>1, <2>2, <2>3, NoneAssumption
<1> HIDE DEF t, next, ck
<1>10. /\ t.skipped_keys = s.skipped_keys /\ t.skipped_key_order = s.skipped_key_order
       /\ t.retired_peer_dh_keys = s.retired_peer_dh_keys
       /\ t.dhr = s.dhr /\ t.dhs = s.dhs /\ t.root_key = s.root_key
       /\ t.sending_chain_key = s.sending_chain_key
       /\ t.sending_msg_number = s.sending_msg_number
       /\ t.previous_sending_chain_length = s.previous_sending_chain_length
       /\ t.receiving_msg_number = n1 /\ t.receiving_chain_key = next
  BY <1>2, <1>3 DEF Typed
<1>11. BankInv(t) /\ (u \/ Complete(t))
  BY <1>1, <1>10, BankUntouched DEF BankKept
<1>12. \A n \in Nat : n < n1 => <<s.dhr, n>> \in Places(M)
  <2>1. ASSUME NEW n \in Nat, n < n1 PROVE <<s.dhr, n>> \in Places(M)
    <3>1. n < s.receiving_msg_number \/ n = s.receiving_msg_number
      BY <1>2, <2>1
    <3> QED BY <1>1, <1>5, <3>1 DEF Receiving
  <2> QED BY <2>1
<1>13. Receiving(p, t, M)
  <2>1. \A d : NextChain(p, t, d) <=> NextChain(p, s, d)
    BY <1>10 DEF NextChain
  <2> QED BY <1>1, <1>3, <1>9, <1>10, <1>12, <2>1 DEF Receiving, ck
<1>14. Evictions(u, p, t, M, R \cup {m})
  <2>1. ASSUME NEW x \in Places(M), Reached(p, t, x[1], x[2]), x # Place(m)
        PROVE  Reached(p, s, x[1], x[2])
    <3>1. x = <<x[1], x[2]>> /\ x[2] \in Nat
      <4>1. PlaceIn(Peer(p), x)
        BY PlaceOf
      <4> QED BY <4>1 DEF PlaceIn
    <3>2. x[1] = s.dhr => x[2] < n1 /\ x[2] # s.receiving_msg_number
      BY <1>5, <1>10, <2>1, <3>1 DEF Reached
    <3>3. x[1] = s.dhr => x[2] < s.receiving_msg_number
      BY <1>2, <3>1, <3>2
    <3> QED BY <1>10, <2>1, <3>3 DEF Reached
  <2>2. u \/ ByAge(t.skipped_key_order)
    BY <1>1, <1>10 DEF Evictions
  <2>3. /\ Ids(t.skipped_keys) \subseteq Ids(s.skipped_keys)
        /\ Ids(s.skipped_keys) \subseteq Ids(t.skipped_keys) \cup {Place(m)}
    BY <1>10
  <2>4. \A x \in Places(M) : Reached(p, t, x[1], x[2]) /\ x # Place(m) => Reached(p, s, x[1], x[2])
    BY <2>1
  <2>5. Evictions(u, p, s, M, R) /\ BankInv(t)
    BY <1>1, <1>11
  <2> QED BY <2>2, <2>3, <2>4, <2>5, ReadEvictions, SMTT(60)
<1>15. SameChains(s, t)
  BY <1>3, <1>9, <1>10 DEF SameChains, ck
<1> QED BY <1>6, <1>8, <1>11, <1>13, <1>14, <1>15 DEF Delivered, t

\* A banked key opens the message at its place.
LEMMA BankDelivers ==
    ASSUME NEW p \in Party, NEW u \in BOOLEAN, NEW s, NEW M, Script(Peer(p), M),
           NEW R, IsFiniteSet(R), Delivered(u, p, s, M, R), NEW m \in M,
           HasSkippedKey(s, m.header), try_skipped_message_key(s, m).err = "none"
    PROVE  /\ Delivered(u, p, try_skipped_message_key(s, m).s, M, R \cup {m})
           /\ SameChains(s, try_skipped_message_key(s, m).s)
<1> DEFINE id == Place(m)
           K == s.skipped_keys
           o == s.skipped_key_order
           L == {e \in K : e.id # id}
           r == retain(o, Range(o) \ {id})
           t == try_skipped_message_key(s, m).s
<1>1. /\ Safe(p, s) /\ BankInv(s) /\ (u \/ Complete(s)) /\ Known(p, s, R)
      /\ Receiving(p, s, M) /\ Evictions(u, p, s, M, R)
      /\ s.retired_peer_dh_keys \in Seq(PubKeys)
  BY DEF Delivered
<1>2. Typed(s) /\ o \in Seq(SkippedIds)
  BY <1>1 DEF Safe, BankInv, BankOf
<1>3. t = [s EXCEPT !.skipped_keys = L, !.skipped_key_order = r]
  BY DEF try_skipped_message_key, Ok, Err, Place
<1>4. Safe(p, t)
  BY <1>1, SkippedIsSafe, OpenedSafe
<1>5. ListsKept(p, s, m, t)
  BY <1>2, SkippedKnown
<1>6. Known(p, t, R \cup {m}) /\ t.retired_peer_dh_keys \in Seq(PubKeys)
  BY <1>1, <1>5 DEF ListsKept
<1>7. BankInv(t) /\ (u \/ Complete(t))
  BY <1>1, <1>2, SkippedKeepsBank DEF BankKept
<1>8. u \/ ByAge(r)
  <2>1. u \/ ByAge(o)
    BY <1>1 DEF Evictions
  <2> QED BY <1>2, <2>1, ByAgeRetain
<1>9. L \subseteq K /\ Ids(L) = Ids(K) \ {id}
  BY DEF Ids
<1> HIDE DEF t, L, r, id
<1>10. /\ t.skipped_keys = L /\ t.skipped_key_order = r
       /\ t.retired_peer_dh_keys = s.retired_peer_dh_keys
       /\ t.dhr = s.dhr /\ t.dhs = s.dhs /\ t.root_key = s.root_key
       /\ t.sending_chain_key = s.sending_chain_key
       /\ t.sending_msg_number = s.sending_msg_number
       /\ t.previous_sending_chain_length = s.previous_sending_chain_length
       /\ t.receiving_msg_number = s.receiving_msg_number
       /\ t.receiving_chain_key = s.receiving_chain_key
  BY <1>2, <1>3 DEF Typed
<1>11. Receiving(p, t, M)
  <2>1. \A d : NextChain(p, t, d) <=> NextChain(p, s, d)
    BY <1>10 DEF NextChain
  <2> QED BY <1>1, <1>9, <1>10, <2>1 DEF Receiving
<1>12. Evictions(u, p, t, M, R \cup {m})
  <2>1. \A x : Reached(p, t, x[1], x[2]) => Reached(p, s, x[1], x[2])
    BY <1>10 DEF Reached
  <2>2. Ids(t.skipped_keys) = Ids(s.skipped_keys) \ {Place(m)}
    BY <1>9, <1>10 DEF id
  <2> QED BY <1>1, <1>7, <1>8, <1>10, <2>1, <2>2, ReadEvictions
<1>13. SameChains(s, t)
  BY <1>10 DEF SameChains
<1> QED BY <1>4, <1>6, <1>7, <1>11, <1>12, <1>13 DEF Delivered, t

\* What opening a message of the chain of dh does to p's chains.
Moved(p, s, dh, t) == SameChains(s, t) \/ (NextChain(p, s, dh) /\ Stepped(s, dh, t))

\* A message that p has yet to come to.
AheadOf(p, s, m) ==
    \/ m.header.dh = s.dhr /\ m.header.n >= s.receiving_msg_number
    \/ NextChain(p, s, m.header.dh)

\* The end of the chain before, as a message of the next chain tells it.
LEMMA ChainEnds ==
    ASSUME NEW p \in Party, NEW s, Typed(s), Numbered(p, s), NEW M, Script(Peer(p), M),
           NEW m \in M, NextChain(p, s, m.header.dh), s.dhr # None
    PROVE  \A n \in Nat : <<s.dhr, n>> \in Places(M) <=> n < m.header.pn
<1> DEFINE dh == m.header.dh
<1>1. s.dhr \in PubKeys /\ s.dhr[1] = Peer(p) /\ s.dhr[2] \in Nat /\ dh[2] = s.dhr[2] + 1
  BY DEF Numbered, NextChain, Typed, PubKeys
<1>2. dh[2] - 1 = s.dhr[2]
  BY <1>1
<1>3. s.dhr = <<Peer(p), dh[2] - 1>>
  BY <1>1, <1>2 DEF PubKeys
<1>4. \A n \in Nat : <<<<Peer(p), dh[2] - 1>>, n>> \in Places(M) <=> n < m.header.pn
  BY DEF Script, History
<1> QED BY <1>3, <1>4

\* Steps 2 and 3 of ratchet_decrypt_inner bring p to the message's place.
LEMMA ForwardDelivers ==
    ASSUME NEW p \in Party, NEW u \in BOOLEAN, NEW s, NEW M, Script(Peer(p), M),
           NEW R, IsFiniteSet(R), Delivered(u, p, s, M, R), NEW m \in M,
           AheadOf(p, s, m), Forward(s, m.header).err = "none"
    PROVE  LET t == Forward(s, m.header).s
           IN  /\ Delivered(u, p, t, M, R)
               /\ t.dhr = m.header.dh /\ t.receiving_msg_number = m.header.n
               /\ Moved(p, s, m.header.dh, t)
<1> DEFINE dh == m.header.dh
           n == m.header.n
           pn == m.header.pn
           at == Forward(s, m.header)
<1>1. /\ Safe(p, s) /\ Known(p, s, R) /\ Receiving(p, s, M)
  BY DEF Delivered
<1>2. Typed(s) /\ Numbered(p, s)
  BY <1>1 DEF Safe, Known
<1>3. /\ dh \in PubKeys /\ dh # None /\ n \in Nat /\ pn \in Nat /\ dh[2] \in Nat
  <2>1. WellSealed(Peer(p), M, m)
    BY ScriptPlace
  <2> QED BY <2>1 DEF WellSealed
<1>4. \A k \in Nat : k < n => <<dh, k>> \in Places(M)
  BY DEF Script, History
<1>5. CASE s.dhr = dh
  <2>1. at = skip_message_keys(s, n) /\ s.receiving_chain_key # None
    BY <1>1, <1>5 DEF Forward, Receiving
  <2>2. n >= s.receiving_msg_number
    <3>1. ~NextChain(p, s, dh)
      BY <1>3, <1>5 DEF NextChain
    <3> QED BY <3>1 DEF AheadOf
  <2>3. Forwarded(s, at.s) /\ at.s.receiving_msg_number = n
    BY <1>2, <1>3, <1>5, <2>1, <2>2, SkipForwards
  <2>4. Delivered(u, p, at.s, M, R)
    BY <1>3, <1>4, <1>5, <2>1, SkipDelivers
  <2>5. SameChains(s, at.s)
    BY <1>2, <1>3, <2>1, SkipSameChains
  <2> HIDE DEF at
  <2>6. at.s.dhr = dh
    BY <1>5, <2>3 DEF Forwarded
  <2> QED BY <2>3, <2>4, <2>5, <2>6 DEF Moved, at
<1>6. CASE s.dhr # dh
  <2>0. NextChain(p, s, dh)
    BY <1>6 DEF AheadOf
  <2> DEFINE a == skip_message_keys(s, pn)
             b == dh_ratchet_step(a.s, dh)
             c == skip_message_keys(b, n)
  <2>1. a.err = "none" /\ at = c
    BY <1>6 DEF Forward
  <2>2. s.receiving_chain_key # None => s.dhr # None
    BY <1>2 DEF Numbered
  <2>3. s.dhr # None => \A k \in Nat : <<s.dhr, k>> \in Places(M) <=> k < pn
    BY <1>2, <2>0, ChainEnds
  <2>4. Delivered(u, p, a.s, M, R)
    BY <1>3, <2>1, <2>2, <2>3, SkipDelivers
  <2>5. /\ Forwarded(s, a.s) /\ SameChains(s, a.s)
        /\ s.receiving_chain_key # None /\ s.dhr # None /\ pn >= s.receiving_msg_number
              => a.s.receiving_msg_number = pn
    BY <1>2, <1>3, <2>1, SkipForwards, SkipSameChains
  <2> HIDE DEF a
  <2>6. a.s.dhr = s.dhr /\ a.s.root_key = s.root_key /\ a.s.dhs = s.dhs
        /\ a.s.sending_msg_number = s.sending_msg_number
    BY <2>5 DEF SameChains
  <2>7. NextChain(p, a.s, dh)
    BY <2>0, <2>6 DEF NextChain
  <2>8. ASSUME NEW x \in M, x.header.dh = a.s.dhr PROVE x.header.n < a.s.receiving_msg_number
    <3>1. WellSealed(Peer(p), M, x)
      BY ScriptPlace
    <3>2. s.receiving_chain_key # None /\ s.dhr # None
      BY <1>1, <2>2, <2>6, <2>8 DEF Receiving
    <3>3. <<s.dhr, x.header.n>> \in Places(M) /\ x.header.n \in Nat
      BY <2>6, <2>8, <3>1 DEF WellSealed
    <3>4. x.header.n < pn
      BY <2>3, <3>2, <3>3
    <3>5. s.receiving_msg_number \in Nat /\ a.s.receiving_msg_number \in Nat
          /\ a.s.receiving_msg_number >= s.receiving_msg_number
      BY <2>5 DEF Forwarded
    <3> QED BY <1>3, <2>5, <3>2, <3>3, <3>4, <3>5
  <2>9. Delivered(u, p, b, M, R)
    BY <2>4, <2>7, <2>8, StepDelivers
  <2>10. Typed(a.s)
    BY <2>4 DEF Delivered, Safe
  <2>11. Stepped(a.s, dh, b) /\ b.receiving_msg_number = 0
    BY <1>3, <2>10, StepSteps, StepIs
  <2> HIDE DEF b
  <2>12. Stepped(s, dh, b)
    BY <2>6, <2>11 DEF Stepped
  <2>13. b.dhr = dh /\ b.receiving_chain_key # None
    BY <2>11 DEF Stepped
  <2>14. Typed(b)
    BY <2>9 DEF Delivered, Safe
  <2>15. Delivered(u, p, c.s, M, R)
    BY <1>3, <1>4, <2>1, <2>9, <2>13, SkipDelivers
  <2>16. SameChains(b, c.s) /\ c.s.receiving_msg_number = n
    BY <1>3, <2>1, <2>11, <2>13, <2>14, SkipSameChains, SkipForwards
  <2> HIDE DEF c
  <2>17. Stepped(s, dh, c.s)
    BY <2>12, <2>13, <2>16 DEF Stepped, SameChains
  <2>18. c.s.dhr = dh
    BY <2>17 DEF Stepped
  <2>19. Moved(p, s, dh, c.s)
    BY <2>0, <2>17 DEF Moved
  <2> QED BY <2>1, <2>15, <2>16, <2>18, <2>19
<1> QED BY <1>5, <1>6

\* A message that opens without a banked key was ahead.
LEMMA OpensAhead ==
    ASSUME NEW p \in Party, NEW s, Safe(p, s), Numbered(p, s),
           NEW m \in Messages, NumberedMessage(Peer(p), m),
           ratchet_decrypt(s, m).err = "none", ~HasSkippedKey(s, m.header)
    PROVE  /\ AheadOf(p, s, m)
           /\ Forward(s, m.header).err = "none"
           /\ OpenNext(Forward(s, m.header).s, m).err = "none"
           /\ ratchet_decrypt(s, m).s = OpenNext(Forward(s, m.header).s, m).s
<1> DEFINE r == ratchet_decrypt_inner(s, m)
           dh == m.header.dh
           n == m.header.n
           pn == m.header.pn
           at == Forward(s, m.header)
<1>1. r.err = "none" /\ ratchet_decrypt(s, m) = r
  BY DEF ratchet_decrypt, Err
<1>2. dh # None /\ dh \in PubKeys /\ n \in Nat /\ pn \in Nat /\ Typed(s) /\ m.header \in Headers
  BY <1>1 DEF ratchet_decrypt_inner, Err, Messages, Headers, Safe
<1>3. at.err = "none" /\ r = OpenNext(at.s, m) /\ ~IsReplay(s, m.header)
  BY <1>1, <1>2 DEF ratchet_decrypt_inner, Err
<1>4. CASE s.dhr = dh
  <2>1. n >= s.receiving_msg_number
    BY <1>2, <1>3, <1>4 DEF IsReplay, Typed
  <2> QED BY <1>1, <1>3, <1>4, <2>1 DEF AheadOf
<1>5. CASE s.dhr # dh
  <2> DEFINE a == skip_message_keys(s, pn)
             b == dh_ratchet_step(a.s, dh)
             c == skip_message_keys(b, n)
  <2>1. a.err = "none" /\ at = c
    BY <1>3, <1>5 DEF Forward
  <2>2. Safe(p, a.s) /\ a.s.root_key = s.root_key
    BY <1>2, <2>1, SkipIsSafe
  <2> HIDE DEF a
  <2>3. Safe(p, b) /\ Typed(a.s)
    <3>1. Typed(a.s)
      BY <2>2 DEF Safe
    <3> QED BY <1>2, <2>2, <3>1, StepIsSafe
  <2>4. Len(b.root_key) = Len(a.s.root_key) + 2
    BY <1>2, <2>3, StepIs
  <2> HIDE DEF b
  <2>5. Safe(p, c.s) /\ c.s.root_key = b.root_key
    BY <1>2, <1>3, <2>1, <2>3, SkipIsSafe
  <2> HIDE DEF at, c
  <2>6. Typed(at.s) /\ at.s.receiving_chain_key # None
        /\ m.sealed.key = at.s.receiving_chain_key
    <3>1. Typed(at.s)
      BY <2>1, <2>5 DEF Safe
    <3> QED BY <1>1, <1>3, <3>1 DEF OpenNext, Err, Ok, kdf_ck, aes_gcm_decrypt
  <2>7. Len(m.sealed.key.rk) + 1 = Len(s.root_key) + 2
    BY <2>1, <2>2, <2>4, <2>5, <2>6 DEF Safe
  <2>8. NextChain(p, s, dh)
    BY <1>2, <2>7, OpensNextChain
  <2> QED BY <1>1, <1>3, <2>8 DEF AheadOf, at
<1> QED BY <1>4, <1>5

\* Whatever p opens, it opens at its place.
LEMMA DecryptDelivers ==
    ASSUME NEW p \in Party, NEW u \in BOOLEAN, NEW s, NEW M, Script(Peer(p), M),
           NEW R, IsFiniteSet(R), Delivered(u, p, s, M, R), NEW m \in M,
           ratchet_decrypt(s, m).err = "none"
    PROVE  /\ Delivered(u, p, ratchet_decrypt(s, m).s, M, R \cup {m})
           /\ Moved(p, s, m.header.dh, ratchet_decrypt(s, m).s)
<1> DEFINE r == ratchet_decrypt_inner(s, m)
           dh == m.header.dh
<1>1. r.err = "none" /\ ratchet_decrypt(s, m) = r
  BY DEF ratchet_decrypt, Err
<1>2. dh # None
  BY <1>1 DEF ratchet_decrypt_inner, Err
<1>3. CASE HasSkippedKey(s, m.header)
  <2>1. r = try_skipped_message_key(s, m)
    BY <1>2, <1>3 DEF ratchet_decrypt_inner
  <2> QED BY <1>1, <1>3, <2>1, BankDelivers DEF Moved
<1>4. CASE ~HasSkippedKey(s, m.header)
  <2> DEFINE at == Forward(s, m.header)
  <2>1. Safe(p, s) /\ Numbered(p, s) /\ m \in Messages /\ NumberedMessage(Peer(p), m)
    BY DEF Delivered, Known, Script
  <2>2. AheadOf(p, s, m) /\ at.err = "none" /\ OpenNext(at.s, m).err = "none"
        /\ ratchet_decrypt(s, m).s = OpenNext(at.s, m).s
    BY <1>4, <2>1, OpensAhead
  <2>3. /\ Delivered(u, p, at.s, M, R) /\ Moved(p, s, dh, at.s)
        /\ at.s.dhr = dh /\ at.s.receiving_msg_number = m.header.n
    BY <2>2, ForwardDelivers
  <2> HIDE DEF at
  <2> DEFINE t == OpenNext(at.s, m).s
  <2>4. Delivered(u, p, t, M, R \cup {m}) /\ SameChains(at.s, t)
    BY <2>2, <2>3, OpenDelivers
  <2> HIDE DEF t
  <2>5. Moved(p, s, dh, t)
    <3>1. CASE SameChains(s, at.s)
      BY <2>4, <3>1 DEF Moved, SameChains
    <3>2. CASE NextChain(p, s, dh) /\ Stepped(s, dh, at.s)
      BY <2>4, <3>2 DEF Moved, SameChains, Stepped
    <3> QED BY <2>3, <3>1, <3>2 DEF Moved
  <2> QED BY <2>2, <2>4, <2>5 DEF t
<1> QED BY <1>3, <1>4

---------------------------------------------------------------------------
(* Which messages ratchet_decrypt still opens.                             *)

\* An error of skip_message_keys is the one about the gap.
LEMMA SkipErrs ==
    ASSUME NEW s, NEW until
    PROVE  skip_message_keys(s, until).err \in {"none", "TooManySkipped"}
BY DEF skip_message_keys, Ok, Err

\* A message that p has yet to come to opens, unless the gap in front of it is
\* too wide.
LEMMA AheadOpens ==
    ASSUME NEW p \in Party, NEW u \in BOOLEAN, NEW s, NEW M, Script(Peer(p), M),
           NEW R, IsFiniteSet(R), Delivered(u, p, s, M, R), NEW m \in M, AheadOf(p, s, m)
    PROVE  ratchet_decrypt(s, m).err \in {"none", "TooManySkipped"}
<1> DEFINE dh == m.header.dh
           n == m.header.n
           at == Forward(s, m.header)
<1>1. Typed(s) /\ Known(p, s, R) /\ Receiving(p, s, M) /\ s.retired_peer_dh_keys \in Seq(PubKeys)
  BY DEF Delivered, Safe
<1>2. WellSealed(Peer(p), M, m)
  BY ScriptPlace
<1>3. dh \in PubKeys /\ dh # None /\ n \in Nat /\ dh[2] \in Nat
  BY <1>2 DEF WellSealed
<1>4. s.dhr # None => s.dhr[2] \in Nat
  BY <1>1 DEF Typed, PubKeys
<1>5. s.receiving_msg_number \in Nat
  BY <1>1 DEF Typed
<1>6. ~Reached(p, s, dh, n)
  BY <1>3, <1>4, <1>5 DEF AheadOf, Reached, NextChain
<1>7. ~HasSkippedKey(s, m.header)
  <2> SUFFICES ASSUME NEW e \in s.skipped_keys, e.id = <<dh, n>> PROVE FALSE
    BY DEF HasSkippedKey, Ids, skipped_key_id
  <2>1. Reached(p, s, e.id[1], e.id[2])
    BY <1>1 DEF Known
  <2> QED BY <1>6, <2>1
<1>8. ~IsReplay(s, m.header)
  <2>1. ASSUME dh \in Range(s.retired_peer_dh_keys) PROVE FALSE
    <3>1. s.dhr # None /\ dh[2] < s.dhr[2]
      BY <1>1, <2>1 DEF Receiving
    <3> QED BY <1>3, <1>4, <3>1 DEF AheadOf, NextChain
  <2>2. ASSUME s.dhr = dh, n < s.receiving_msg_number PROVE FALSE
    <3>1. ~NextChain(p, s, dh)
      BY <1>3, <2>2 DEF NextChain
    <3> QED BY <1>3, <1>5, <2>2, <3>1 DEF AheadOf
  <2> QED BY <2>1, <2>2 DEF IsReplay
<1>9. ratchet_decrypt_inner(s, m) = IF at.err # "none" THEN at ELSE OpenNext(at.s, m)
  BY <1>3, <1>7, <1>8, Zenon DEF ratchet_decrypt_inner
<1>10. at.err \in {"none", "TooManySkipped"}
  <2>1. \/ at = skip_message_keys(s, m.header.pn)
        \/ at = skip_message_keys(s, n)
        \/ at = skip_message_keys(dh_ratchet_step(skip_message_keys(s, m.header.pn).s, dh), n)
    BY Zenon DEF Forward
  <2> HIDE DEF at
  <2> QED BY <2>1, SkipErrs
<1>11. CASE at.err = "none"
  <2>1. /\ Delivered(u, p, at.s, M, R)
        /\ at.s.dhr = dh /\ at.s.receiving_msg_number = n
    BY <1>11, ForwardDelivers
  <2> HIDE DEF at
  <2> DEFINE ck == at.s.receiving_chain_key
  <2>2. ck # None /\ m.sealed.key.rk = ck.rk /\ ck.i = n /\ ck \in ChainKeys
    BY <2>1 DEF Delivered, Receiving, Safe, Typed
  <2>3. m.sealed.key = ck
    <3>1. m.sealed.key \in ChainKeys /\ m.sealed.key.i = n
      BY <1>2 DEF WellSealed, MsgKeys
    <3> HIDE DEF ck, n
    <3> QED BY <2>2, <3>1 DEF ChainKeys
  <2>4. m.sealed = [key |-> ck, ad |-> m.header]
    BY <1>2, <2>3 DEF WellSealed
  <2>5. OpenNext(at.s, m).err = "none"
    BY <2>2, <2>4 DEF OpenNext, kdf_ck, aes_gcm_decrypt, Ok
  <2> QED BY <1>9, <1>11, <2>5 DEF ratchet_decrypt, Err
<1>12. CASE at.err = "TooManySkipped"
  BY <1>9, <1>12 DEF ratchet_decrypt, Err
<1> QED BY <1>10, <1>11, <1>12

\* A message whose key is banked opens.
LEMMA BankedOpens ==
    ASSUME NEW p \in Party, NEW u \in BOOLEAN, NEW s, NEW M, Script(Peer(p), M),
           NEW R, Delivered(u, p, s, M, R), NEW m \in M, Place(m) \in Ids(s.skipped_keys)
    PROVE  ratchet_decrypt(s, m).err = "none"
<1>1. WellSealed(Peer(p), M, m)
  BY ScriptPlace
<1>2. m.header.dh # None /\ m.sealed = [key |-> m.sealed.key, ad |-> m.header]
  BY <1>1 DEF WellSealed
<1>3. HasSkippedKey(s, m.header)
  BY DEF HasSkippedKey, Place
<1> DEFINE e == CHOOSE f \in s.skipped_keys : f.id = Place(m)
<1>4. e \in s.skipped_keys /\ e.id = Place(m)
  <2>1. \E f \in s.skipped_keys : f.id = Place(m)
    BY DEF Ids
  <2> QED BY <2>1
<1>5. SkippedKey(s, m.header) = e.mk
  BY DEF SkippedKey, Place
<1> HIDE DEF e
<1>6. m.sealed.key = e.mk
  BY <1>4 DEF Delivered, Receiving
<1>7. aes_gcm_decrypt(SkippedKey(s, m.header), m)
  BY <1>2, <1>5, <1>6 DEF aes_gcm_decrypt
<1>8. try_skipped_message_key(s, m).err = "none"
  BY <1>7 DEF try_skipped_message_key, Ok
<1>9. ratchet_decrypt_inner(s, m) = try_skipped_message_key(s, m)
  BY <1>2, <1>3 DEF ratchet_decrypt_inner
<1> QED BY <1>8, <1>9 DEF ratchet_decrypt

\* So what is lost is a place p has come past whose key is no longer banked.
LEMMA LostIsPast ==
    ASSUME NEW p \in Party, NEW u \in BOOLEAN, NEW s, NEW M, Script(Peer(p), M),
           NEW R, IsFiniteSet(R), Delivered(u, p, s, M, R), NEW m \in M,
           ratchet_decrypt(s, m).err \notin {"none", "TooManySkipped"}
    PROVE  Place(m) \in Past(p, s, Places(M)) \ Ids(s.skipped_keys)
<1> DEFINE dh == m.header.dh
           n == m.header.n
<1>1. Place(m) \notin Ids(s.skipped_keys) /\ ~AheadOf(p, s, m)
  BY AheadOpens, BankedOpens
<1>2. WellSealed(Peer(p), M, m)
  BY ScriptPlace
<1>3. dh \in PubKeys /\ dh[1] = Peer(p) /\ n \in Nat /\ dh[2] \in Nat
      /\ Place(m) = <<dh, n>> /\ Place(m) \in Places(M)
  BY <1>2 DEF WellSealed
<1>4. s.dhr # None /\ dh[2] <= s.dhr[2]
  BY <1>1 DEF Delivered, Receiving, AheadOf
<1>5. s.receiving_msg_number \in Nat
  BY DEF Delivered, Safe, Typed
<1>6. dh[2] >= Base(p)
  <2>1. dh[2] >= 1
    BY DEF Script, History
  <2> QED BY <1>3, <2>1, BaseType
<1>7. dh = s.dhr => n < s.receiving_msg_number
  BY <1>1, <1>3, <1>5 DEF AheadOf
<1>8. Reached(p, s, dh, n)
  BY <1>3, <1>4, <1>6, <1>7 DEF Reached
<1> QED BY <1>1, <1>3, <1>8 DEF Past

---------------------------------------------------------------------------
(* Sealing a message.                                                      *)

LEMMA PeerOfPeer == \A p \in Party : Peer(p) \in Party /\ Peer(Peer(p)) = p /\ Peer(p) # p
BY DEF Peer, Party

LEMMA PlacesAdd ==
    ASSUME NEW M, NEW m
    PROVE  Places(M \cup {m}) = Places(M) \cup {Place(m)}
BY DEF Places

\* What ratchet_encrypt makes, and what it leaves.
LEMMA EncryptIs ==
    ASSUME NEW p \in Party, NEW s, Safe(p, s), s.sending_chain_key # None
    PROVE  LET m == EncryptedMessage(s)
               t == ratchet_encrypt(s)
           IN  /\ m.header.dh = s.dhs /\ m.header.n = s.sending_msg_number
               /\ m.header.pn = s.previous_sending_chain_length
               /\ m.sealed.key.rk = s.root_key
               /\ m.sealed.key.i = s.sending_chain_key.i
               /\ Place(m) = <<s.dhs, s.sending_msg_number>>
               /\ t.root_key = s.root_key /\ t.dhs = s.dhs /\ t.dhr = s.dhr
               /\ t.receiving_chain_key = s.receiving_chain_key
               /\ t.receiving_msg_number = s.receiving_msg_number
               /\ t.previous_sending_chain_length = s.previous_sending_chain_length
               /\ t.skipped_keys = s.skipped_keys /\ t.skipped_key_order = s.skipped_key_order
               /\ t.retired_peer_dh_keys = s.retired_peer_dh_keys
               /\ t.sending_msg_number = s.sending_msg_number + 1
               /\ t.sending_chain_key # None
               /\ t.sending_chain_key.i = s.sending_chain_key.i + 1
<1> DEFINE m == EncryptedMessage(s)
           t == ratchet_encrypt(s)
           ck == s.sending_chain_key
           next == [rk |-> ck.rk, i |-> ck.i + 1]
           n1 == s.sending_msg_number + 1
<1>1. Typed(s) /\ ck.rk = s.root_key /\ ck \in ChainKeys
  BY DEF Safe, Typed
<1>2. m = [header |-> [dh |-> s.dhs, pn |-> s.previous_sending_chain_length,
                       n |-> s.sending_msg_number],
           sealed |-> [key |-> ck, ad |-> [dh |-> s.dhs, pn |-> s.previous_sending_chain_length,
                                           n |-> s.sending_msg_number]]]
  BY DEF EncryptedMessage, aes_gcm_encrypt, kdf_ck
<1>3. m.header.dh = s.dhs /\ m.header.n = s.sending_msg_number
      /\ m.header.pn = s.previous_sending_chain_length /\ m.sealed.key = ck
  BY <1>2
<1>4. Place(m) = <<s.dhs, s.sending_msg_number>>
  BY <1>3 DEF Place, skipped_key_id
<1>5. next \in ChainKeys /\ next # None /\ next.i = ck.i + 1
  <2>1. next \in ChainKeys
    BY <1>1 DEF ChainKeys
  <2> QED BY <2>1, NoneAssumption
<1>6. t = [s EXCEPT !.sending_chain_key = next, !.sending_msg_number = n1]
  BY <1>1 DEF ratchet_encrypt, kdf_ck, Typed
<1> HIDE DEF t, next, ck, m, n1
<1>7. /\ t.root_key = s.root_key /\ t.dhs = s.dhs /\ t.dhr = s.dhr
      /\ t.receiving_chain_key = s.receiving_chain_key
      /\ t.receiving_msg_number = s.receiving_msg_number
      /\ t.previous_sending_chain_length = s.previous_sending_chain_length
      /\ t.skipped_keys = s.skipped_keys /\ t.skipped_key_order = s.skipped_key_order
      /\ t.retired_peer_dh_keys = s.retired_peer_dh_keys
      /\ t.sending_msg_number = n1
      /\ t.sending_chain_key = next
  BY <1>1, <1>6 DEF Typed
<1> QED BY <1>1, <1>3, <1>4, <1>5, <1>7 DEF m, t, ck, n1

\* The new message is the next of its chain, the youngest of all.
LEMMA EncryptYoungest ==
    ASSUME NEW p \in Party, NEW s, Safe(p, s), s.sending_chain_key # None, Numbered(p, s),
           NEW M, Script(p, M), Sending(p, s, M)
    PROVE  /\ \A x \in M : Older(Place(x), Place(EncryptedMessage(s)))
           /\ Place(EncryptedMessage(s)) \notin Places(M)
<1> DEFINE m == EncryptedMessage(s)
           n == s.sending_msg_number
           d == s.dhs
<1>1. Place(m) = <<d, n>>
  BY EncryptIs
<1>2. n \in Nat /\ d \in PubKeys /\ d[1] = p /\ d[2] \in Nat
  BY DEF Safe, Typed, Numbered, PubKeys
<1> HIDE DEF m, n, d
<1>3. <<d, n>> \notin Places(M)
  BY <1>2 DEF Sending, d, n
<1>4. ASSUME NEW x \in M PROVE Older(Place(x), <<d, n>>)
  <2> DEFINE e == x.header.dh
             k == x.header.n
  <2>1. WellSealed(p, M, x)
    BY ScriptPlace
  <2>2. e \in PubKeys /\ e[1] = p /\ e[2] \in Nat /\ k \in Nat
        /\ Place(x) = <<e, k>> /\ <<e, k>> \in Places(M)
    BY <2>1 DEF WellSealed
  <2>3. e[2] <= d[2]
    BY DEF Sending, d
  <2> HIDE DEF e, k
  <2>4. CASE e = d
    <3>1. k < n
      BY <2>2, <2>4 DEF Sending, d, n
    <3> QED BY <2>2, <2>4, <3>1 DEF Older
  <2>5. CASE e # d
    <3>1. e[2] # d[2]
      BY <1>2, <2>2, <2>5, PairEq
    <3>2. e[2] < d[2]
      BY <1>2, <2>2, <2>3, <3>1
    <3> QED BY <2>2, <3>2 DEF Older
  <2> QED BY <2>4, <2>5
<1> QED BY <1>1, <1>3, <1>4 DEF m

LEMMA EncryptScript ==
    ASSUME NEW p \in Party, NEW s, Safe(p, s), s.sending_chain_key # None, Numbered(p, s),
           NEW M, Script(p, M), Sending(p, s, M)
    PROVE  /\ History(p, M \cup {EncryptedMessage(s)})
           /\ Sending(p, ratchet_encrypt(s), M \cup {EncryptedMessage(s)})
<1> DEFINE m == EncryptedMessage(s)
           t == ratchet_encrypt(s)
           n == s.sending_msg_number
           d == s.dhs
           M2 == M \cup {m}
<1>1. /\ m.header.dh = d /\ m.header.n = n
      /\ m.header.pn = s.previous_sending_chain_length
      /\ m.sealed.key.i = s.sending_chain_key.i
      /\ Place(m) = <<d, n>>
      /\ t.dhs = d
      /\ t.previous_sending_chain_length = s.previous_sending_chain_length
      /\ t.sending_msg_number = n + 1
      /\ t.sending_chain_key # None
      /\ t.sending_chain_key.i = s.sending_chain_key.i + 1
  BY EncryptIs
<1>2. Places(M2) = Places(M) \cup {<<d, n>>} /\ <<d, n>> \notin Places(M)
  BY <1>1, PlacesAdd, EncryptYoungest
<1>3. n \in Nat /\ d \in PubKeys /\ d[1] = p /\ d[2] \in Nat /\ s.sending_chain_key.i = n
  BY DEF Safe, Typed, Numbered, PubKeys, Sending
<1>4. d[2] >= 1
  <2>1. /\ Len(s.root_key) = 2 * d[2] - Parity(p) /\ s.root_key # <<>>
        /\ s.root_key \in Seq(SUBSET PubKeys)
    BY DEF Safe, Typed, RootKeys, Numbered
  <2>2. Len(s.root_key) \in Nat /\ Len(s.root_key) # 0
    BY <2>1
  <2>3. Parity(p) \in {0, 1}
    BY BaseType
  <2> DEFINE l == Len(s.root_key)
             k == d[2]
  <2> HIDE DEF l, k
  <2>4. k \in Nat /\ l \in Nat /\ l # 0 /\ l = 2 * k - Parity(p)
    BY <1>3, <2>1, <2>2 DEF l, k
  <2>5. k >= 1
    BY <2>3, <2>4
  <2> QED BY <2>5 DEF k
<1> HIDE DEF m, t, n, d, M2
<1>5. ASSUME NEW x \in M
      PROVE  x.header.dh[2] \in Nat /\ x.header.dh[2] <= d[2]
  <2>1. WellSealed(p, M, x)
    BY ScriptPlace
  <2> QED BY <2>1 DEF WellSealed, Sending, d
<1>6. \A k \in Nat : <<d, k>> \in Places(M) <=> k < n
  BY DEF Sending, d, n
<1>7. \A k \in Nat : <<<<p, d[2] - 1>>, k>> \in Places(M) <=> k < s.previous_sending_chain_length
  BY DEF Sending, d
<1>8. \A i, k : i < d[2] => <<<<p, i>>, k>> # <<d, n>>
  <2> SUFFICES ASSUME NEW i, NEW k, i < d[2], <<<<p, i>>, k>> = <<d, n>> PROVE FALSE
    OBVIOUS
  <2>1. <<p, i>> = d
    OBVIOUS
  <2>2. d[2] = i
    BY <2>1
  <2> QED BY <1>3, <2>2
<1>9. ASSUME NEW x \in M2
      PROVE  /\ x.sealed.key.i = x.header.n
             /\ x.header.dh[2] >= 1
             /\ \A k \in Nat : k < x.header.n => <<x.header.dh, k>> \in Places(M2)
             /\ \A k \in Nat : <<<<p, x.header.dh[2] - 1>>, k>> \in Places(M2) <=> k < x.header.pn
  <2>1. CASE x \in M
    <3>1. /\ x.sealed.key.i = x.header.n
          /\ x.header.dh[2] >= 1
          /\ \A k \in Nat : k < x.header.n => <<x.header.dh, k>> \in Places(M)
          /\ \A k \in Nat : <<<<p, x.header.dh[2] - 1>>, k>> \in Places(M) <=> k < x.header.pn
      BY <2>1 DEF Script, History
    <3>2. x.header.dh[2] - 1 < d[2]
      BY <1>3, <1>5, <2>1
    <3> DEFINE i == x.header.dh[2] - 1
    <3> HIDE DEF i
    <3>3. \A k \in Nat : <<<<p, i>>, k>> \in Places(M2) <=> <<<<p, i>>, k>> \in Places(M)
      BY <1>2, <1>8, <3>2 DEF i
    <3> QED BY <1>2, <3>1, <3>3 DEF i
  <2>2. CASE x = m
    <3>1. d[2] - 1 < d[2]
      BY <1>3
    <3> DEFINE i == d[2] - 1
    <3> HIDE DEF i
    <3>2. \A k \in Nat : <<<<p, i>>, k>> \in Places(M2) <=> <<<<p, i>>, k>> \in Places(M)
      BY <1>2, <1>8, <3>1 DEF i
    <3>3. \A k \in Nat : <<<<p, d[2] - 1>>, k>> \in Places(M2) <=> k < s.previous_sending_chain_length
      BY <1>7, <3>2 DEF i
    <3>4. \A k \in Nat : k < n => <<d, k>> \in Places(M2)
      BY <1>2, <1>6
    <3> QED BY <1>1, <1>3, <1>4, <2>2, <3>3, <3>4
  <2> QED BY <2>1, <2>2 DEF M2
<1>10. History(p, M2)
  BY <1>9 DEF History
<1>11. Sending(p, t, M2)
  <2>1. \A x \in M2 : x.header.dh[2] <= d[2]
    BY <1>1, <1>3, <1>5 DEF M2
  <2>2. \A k \in Nat : <<d, k>> \in Places(M2) <=> k < n + 1
    <3>1. ASSUME NEW k \in Nat PROVE <<d, k>> \in Places(M2) <=> k < n + 1
      <4>1. <<d, k>> = <<d, n>> <=> k = n
        OBVIOUS
      <4>2. k < n + 1 <=> (k < n \/ k = n)
        BY <1>3
      <4> QED BY <1>2, <1>6, <4>1, <4>2
    <3> QED BY <3>1
  <2>3. \A k \in Nat : <<<<p, d[2] - 1>>, k>> \in Places(M2) <=> k < s.previous_sending_chain_length
    <3>1. d[2] - 1 < d[2]
      BY <1>3
    <3> DEFINE i == d[2] - 1
    <3> HIDE DEF i
    <3>2. \A k \in Nat : <<<<p, i>>, k>> \in Places(M2) <=> <<<<p, i>>, k>> \in Places(M)
      BY <1>2, <1>8, <3>1 DEF i
    <3> QED BY <1>7, <3>2 DEF i
  <2> QED BY <1>1, <1>3, <2>1, <2>2, <2>3 DEF Sending
<1> QED BY <1>10, <1>11 DEF m, t, M2

\* The receiver can derive the key of the new message, and has not come to it.
LEMMA EncryptReceives ==
    ASSUME NEW p \in Party, NEW b, Safe(p, b), b.sending_chain_key # None, Numbered(p, b),
           NEW M, Script(p, M), Sending(p, b, M),
           NEW s, Typed(s), Numbered(Peer(p), s), Receiving(Peer(p), s, M),
           Leads(p, b, s) \/ Leads(Peer(p), s, b)
    PROVE  /\ Receiving(Peer(p), s, M \cup {EncryptedMessage(b)})
           /\ ~Reached(Peer(p), s, b.dhs, b.sending_msg_number)
<1> DEFINE m == EncryptedMessage(b)
           M2 == M \cup {m}
           q == Peer(p)
           d == b.dhs
           n == b.sending_msg_number
<1>0. q \in Party /\ Peer(q) = p
  BY PeerOfPeer
<1>1. m.header.dh = d /\ m.header.n = n /\ m.sealed.key.rk = b.root_key /\ Place(m) = <<d, n>>
  BY EncryptIs
<1>2. Places(M2) = Places(M) \cup {<<d, n>>} /\ <<d, n>> \notin Places(M)
  BY <1>1, PlacesAdd, EncryptYoungest
<1>3. n \in Nat /\ d \in PubKeys /\ d[2] \in Nat /\ d # None
  BY NoneAssumption DEF Safe, Typed, PubKeys
<1>4. s.dhr # None => s.dhr[2] \in Nat
  BY DEF Typed, PubKeys
<1>5. s.receiving_msg_number \in Nat
  BY DEF Typed
<1> HIDE DEF m, M2, d, n
<1>6. /\ d = s.dhr => s.receiving_chain_key # None /\ b.root_key = s.receiving_chain_key.rk
      /\ NextChain(q, s, d) => b.root_key = Append(s.root_key, {s.dhs, d})
      /\ NextChain(q, s, d) \/ (s.dhr # None /\ d[2] <= s.dhr[2])
      /\ NextChain(q, s, d) \/ d = s.dhr
  <2>1. CASE Leads(p, b, s)
    <3>1. NextChain(q, s, d) /\ b.root_key = Append(s.root_key, {s.dhs, d})
      BY <2>1 DEF Leads, d
    <3>2. d # s.dhr
      BY <1>3, <1>4, <3>1 DEF NextChain
    <3> QED BY <3>1, <3>2
  <2>2. CASE Leads(q, s, b)
    <3>1. s.dhr = d /\ s.receiving_chain_key # None /\ s.receiving_chain_key.rk = b.root_key
      BY <2>2 DEF Leads, d
    <3>2. ~NextChain(q, s, d)
      BY <1>3, <3>1 DEF NextChain
    <3> QED BY <1>3, <3>1, <3>2
  <2> QED BY <2>1, <2>2 DEF q
<1>7. Receiving(q, s, M2)
  <2>0. Receiving(q, s, M) /\ \A x \in M2 : x \in M \/ x = m
    BY DEF q, M2
  <2>1. \A k \in Nat : k < s.receiving_msg_number => <<s.dhr, k>> \in Places(M2)
    BY <1>2, <2>0 DEF Receiving
  <2>2. \A x \in M2 : x.header.dh = s.dhr =>
           s.receiving_chain_key # None /\ x.sealed.key.rk = s.receiving_chain_key.rk
    BY <1>1, <1>6, <2>0 DEF Receiving
  <2>3. \A x \in M2 : NextChain(q, s, x.header.dh) =>
           x.sealed.key.rk = Append(s.root_key, {s.dhs, x.header.dh})
    BY <1>1, <1>6, <2>0 DEF Receiving
  <2>4. \A x \in M2 : \/ NextChain(q, s, x.header.dh)
                      \/ s.dhr # None /\ x.header.dh[2] <= s.dhr[2]
    BY <1>1, <1>6, <2>0 DEF Receiving
  <2>5. \A e \in s.skipped_keys :
           e.id \in Places(M2) /\ \A x \in M2 : Place(x) = e.id => x.sealed.key = e.mk
    BY <1>1, <1>2, <2>0 DEF Receiving
  <2> QED BY <2>0, <2>1, <2>2, <2>3, <2>4, <2>5 DEF Receiving
<1>8. ~Reached(q, s, d, n)
  <2> SUFFICES ASSUME Reached(q, s, d, n) PROVE FALSE
    OBVIOUS
  <2>1. s.dhr # None /\ d[2] <= s.dhr[2]
    BY DEF Reached
  <2>2. d = s.dhr
    BY <1>3, <1>4, <1>6, <2>1 DEF NextChain
  <2>3. n < s.receiving_msg_number
    BY <2>2 DEF Reached
  <2>4. <<d, n>> \in Places(M)
    BY <1>3, <2>2, <2>3 DEF Receiving
  <2> QED BY <1>2, <2>4
<1> QED BY <1>7, <1>8 DEF q, M2, m, d, n

---------------------------------------------------------------------------
(* The session.                                                            *)

LEMMA RangeFinite ==
    ASSUME NEW S, NEW s \in Seq(S)
    PROVE  IsFiniteSet(Range(s))
<1>1. DOMAIN s = 1..Len(s) /\ Len(s) \in Nat
  OBVIOUS
<1>2. s \in [1..Len(s) -> Range(s)]
  BY <1>1 DEF Range
<1>3. \A x \in Range(s) : \E i \in 1..Len(s) : s[i] = x
  BY <1>1 DEF Range
<1>4. s \in Surjection(1..Len(s), Range(s))
  BY <1>2, <1>3 DEF Surjection
<1>5. IsFiniteSet(1..Len(s))
  BY <1>1, CountTo
<1> QED BY <1>4, <1>5, FS_Surjection

LEMMA ScriptInv ==
    ASSUME Inv, BankedInv, DeliveryInv, NEW q \in Party
    PROVE  Script(q, Range(sent[q]))
<1>1. sent[q] \in Seq(Messages)
  BY DEF Inv, SessionType
<1>2. \A m \in Range(sent[q]) : m \in Messages
  BY <1>1, RangeIn
<1>3. \A m \in Range(sent[q]) : SealedBy(q, m) /\ NumberedMessage(q, m)
  BY DEF Inv, BankedInv
<1>4. History(q, Range(sent[q]))
  BY DEF DeliveryInv
<1> QED BY <1>2, <1>3, <1>4 DEF Script

LEMMA DeliveredInv ==
    ASSUME Inv, BankedInv, DeliveryInv, NEW p \in Party, ~Zeroed(st[p])
    PROVE  /\ Delivered(p \in upgraded, p, st[p], Range(sent[Peer(p)]), Range(read[p]))
           /\ Sending(p, st[p], Range(sent[p]))
           /\ Safe(p, st[p]) /\ Typed(st[p]) /\ Numbered(p, st[p])
<1>1. Safe(p, st[p])
  BY DEF Inv
<1>2. Delivery(p)
  BY DEF DeliveryInv
<1>3. ListsInv(p)
  BY DEF BankedInv
<1>4. /\ st[p].retired_peer_dh_keys \in Seq(PubKeys) /\ BankInv(st[p])
      /\ p \in upgraded \/ Complete(st[p])
      /\ Known(p, st[p], Range(read[p]))
  BY <1>3 DEF ListsInv
<1>5. Typed(st[p]) /\ Numbered(p, st[p])
  BY <1>1, <1>4 DEF Safe, Known
<1>6. /\ Sending(p, st[p], Range(sent[p]))
      /\ Receiving(p, st[p], Range(sent[Peer(p)]))
      /\ Evictions(p \in upgraded, p, st[p], Range(sent[Peer(p)]), Range(read[p]))
  BY <1>2 DEF Delivery
<1> QED BY <1>1, <1>4, <1>5, <1>6 DEF Delivered

\* One of the two parties made the last step.
Paired(p, s, b) == Leads(p, s, b) \/ Leads(Peer(p), b, s)

LEMMA EitherLeads ==
    ASSUME NEW p \in Party, NEW f
    PROVE  (\E r \in Party : Leads(r, f[r], f[Peer(r)])) <=> Paired(p, f[p], f[Peer(p)])
<1>1. Peer(p) \in Party /\ Peer(Peer(p)) = p /\ \A r \in Party : r = p \/ r = Peer(p)
  BY DEF Peer, Party
<1> QED BY <1>1 DEF Paired

LEMMA SameLeads ==
    ASSUME NEW p, NEW s, NEW t, NEW b,
           t.root_key = s.root_key, t.dhs = s.dhs, t.dhr = s.dhr,
           t.sending_chain_key = None <=> s.sending_chain_key = None,
           t.receiving_chain_key = None <=> s.receiving_chain_key = None,
           s.receiving_chain_key # None => t.receiving_chain_key.rk = s.receiving_chain_key.rk,
           Paired(p, s, b)
    PROVE  Paired(p, t, b)
<1>1. \A dh : NextChain(Peer(Peer(p)), s, dh) => NextChain(Peer(Peer(p)), t, dh)
  BY DEF NextChain
<1>2. CASE Leads(p, s, b)
  BY <1>2 DEF Leads, Paired
<1>3. CASE Leads(Peer(p), b, s)
  BY <1>1, <1>3 DEF Leads, Paired
<1> QED BY <1>2, <1>3 DEF Paired

\* Opening a message leaves the sending side, or starts a new chain on it.
LEMMA MovedSending ==
    ASSUME NEW p \in Party, NEW s, Typed(s), Numbered(p, s), NEW M, Script(p, M),
           Sending(p, s, M), NEW dh, NEW t, Moved(p, s, dh, t)
    PROVE  Sending(p, t, M)
<1>1. CASE SameChains(s, t)
  BY <1>1 DEF SameChains, Sending
<1>2. CASE Stepped(s, dh, t)
  <2> DEFINE k == s.dhs[2]
             d == t.dhs
  <2>1. s.dhs \in PubKeys /\ s.dhs[1] = p /\ k \in Nat /\ s.sending_msg_number \in Nat
    BY DEF Typed, Numbered, PubKeys
  <2>2. /\ d = <<p, k + 1>> /\ t.sending_chain_key.i = 0 /\ t.sending_msg_number = 0
        /\ t.previous_sending_chain_length = s.sending_msg_number
    BY <1>2, <2>1 DEF Stepped
  <2>3. s.dhs = <<p, k>>
    BY <2>1 DEF PubKeys
  <2>4. /\ \A m \in M : m.header.dh[2] <= k
        /\ \A n \in Nat : <<s.dhs, n>> \in Places(M) <=> n < s.sending_msg_number
    BY DEF Sending
  <2> HIDE DEF k, d
  <2>5. d[2] = k + 1 /\ d[2] - 1 = k
    BY <2>1, <2>2
  <2>6. ASSUME NEW m \in M PROVE m.header.dh[2] \in Nat /\ m.header.dh[2] < d[2]
    <3>1. WellSealed(p, M, m)
      BY ScriptPlace
    <3>2. m.header.dh[2] \in Nat
      BY <3>1 DEF WellSealed
    <3> QED BY <2>1, <2>4, <2>5, <3>2
  <2>7. ASSUME NEW n \in Nat, <<d, n>> \in Places(M) PROVE FALSE
    <3>1. PICK m \in M : <<d, n>> = Place(m)
      BY <2>7 DEF Places
    <3>2. WellSealed(p, M, m)
      BY ScriptPlace
    <3>3. m.header.dh = d
      BY <3>1, <3>2 DEF WellSealed
    <3> QED BY <2>1, <2>5, <2>6, <3>3
  <2>8. \A m \in M : m.header.dh[2] <= d[2]
    BY <2>1, <2>5, <2>6
  <2>9. \A n \in Nat : <<d, n>> \in Places(M) <=> n < 0
    BY <2>7
  <2>10. \A n \in Nat : <<<<p, d[2] - 1>>, n>> \in Places(M) <=> n < s.sending_msg_number
    BY <2>3, <2>4, <2>5
  <2> QED BY <2>2, <2>8, <2>9, <2>10 DEF Sending, d
<1> QED BY <1>1, <1>2 DEF Moved

\* Who steps takes the lead from the other.
LEMMA MovedLeads ==
    ASSUME NEW p \in Party, NEW s, Typed(s), Numbered(p, s), NEW b, Typed(b),
           Paired(p, s, b), NEW M, Script(Peer(p), M), Sending(Peer(p), b, M),
           NEW m \in M, NEW t, Moved(p, s, m.header.dh, t)
    PROVE  Paired(p, t, b)
<1> DEFINE dh == m.header.dh
           q == Peer(p)
<1>0. q \in Party /\ Peer(q) = p
  BY PeerOfPeer
<1>1. CASE SameChains(s, t)
  BY <1>1, SameLeads DEF SameChains
<1>2. CASE NextChain(p, s, dh) /\ Stepped(s, dh, t)
  <2>1. s.dhs \in PubKeys /\ s.dhs[1] = p /\ s.dhs[2] \in Nat /\ s.dhs # None
        /\ b.dhs \in PubKeys /\ b.dhs[2] \in Nat /\ b.dhs # None
    BY NoneAssumption DEF Typed, Numbered, PubKeys
  <2>2. dh \in PubKeys /\ dh[2] \in Nat /\ dh[2] <= b.dhs[2]
    <3>1. WellSealed(q, M, m)
      BY ScriptPlace
    <3> QED BY <3>1 DEF WellSealed, Sending
  <2>3. ~Leads(p, s, b)
    <3> SUFFICES ASSUME Leads(p, s, b) PROVE FALSE
      OBVIOUS
    <3>1. s.dhr = b.dhs
      BY DEF Leads
    <3>2. dh[2] = b.dhs[2] + 1
      BY <1>2, <2>1, <3>1 DEF NextChain
    <3> QED BY <2>1, <2>2, <3>2
  <2>4. Leads(q, b, s)
    BY <2>3 DEF Paired
  <2>5. NextChain(p, s, b.dhs) /\ b.dhr = s.dhs /\ b.sending_chain_key # None
        /\ b.root_key = Append(s.root_key, {s.dhs, b.dhs})
    BY <1>0, <2>4 DEF Leads
  <2>6. dh = b.dhs
    BY <1>2, <2>5, PairEq DEF NextChain
  <2>7. /\ t.dhr = b.dhs /\ t.dhs = <<p, s.dhs[2] + 1>>
        /\ t.receiving_chain_key # None
        /\ t.receiving_chain_key.rk = b.root_key
        /\ t.root_key = Append(b.root_key, {t.dhs, b.dhs})
        /\ t.sending_chain_key # None
    BY <1>2, <2>1, <2>5, <2>6 DEF Stepped
  <2>8. t.root_key = Append(b.root_key, {b.dhs, t.dhs})
    <3>1. {t.dhs, b.dhs} = {b.dhs, t.dhs}
      OBVIOUS
    <3> QED BY <2>7, <3>1
  <2>9. NextChain(q, b, t.dhs)
    <3>1. t.dhs \in PubKeys /\ t.dhs[1] = p /\ t.dhs[2] = s.dhs[2] + 1
      BY <2>1, <2>7 DEF PubKeys
    <3> QED BY <1>0, <2>1, <2>5, <3>1 DEF NextChain
  <2>10. Leads(p, t, b)
    BY <2>5, <2>7, <2>8, <2>9 DEF Leads
  <2> QED BY <2>10 DEF Paired
<1> QED BY <1>1, <1>2 DEF Moved

\* What leaves the receiving side and the bank alone keeps them.
LEMMA SameReceiving ==
    ASSUME NEW p, NEW s, NEW t, NEW M,
           t.root_key = s.root_key, t.dhs = s.dhs, t.dhr = s.dhr,
           t.receiving_chain_key = s.receiving_chain_key,
           t.receiving_msg_number = s.receiving_msg_number,
           t.skipped_keys = s.skipped_keys
    PROVE  /\ Receiving(p, s, M)
              /\ Range(t.retired_peer_dh_keys) \subseteq Range(s.retired_peer_dh_keys)
              => Receiving(p, t, M)
           /\ \A P : Past(p, t, P) = Past(p, s, P)
<1>1. \A dh : NextChain(p, t, dh) <=> NextChain(p, s, dh)
  BY DEF NextChain
<1>2. \A dh, n : Reached(p, t, dh, n) <=> Reached(p, s, dh, n)
  BY DEF Reached
<1>3. ASSUME Receiving(p, s, M),
             Range(t.retired_peer_dh_keys) \subseteq Range(s.retired_peer_dh_keys)
      PROVE  Receiving(p, t, M)
  BY <1>1, <1>3 DEF Receiving
<1>4. \A P : Past(p, t, P) = Past(p, s, P)
  BY <1>2 DEF Past
<1> QED BY <1>3, <1>4

\* The party that does not move, and neither does what it is sent.
LEMMA OthersDelivery ==
    ASSUME NEW q \in Party, ~Zeroed(st[q]) => Delivery(q),
           st'[q] = st[q], read'[q] = read[q], q \in upgraded' <=> q \in upgraded,
           sent' = sent
    PROVE  ~Zeroed(st'[q]) => Delivery(q)'
<1>1. (q \in upgraded') = (q \in upgraded)
  OBVIOUS
<1> QED BY <1>1 DEF Delivery

LEMMA OrderUnchanged ==
    ASSUME DeliveryInv, sent' = sent
    PROVE  \A p \in Party : InOrder(p)' /\ History(p, Range(sent'[p]))
BY DEF DeliveryInv, InOrder

LEMMA InitDelivery ==
    Init => DeliveryInv
<1> SUFFICES ASSUME Init PROVE DeliveryInv
  OBVIOUS
<1>1. \A p \in Party : sent[p] = <<>> /\ Range(sent[p]) = {} /\ Range(read[p]) = {}
  BY DEF Init, Range
<1>2. \A p \in Party : InOrder(p) /\ History(p, Range(sent[p]))
  BY <1>1 DEF InOrder, History
<1>3. Places({}) = {} /\ Ids({}) = {} /\ Range(<<>>) = {}
  BY DEF Places, Ids, Range
<1>4. ASSUME NEW p \in Party, NEW s, s = st[p], s.skipped_keys = {}, s.skipped_key_order = <<>>,
             s.retired_peer_dh_keys = <<>>, s.receiving_chain_key = None,
             s.sending_chain_key # None => s.sending_chain_key.i = 0,
             s.sending_msg_number = 0, s.receiving_msg_number = 0,
             s.previous_sending_chain_length = 0
      PROVE  Delivery(p)
  <2>1. Sending(p, s, {})
    BY <1>3, <1>4 DEF Sending
  <2>2. Receiving(p, s, {})
    BY <1>3, <1>4 DEF Receiving
  <2>3. Evictions(p \in upgraded, p, s, {}, {})
    <3>1. ByAge(<<>>)
      BY DEF ByAge
    <3>2. Past(p, s, {}) = {}
      BY DEF Past
    <3> QED BY <1>3, <1>4, <3>1, <3>2 DEF Evictions, Capped
  <2>4. Peer(p) \in Party
    BY PeerOfPeer
  <2> QED BY <1>1, <1>4, <2>1, <2>2, <2>3, <2>4 DEF Delivery
<1> DEFINE a == st["initiator"]
           b == st["responder"]
           d == <<"initiator", 1>>
<1>5. "initiator" \in Party /\ "responder" \in Party /\ Peer("initiator") = "responder"
  BY DEF Party, Peer
<1>6. /\ a.skipped_keys = {} /\ a.skipped_key_order = <<>> /\ a.retired_peer_dh_keys = <<>>
      /\ a.receiving_chain_key = None /\ a.sending_msg_number = 0 /\ a.receiving_msg_number = 0
      /\ a.previous_sending_chain_length = 0
      /\ a.dhs = d /\ a.dhr = Spk /\ a.root_key = Append(<<>>, {d, Spk})
      /\ a.sending_chain_key = [rk |-> Append(<<>>, {d, Spk}), i |-> 0]
  BY DEF Init, Party, init_initiator, kdf_rk, x25519_derive_shared
<1>7. /\ b.skipped_keys = {} /\ b.skipped_key_order = <<>> /\ b.retired_peer_dh_keys = <<>>
      /\ b.receiving_chain_key = None /\ b.sending_msg_number = 0 /\ b.receiving_msg_number = 0
      /\ b.previous_sending_chain_length = 0
      /\ b.dhs = Spk /\ b.dhr = None /\ b.root_key = <<>>
      /\ b.sending_chain_key = None
  BY DEF Init, Party, init_responder
<1>8. a.sending_chain_key # None /\ a.sending_chain_key.i = 0
  <2>1. Spk \in PubKeys /\ d \in PubKeys
    BY DEF Spk, PubKeys, Party
  <2> DEFINE rk == Append(<<>>, {d, Spk})
             ck == [rk |-> rk, i |-> 0]
  <2>2. rk \in RootKeys
    BY <2>1 DEF RootKeys
  <2> HIDE DEF rk
  <2>3. ck \in ChainKeys /\ ck.i = 0
    BY <2>2 DEF ChainKeys
  <2>4. a.sending_chain_key = ck
    BY <1>6 DEF rk
  <2> HIDE DEF ck
  <2> QED BY <2>3, <2>4, NoneAssumption
<1> HIDE DEF a, b
<1>9. Delivery("initiator") /\ Delivery("responder")
  BY <1>4, <1>5, <1>6, <1>7, <1>8 DEF a, b
<1>10. Leads("initiator", a, b)
  <2>1. NextChain("responder", b, d)
    <3>1. Base("responder") = 1 /\ Peer("responder") = "initiator"
      BY DEF Base, Parity, Peer
    <3>2. d \in PubKeys /\ d[1] = "initiator" /\ d[2] = 1
      BY DEF PubKeys, Party
    <3> QED BY <1>7, <3>1, <3>2 DEF NextChain
  <2>2. {d, Spk} = {Spk, d}
    OBVIOUS
  <2> HIDE DEF d
  <2> QED BY <1>5, <1>6, <1>7, <1>8, <2>1, <2>2 DEF Leads
<1> QED BY <1>2, <1>5, <1>9, <1>10 DEF DeliveryInv, Party, a, b

\* Sealing a message: the sender counts it, and the receiver can open it.
LEMMA EncryptDelivery ==
    ASSUME Inv, BankedInv, DeliveryInv, NEW p \in Party, Encrypt(p)
    PROVE  DeliveryInv'
<1> DEFINE s == st[p]
           m == EncryptedMessage(s)
           t == ratchet_encrypt(s)
           q == Peer(p)
           b == st[q]
           M == Range(sent[p])
<1>1. SessionType /\ s.sending_chain_key # None /\ ~Zeroed(s)
  BY DEF Inv, Encrypt, Zeroed
<1>2. /\ st' = [st EXCEPT ![p] = t] /\ sent' = [sent EXCEPT ![p] = Append(sent[p], m)]
      /\ read' = read /\ upgraded' = upgraded
  BY DEF Encrypt
<1>3. q \in Party /\ Peer(q) = p /\ q # p /\ \A r \in Party : r = p \/ r = q
  BY DEF Party, Peer
<1>4. Safe(p, s) /\ Typed(s) /\ Numbered(p, s) /\ Sending(p, s, M)
  BY <1>1, DeliveredInv
<1>5. Script(p, M)
  BY ScriptInv
<1>6. m \in Messages
  BY <1>1, <1>4, EncryptIsSafe
<1>7. /\ t.root_key = s.root_key /\ t.dhs = s.dhs /\ t.dhr = s.dhr
      /\ t.receiving_chain_key = s.receiving_chain_key
      /\ t.receiving_msg_number = s.receiving_msg_number
      /\ t.skipped_keys = s.skipped_keys /\ t.skipped_key_order = s.skipped_key_order
      /\ t.retired_peer_dh_keys = s.retired_peer_dh_keys
      /\ t.sending_chain_key # None
      /\ Place(m) = <<s.dhs, s.sending_msg_number>>
  BY <1>1, <1>4, EncryptIs
<1>8. History(p, M \cup {m}) /\ Sending(p, t, M \cup {m})
      /\ \A x \in M : Older(Place(x), Place(m))
  BY <1>1, <1>4, <1>5, EncryptScript, EncryptYoungest
<1>9. ~Zeroed(b) => /\ Receiving(q, b, M \cup {m})
                    /\ ~Reached(q, b, s.dhs, s.sending_msg_number)
                    /\ Paired(p, s, b)
  <2> SUFFICES ASSUME ~Zeroed(b)
               PROVE  /\ Receiving(q, b, M \cup {m})
                      /\ ~Reached(q, b, s.dhs, s.sending_msg_number)
                      /\ Paired(p, s, b)
    OBVIOUS
  <2>1. \A r \in Party : ~Zeroed(st[r])
    BY <1>1, <1>3
  <2>2. Paired(p, s, b)
    BY <2>1, EitherLeads DEF DeliveryInv
  <2>3. Typed(b) /\ Numbered(q, b) /\ Receiving(q, b, M)
    BY <1>3, DeliveredInv DEF Delivered
  <2>4. Leads(p, s, b) \/ Leads(q, b, s)
    BY <2>2 DEF Paired
  <2> QED BY <1>1, <1>4, <1>5, <2>2, <2>3, <2>4, EncryptReceives
<1> HIDE DEF s, m, t, q, b
<1>10. st'[p] = t /\ st'[q] = b
  BY <1>1, <1>2, <1>3 DEF SessionType, b
<1>11. sent'[p] = Append(sent[p], m) /\ sent'[q] = sent[q] /\ sent[p] \in Seq(Messages)
  BY <1>1, <1>2, <1>3 DEF SessionType
<1>12. Range(sent'[p]) = M \cup {m}
  BY <1>6, <1>11, RangeAppend
<1> HIDE DEF M
<1>13. InOrder(p)'
  <2> DEFINE u == sent[p]
             v == sent'[p]
             l == Len(u)
  <2>1. l \in Nat /\ DOMAIN u = 1..l /\ DOMAIN v = 1..l + 1 /\ v[l + 1] = m
        /\ \A i \in 1..l : v[i] = u[i] /\ u[i] \in M
    BY <1>6, <1>11 DEF M, Range
  <2>2. \A i, j \in DOMAIN u : i < j => Older(Place(u[i]), Place(u[j]))
    BY DEF DeliveryInv, InOrder
  <2> HIDE DEF u, v, l
  <2>3. ASSUME NEW i \in 1..l + 1, NEW j \in 1..l + 1, i < j PROVE Older(Place(v[i]), Place(v[j]))
    <3>1. i \in 1..l
      BY <2>1, <2>3
    <3>2. CASE j \in 1..l
      BY <2>1, <2>2, <2>3, <3>1, <3>2
    <3>3. CASE j = l + 1
      BY <1>8, <2>1, <3>1, <3>3
    <3> QED BY <2>1, <3>2, <3>3
  <2> QED BY <2>1, <2>3 DEF InOrder, v
<1>14. \A r \in Party : InOrder(r)' /\ History(r, Range(sent'[r]))
  <2>1. InOrder(q)' /\ History(q, Range(sent'[q]))
    BY <1>3, <1>11 DEF DeliveryInv, InOrder
  <2> QED BY <1>3, <1>8, <1>12, <1>13, <2>1
<1>15. Delivery(p)'
  <2>1. Delivery(p)
    BY <1>1 DEF DeliveryInv, s
  <2>2. /\ Receiving(p, s, Range(sent[q]))
        /\ Evictions(p \in upgraded, p, s, Range(sent[q]), Range(read[p]))
    BY <2>1 DEF Delivery, s, q
  <2>3. Receiving(p, t, Range(sent[q])) /\ \A P : Past(p, t, P) = Past(p, s, P)
    BY <1>7, <2>2, SameReceiving
  <2>4. Evictions(p \in upgraded, p, t, Range(sent[q]), Range(read[p]))
    BY <1>7, <2>2, <2>3 DEF Evictions
  <2>5. Sending(p, t, Range(sent'[p]))
    BY <1>8, <1>12
  <2> QED BY <1>2, <1>10, <1>11, <2>3, <2>4, <2>5 DEF Delivery, q
<1>16. ~Zeroed(b) => Delivery(q)'
  <2> SUFFICES ASSUME ~Zeroed(b) PROVE Delivery(q)'
    OBVIOUS
  <2>1. Delivery(q)
    BY <1>3 DEF DeliveryInv, b
  <2>2. /\ Sending(q, b, Range(sent[q]))
        /\ Evictions(q \in upgraded, q, b, M, Range(read[q]))
    BY <1>3, <2>1 DEF Delivery, b, M
  <2>3. Past(q, b, Places(M \cup {m})) = Past(q, b, Places(M))
    <3>1. Places(M \cup {m}) = Places(M) \cup {Place(m)}
      BY PlacesAdd
    <3>2. ~Reached(q, b, Place(m)[1], Place(m)[2])
      BY <1>7, <1>9
    <3> QED BY <3>1, <3>2 DEF Past
  <2>4. Evictions(q \in upgraded, q, b, M \cup {m}, Range(read[q]))
    BY <2>2, <2>3 DEF Evictions
  <2> QED BY <1>2, <1>3, <1>9, <1>10, <1>11, <1>12, <2>2, <2>4 DEF Delivery
<1>17. (\A r \in Party : ~Zeroed(st'[r])) => \E r \in Party : Leads(r, st'[r], st'[Peer(r)])
  <2> SUFFICES ASSUME \A r \in Party : ~Zeroed(st'[r])
               PROVE  \E r \in Party : Leads(r, st'[r], st'[Peer(r)])
    OBVIOUS
  <2>1. Paired(p, s, b)
    BY <1>3, <1>9, <1>10
  <2>2. Paired(p, t, b)
    BY <1>1, <1>7, <2>1, SameLeads
  <2>3. Paired(p, st'[p], st'[Peer(p)])
    BY <1>10, <2>2 DEF q
  <2> QED BY <2>3, EitherLeads
<1> QED BY <1>3, <1>10, <1>14, <1>15, <1>16, <1>17 DEF DeliveryInv

\* Receiving one: what is refused changes nothing, what opens moves only p.
LEMMA DecryptDelivery ==
    ASSUME Inv, BankedInv, DeliveryInv, NEW p \in Party, NEW m \in OnTheWire, Decrypt(p, m)
    PROVE  DeliveryInv'
<1> DEFINE s == st[p]
           r == ratchet_decrypt(s, m)
           t == r.s
           q == Peer(p)
           b == st[q]
           u == p \in upgraded
           M == Range(sent[q])
           R == Range(read[p])
<1>1. SessionType
  BY DEF Inv
<1>2. CASE r.err # "none"
  <2>1. r.s = st[p]
    BY <1>2 DEF ratchet_decrypt, Err
  <2>2. st' = st /\ sent' = sent /\ read' = read /\ upgraded' = upgraded
    BY <1>1, <1>2, <2>1 DEF Decrypt, SessionType
  <2> QED BY <2>2 DEF DeliveryInv, InOrder, Delivery
<1>3. CASE r.err = "none"
  <2>1. m \in Messages /\ m \in M /\ Safe(p, s)
    BY <1>3, OnlyNewMessagesOpen DEF Decrypt
  <2>2. /\ st' = [st EXCEPT ![p] = t]
        /\ sent' = sent
        /\ read' = [read EXCEPT ![p] = Append(read[p], m)]
        /\ upgraded' = upgraded
    BY <1>3 DEF Decrypt
  <2>3. q \in Party /\ Peer(q) = p /\ q # p /\ \A x \in Party : x = p \/ x = q
    BY DEF Party, Peer
  <2>4. ~Zeroed(s)
    BY <2>1 DEF Safe, Honest, ZeroRoot, Zeroed
  <2>5. /\ Delivered(u, p, s, M, R) /\ Sending(p, s, Range(sent[p]))
        /\ Typed(s) /\ Numbered(p, s)
    BY <2>4, DeliveredInv
  <2>6. Script(q, M) /\ Script(p, Range(sent[p]))
    BY <2>3, ScriptInv
  <2>7. IsFiniteSet(R) /\ u \in BOOLEAN
    BY <1>1, RangeFinite DEF SessionType
  <2> HIDE DEF u, R, M
  <2>8. Delivered(u, p, t, M, R \cup {m}) /\ Moved(p, s, m.header.dh, t)
    BY <1>3, <2>1, <2>5, <2>6, <2>7, DecryptDelivers
  <2>9. ~Zeroed(b) => Typed(b) /\ Sending(q, b, M)
    BY <2>3, DeliveredInv DEF M
  <2> HIDE DEF s, r, t, b, q
  <2>10. st'[p] = t /\ st'[q] = b /\ read'[q] = read[q] /\ read'[p] = Append(read[p], m)
    BY <1>1, <2>2, <2>3 DEF SessionType, b
  <2>11. Range(read'[p]) = R \cup {m}
    BY <1>1, <2>1, <2>10, RangeAppend DEF SessionType, R
  <2>12. Delivery(p)'
    <3>1. Sending(p, t, Range(sent[p]))
      BY <2>5, <2>6, <2>8, MovedSending
    <3>2. Receiving(p, t, M) /\ Evictions(u, p, t, M, R \cup {m})
      BY <2>8 DEF Delivered
    <3>3. (p \in upgraded') = u
      BY <2>2 DEF u
    <3> QED BY <2>2, <2>10, <2>11, <3>1, <3>2, <3>3 DEF Delivery, M, q
  <2>13. ~Zeroed(st'[q]) => Delivery(q)'
    BY <2>2, <2>3, <2>10, OthersDelivery DEF DeliveryInv, b
  <2>14. \A x \in Party : InOrder(x)' /\ History(x, Range(sent'[x]))
    BY <2>2, OrderUnchanged
  <2>15. (\A x \in Party : ~Zeroed(st'[x])) => \E x \in Party : Leads(x, st'[x], st'[Peer(x)])
    <3> SUFFICES ASSUME \A x \in Party : ~Zeroed(st'[x])
                 PROVE  \E x \in Party : Leads(x, st'[x], st'[Peer(x)])
      OBVIOUS
    <3>1. ~Zeroed(b)
      BY <2>3, <2>10
    <3>2. \A x \in Party : ~Zeroed(st[x])
      BY <2>3, <2>4, <3>1 DEF s, b
    <3>3. Paired(p, s, b)
      BY <3>2, EitherLeads DEF DeliveryInv, s, b, q
    <3>4. Paired(p, t, b)
      BY <2>1, <2>5, <2>6, <2>8, <2>9, <3>1, <3>3, MovedLeads DEF q
    <3>5. Paired(p, st'[p], st'[Peer(p)])
      BY <2>10, <3>4 DEF q
    <3> QED BY <3>5, EitherLeads
  <2> QED BY <2>3, <2>12, <2>13, <2>14, <2>15 DEF DeliveryInv
<1> QED BY <1>2, <1>3

\* Loading a session of an older version only forgets the ages of the keys.
LEMMA CappedForgets ==
    ASSUME NEW u \in BOOLEAN, NEW P, NEW Q, NEW B, IsFiniteSet(Q \cup B), Capped(u, P, Q, B)
    PROVE  Capped(TRUE, P, Q, B)
<1> SUFFICES ASSUME NEW x \in P \ (Q \cup B)
             PROVE  Cardinality(Q \cup B) >= MAX_SKIPPED_KEYS
  <2>1. \A x : {b \in Q \cup B : TRUE \/ Older(x, b)} = Q \cup B
    OBVIOUS
  <2> QED BY <2>1 DEF Capped
<1> DEFINE Y == {b \in Q \cup B : u \/ Older(x, b)}
           y == Cardinality(Y)
           c == Cardinality(Q \cup B)
<1>1. y >= MAX_SKIPPED_KEYS
  BY DEF Capped
<1>2. Y \subseteq Q \cup B
  OBVIOUS
<1>3. IsFiniteSet(Y) /\ y <= c
  BY <1>2, FS_Subset
<1>4. y \in Nat /\ c \in Nat /\ MAX_SKIPPED_KEYS \in Nat
  BY <1>3, FS_CardinalityType, LimitsAssumption
<1> HIDE DEF y, c
<1>5. c >= MAX_SKIPPED_KEYS
  BY <1>1, <1>3, <1>4
<1> QED BY <1>5 DEF c

LEMMA UpgradeDelivery ==
    ASSUME Inv, BankedInv, DeliveryInv, NEW p \in Party, Upgrade(p)
    PROVE  DeliveryInv'
<1> DEFINE s == st[p]
           t == LoadLegacy(s)
           q == Peer(p)
           b == st[q]
           M == Range(sent[q])
           R == Range(read[p])
<1>1. SessionType /\ Typed(s)
  BY DEF Inv, Safe, Zeroed
<1>2. st' = [st EXCEPT ![p] = t] /\ sent' = sent /\ read' = read /\ upgraded' = upgraded \cup {p}
  BY DEF Upgrade
<1>3. t = [s EXCEPT !.skipped_key_order = <<>>, !.retired_peer_dh_keys = <<>>]
  BY DEF LoadLegacy
<1>4. q \in Party /\ Peer(q) = p /\ q # p /\ \A x \in Party : x = p \/ x = q
  BY DEF Party, Peer
<1> HIDE DEF s, t, q, b
<1>5. /\ t.root_key = s.root_key /\ t.dhs = s.dhs /\ t.dhr = s.dhr
      /\ t.sending_chain_key = s.sending_chain_key
      /\ t.receiving_chain_key = s.receiving_chain_key
      /\ t.sending_msg_number = s.sending_msg_number
      /\ t.receiving_msg_number = s.receiving_msg_number
      /\ t.previous_sending_chain_length = s.previous_sending_chain_length
      /\ t.skipped_keys = s.skipped_keys
      /\ t.skipped_key_order = <<>> /\ t.retired_peer_dh_keys = <<>>
      /\ Typed(t)
  BY <1>1, <1>3 DEF Typed
<1>6. st'[p] = t /\ st'[q] = b
  BY <1>1, <1>2, <1>4 DEF SessionType, b
<1>7. ~Zeroed(t) => ~Zeroed(s)
  BY <1>5 DEF Zeroed
<1>8. ~Zeroed(t) => Delivery(p)'
  <2> SUFFICES ASSUME ~Zeroed(t) PROVE Delivery(p)'
    OBVIOUS
  <2> DEFINE u == p \in upgraded
             P == Past(p, s, Places(M))
             B == Ids(s.skipped_keys)
  <2>1. Delivered(u, p, s, M, R) /\ Sending(p, s, Range(sent[p]))
    BY <1>7, DeliveredInv DEF s, q
  <2>2. Receiving(p, s, M) /\ Capped(u, P, Places(R), B) /\ BankInv(s)
    BY <2>1 DEF Delivered, Evictions
  <2>3. IsFiniteSet(Places(R) \cup B)
    <3>1. IsFiniteSet(R)
      BY <1>1, RangeFinite DEF SessionType
    <3> QED BY <2>2, <3>1, PlacesFinite, BankFinite, FS_Union
  <2>4. u \in BOOLEAN
    OBVIOUS
  <2> HIDE DEF u, P, B, M, R
  <2>5. Capped(TRUE, P, Places(R), B)
    BY <2>2, <2>3, <2>4, CappedForgets
  <2>6. Range(<<>>) = {}
    BY DEF Range
  <2>7. Receiving(p, t, M) /\ Past(p, t, Places(M)) = P
    BY <1>5, <2>2, <2>6, SameReceiving DEF P
  <2>8. Evictions(TRUE, p, t, M, R)
    BY <1>5, <2>5, <2>7 DEF Evictions, B
  <2>9. Sending(p, t, Range(sent[p]))
    BY <1>5, <2>1 DEF Sending
  <2>10. (p \in upgraded') = TRUE
    BY <1>2
  <2> QED BY <1>2, <1>6, <2>7, <2>8, <2>9, <2>10 DEF Delivery, M, R, q
<1>9. ~Zeroed(st'[q]) => Delivery(q)'
  BY <1>2, <1>4, <1>6, OthersDelivery DEF DeliveryInv, b
<1>10. \A x \in Party : InOrder(x)' /\ History(x, Range(sent'[x]))
  BY <1>2, OrderUnchanged
<1>11. (\A x \in Party : ~Zeroed(st'[x])) => \E x \in Party : Leads(x, st'[x], st'[Peer(x)])
  <2> SUFFICES ASSUME \A x \in Party : ~Zeroed(st'[x])
               PROVE  \E x \in Party : Leads(x, st'[x], st'[Peer(x)])
    OBVIOUS
  <2>1. \A x \in Party : ~Zeroed(st[x])
    BY <1>4, <1>6, <1>7 DEF s, b
  <2>2. Paired(p, s, b)
    BY <2>1, EitherLeads DEF DeliveryInv, s, b, q
  <2>3. Paired(p, t, b)
    BY <1>5, <2>2, SameLeads
  <2>4. Paired(p, st'[p], st'[Peer(p)])
    BY <1>6, <2>3 DEF q
  <2> QED BY <2>4, EitherLeads
<1> QED BY <1>4, <1>6, <1>8, <1>9, <1>10, <1>11 DEF DeliveryInv

LEMMA WipeDelivery ==
    ASSUME Inv, BankedInv, DeliveryInv, NEW p \in Party, Wipe(p)
    PROVE  DeliveryInv'
<1> DEFINE s == st[p]
           t == zeroize_secrets(s)
<1>1. SessionType /\ Typed(s)
  BY DEF Inv, Safe, Zeroed
<1>2. st' = [st EXCEPT ![p] = t] /\ sent' = sent /\ read' = read /\ upgraded' = upgraded
  BY DEF Wipe
<1>3. t = [s EXCEPT !.root_key = ZeroRoot,
                    !.dhs = ZeroKey,
                    !.sending_chain_key = None,
                    !.receiving_chain_key = None,
                    !.skipped_keys = {},
                    !.skipped_key_order = <<>>]
  BY DEF zeroize_secrets
<1>4. ZeroRoot \in RootKeys /\ ZeroKey \in PubKeys
  BY DEF ZeroRoot, RootKeys, ZeroKey, PubKeys
<1> HIDE DEF s, t
<1>5. Zeroed(t)
  BY <1>1, <1>3, <1>4 DEF Typed, Zeroed
<1>6. st'[p] = t /\ \A q \in Party \ {p} : st'[q] = st[q]
  BY <1>1, <1>2 DEF SessionType
<1>7. \A q \in Party \ {p} : ~Zeroed(st'[q]) => Delivery(q)'
  BY <1>2, <1>6, OthersDelivery DEF DeliveryInv
<1>8. \A x \in Party : InOrder(x)' /\ History(x, Range(sent'[x]))
  BY <1>2, OrderUnchanged
<1> QED BY <1>5, <1>6, <1>7, <1>8 DEF DeliveryInv

\* Delivery, for every reachable state: either party, unless wiped, can derive
\* the key of every message the other sealed that lies ahead of it, holds the
\* right key for each one it banked, and has given up the others it came past
\* only to the cap; and of two that are not wiped one made the last step.
THEOREM DeliveryInvariance ==
    Spec => [](Inv /\ BankedInv /\ DeliveryInv)
<1>1. Inv /\ BankedInv /\ DeliveryInv /\ [Next]_vars => DeliveryInv'
  <2> SUFFICES ASSUME Inv, BankedInv, DeliveryInv, [Next]_vars PROVE DeliveryInv'
    OBVIOUS
  <2>1. CASE UNCHANGED vars
    BY <2>1 DEF vars, DeliveryInv, InOrder, Delivery
  <2>2. ASSUME NEW p \in Party, Encrypt(p) PROVE DeliveryInv'
    BY <2>2, EncryptDelivery
  <2>3. ASSUME NEW p \in Party, NEW m \in OnTheWire, Decrypt(p, m) PROVE DeliveryInv'
    BY <2>3, DecryptDelivery
  <2>4. ASSUME NEW p \in Upgraders, Upgrade(p) PROVE DeliveryInv'
    BY <2>4, UpgradeDelivery, BoundsAssumption
  <2>5. ASSUME NEW p \in Wipers, Wipe(p) PROVE DeliveryInv'
    BY <2>5, WipeDelivery, BoundsAssumption
  <2> QED BY <2>1, <2>2, <2>3, <2>4, <2>5 DEF Next
<1> QED BY <1>1, InitDelivery, ListsInvariance, PTL DEF Spec

\* The order of the messages is that of their places.
LEMMA PlacesInOrder ==
    ASSUME NEW q, Script(q, Range(sent[q])), sent[q] \in Seq(Messages), InOrder(q),
           NEW i \in DOMAIN sent[q], NEW j \in DOMAIN sent[q]
    PROVE  /\ Older(Place(sent[q][i]), Place(sent[q][j])) => i < j
           /\ Place(sent[q][i]) = Place(sent[q][j]) => i = j
<1> DEFINE x == Place(sent[q][i])
           y == Place(sent[q][j])
           M == Range(sent[q])
<1>1. i \in Nat /\ j \in Nat
  OBVIOUS
<1>2. sent[q][i] \in M /\ sent[q][j] \in M
  BY DEF Range
<1>3. x \in Places(M) /\ y \in Places(M)
  BY <1>2 DEF Places
<1>4. PlaceIn(q, x) /\ PlaceIn(q, y)
  BY <1>3, PlaceOf
<1>5. (i < j => Older(x, y)) /\ (j < i => Older(y, x)) /\ (i = j => x = y)
  BY DEF InOrder
<1> HIDE DEF x, y, M
<1>6. x[1][2] \in Nat /\ x[2] \in Nat /\ y[1][2] \in Nat /\ y[2] \in Nat
  BY <1>4 DEF PlaceIn
<1>7. ~(Older(x, y) /\ Older(y, x)) /\ ~Older(x, x)
  BY <1>6 DEF Older
<1>8. (Older(x, y) => i < j) /\ (x = y => i = j)
  BY <1>1, <1>5, <1>7
<1> QED BY <1>8 DEF x, y

\* An unread message that cannot be opened, for every reachable state and every
\* cap: evict_oldest_skipped_keys dropped its key, behind MAX_SKIPPED_KEYS
\* others.  Neither the rollback in ratchet_decrypt, nor a Diffie-Hellman step
\* over messages in flight, nor anything the network does loses a message.
THEOREM NothingElseIsLost ==
    Spec => []LostOnlyToTheCap
<1>1. ASSUME Inv, BankedInv, DeliveryInv, NEW p \in Party, NEW i \in DOMAIN sent[Peer(p)],
             Unread(p, i), Lost(p, i), ~Wiped(p),
             NEW others, others = {j \in DOMAIN sent[Peer(p)] \ {i} : p \in upgraded \/ j > i}
      PROVE  /\ Cardinality({j \in others : ~Unread(p, j) \/ Banked(p, j) \/ Lost(p, j)})
                      >= MAX_SKIPPED_KEYS
             /\ \A j \in DOMAIN sent[Peer(p)] : Banked(p, j) => j \in others
  <2> DEFINE s == st[p]
             q == Peer(p)
             D == DOMAIN sent[q]
             M == Range(sent[q])
             R == Range(read[p])
             u == p \in upgraded
             at(j) == Place(sent[q][j])
             x == at(i)
             Q == Places(R)
             B == Ids(s.skipped_keys)
             Y == {b \in Q \cup B : u \/ Older(x, b)}
             W == {j \in others : ~Unread(p, j) \/ Banked(p, j) \/ Lost(p, j)}
  <2>1. SessionType /\ q \in Party /\ ~Zeroed(s)
    BY <1>1, PeerOfPeer DEF Inv, DroppedInv
  <2>2. Script(q, M) /\ InOrder(q) /\ sent[q] \in Seq(Messages) /\ IsFiniteSet(R)
    BY <1>1, <2>1, ScriptInv, RangeFinite DEF DeliveryInv, SessionType
  <2>3. Delivered(u, p, s, M, R) /\ u \in BOOLEAN
    BY <1>1, <2>1, DeliveredInv
  <2>4. R \subseteq M
    BY <1>1 DEF Inv
  <2>5. \A j \in D : sent[q][j] \in M /\ at(j) \in Places(M)
    BY DEF Range, Places
  <2>6. \A j, k \in D : (Older(at(j), at(k)) => j < k) /\ (at(j) = at(k) => j = k)
    BY <2>2, PlacesInOrder
  <2>7. \A j \in D : (Unread(p, j) <=> sent[q][j] \notin R) /\ (Banked(p, j) <=> at(j) \in B)
    BY DEF Unread, Banked, Place
  <2>8. \A y \in Q : \E j \in D : y = at(j) /\ ~Unread(p, j)
    <3> SUFFICES ASSUME NEW y \in Q PROVE \E j \in D : y = at(j) /\ ~Unread(p, j)
      OBVIOUS
    <3>1. PICK r \in R : y = Place(r)
      BY DEF Places
    <3>2. PICK j \in D : r = sent[q][j]
      BY <2>4 DEF Range
    <3> QED BY <2>7, <3>1, <3>2
  <2>9. \A y \in B : \E j \in D : y = at(j) /\ Banked(p, j)
    <3> SUFFICES ASSUME NEW y \in B PROVE \E j \in D : y = at(j) /\ Banked(p, j)
      OBVIOUS
    <3>1. y \in Places(M)
      BY <2>3 DEF Delivered, Receiving, Ids
    <3>2. PICK m \in M : y = Place(m)
      BY <3>1 DEF Places
    <3>3. PICK j \in D : m = sent[q][j]
      BY DEF Range
    <3> QED BY <2>7, <3>2, <3>3
  <2>10. x \in Past(p, s, Places(M)) \ B
    <3>1. ratchet_decrypt(s, sent[q][i]).err \notin {"none", "TooManySkipped"}
      BY <1>1 DEF Lost, Verdict
    <3>2. sent[q][i] \in M
      BY <1>1, <2>5
    <3> HIDE DEF u, M, R, s
    <3> QED BY <2>1, <2>2, <2>3, <3>1, <3>2, LostIsPast DEF q
  <2>11. x \notin Q
    <3> SUFFICES ASSUME x \in Q PROVE FALSE
      OBVIOUS
    <3>1. PICK j \in D : x = at(j) /\ ~Unread(p, j)
      BY <2>8
    <3>2. j = i
      BY <1>1, <2>6, <3>1
    <3> QED BY <1>1, <3>1, <3>2
  <2>12. Capped(u, Past(p, s, Places(M)), Q, B)
    BY <2>3 DEF Delivered, Evictions
  <2> HIDE DEF s, u, M, R, Q, B, at, W
  <2>13. (u \/ \A b \in B : Older(x, b)) /\ Cardinality(Y) >= MAX_SKIPPED_KEYS
    BY <2>10, <2>11, <2>12 DEF Capped
  <2>14. ASSUME NEW j \in D, at(j) \in Q \cup B, u \/ Older(x, at(j)) PROVE j \in others
    <3>1. j # i
      BY <2>10, <2>11, <2>14
    <3>2. i \in Nat /\ j \in Nat
      BY <2>2, <1>1
    <3>3. u \/ j > i
      BY <1>1, <2>6, <2>14, <3>2
    <3> QED BY <1>1, <3>1, <3>3 DEF u
  <2>15. \A j \in D : Banked(p, j) => j \in others
    BY <2>7, <2>13, <2>14
  <2>16. \A y \in Y : \E j \in W : y = at(j)
    <3> SUFFICES ASSUME NEW y \in Y PROVE \E j \in W : y = at(j)
      OBVIOUS
    <3>1. PICK j \in D : y = at(j) /\ (~Unread(p, j) \/ Banked(p, j))
      BY <2>8, <2>9
    <3>2. j \in others
      BY <2>14, <3>1
    <3> QED BY <3>1, <3>2 DEF W
  <2>17. IsFiniteSet(W)
    <3>1. IsFiniteSet(1..Len(sent[q])) /\ D = 1..Len(sent[q])
      BY <2>2, CountTo
    <3>2. W \subseteq D
      BY <1>1 DEF W
    <3> QED BY <3>1, <3>2, FS_Subset
  <2>18. Cardinality(Y) <= Cardinality(W)
    <3> DEFINE f == [y \in Y |-> CHOOSE j \in W : y = at(j)]
    <3> HIDE DEF Y
    <3>1. f \in [Y -> W] /\ \A y \in Y : y = at(f[y])
      BY <2>16
    <3> HIDE DEF f
    <3>2. IsInjective(f)
      BY <3>1 DEF IsInjective
    <3>3. f \in Injection(Y, W)
      BY <3>1, <3>2 DEF Injection
    <3> QED BY <2>17, <3>3, FS_Injection
  <2> DEFINE y == Cardinality(Y)
             w == Cardinality(W)
  <2>19. w \in Nat /\ y \in Nat /\ MAX_SKIPPED_KEYS \in Nat
    <3>1. IsFiniteSet(Y)
      <4>1. IsFiniteSet(Q) /\ IsFiniteSet(B)
        BY <2>2, <2>3, PlacesFinite, BankFinite DEF Delivered, Q, B
      <4>2. IsFiniteSet(Q \cup B) /\ Y \subseteq Q \cup B
        BY <4>1, FS_Union
      <4> QED BY <4>2, FS_Subset
    <3> QED BY <2>17, <3>1, FS_CardinalityType, LimitsAssumption
  <2>20. w >= MAX_SKIPPED_KEYS
    <3> HIDE DEF y, w
    <3>1. y >= MAX_SKIPPED_KEYS /\ y <= w
      BY <2>13, <2>18 DEF y, w
    <3> QED BY <2>19, <3>1
  <2> QED BY <2>15, <2>20 DEF W
<1>2. Inv /\ BankedInv /\ DeliveryInv => LostOnlyToTheCap
  BY <1>1 DEF LostOnlyToTheCap
<1> QED BY <1>2, DeliveryInvariance, PTL
============================================================================
