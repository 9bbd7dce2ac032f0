--------------------------- MODULE SkipLoopProofs ---------------------------
(***************************************************************************)
(* Proof that the loops of module SkipLoop leave what skip_message_keys of *)
(* RatchetOps says in one go, for every bank, cap and number of messages   *)
(* skipped.                                                                *)
(***************************************************************************)
EXTENDS SkipLoop, VectorProofs, SequenceTheorems

---------------------------------------------------------------------------
(* The inductive invariant.                                                *)

\* The states that skip_message_keys is called with.
Start(z) ==
    /\ z \in RatchetState
    /\ z.dhr = Dhr
    /\ z.receiving_chain_key # None
    /\ IsFiniteSet(z.skipped_keys)
    /\ \A e, f \in z.skipped_keys : e.id = f.id => e = f
    /\ IsInjective(z.skipped_key_order)
    /\ Range(z.skipped_key_order) \subseteq Ids(z.skipped_keys)
    /\ \A m \in Nat : m >= z.receiving_msg_number => <<Dhr, m>> \notin Ids(z.skipped_keys)

\* The keys up to message m banked and none evicted: the ids that are new, the
\* map, the list, and the list with the unordered ids in front.
NewIds(z, m) ==
    [j \in 1..(m - z.receiving_msg_number) |-> skipped_key_id(z.dhr, z.receiving_msg_number + j - 1)]
AllKeys(z, m) == z.skipped_keys \cup SkippedEntries(z, m)
InTurn(z, m) == z.skipped_key_order \o NewIds(z, m)
Full(z, m) == SetToSeq(Ids(z.skipped_keys) \ Range(z.skipped_key_order)) \o InTurn(z, m)

\* The first k of them are evicted.
Left(z, m, k, K, o) ==
    /\ K = {e \in AllKeys(z, m) : e.id \notin {Full(z, m)[j] : j \in 1..k}}
    /\ o = SubSeq(Full(z, m), k + 1, Len(Full(z, m)))

\* How many have to be.
Excess(z, m) == Cardinality(z.skipped_keys) + (m - z.receiving_msg_number) - MAX_SKIPPED_KEYS

\* At the head of the loop, and in the loop of evict_oldest_skipped_keys.  A
\* bank beyond the cap is left alone until there is a key to add.
Skipped(z, m, K, o) ==
    IF m = z.receiving_msg_number \/ Excess(z, m) <= 0
    THEN K = AllKeys(z, m) /\ o = InTurn(z, m)
    ELSE Left(z, m, Excess(z, m), K, o)

Evicting(z, m, K, o) == \E k \in Nat : k <= Excess(z, m) /\ Excess(z, m) > 0 /\ Left(z, m, k, K, o)

\* Nothing else of the state changes.
With(z, K, o, n, c) ==
    [z EXCEPT !.skipped_keys = K,
              !.skipped_key_order = o,
              !.receiving_msg_number = n,
              !.receiving_chain_key = c]

Went(z, t) ==
    t = With(z, t.skipped_keys, t.skipped_key_order, t.receiving_msg_number, t.receiving_chain_key)

LoopInv ==
    LET n0 == start.receiving_msg_number
        n == s.receiving_msg_number
    IN  /\ Start(start)
        /\ until \in Nat /\ n0 + MAX_SKIP >= until
        /\ Went(start, s)
        /\ n \in Nat /\ n >= n0
        /\ pc \in {"skip", "evict", "done"}
        /\ pc # "done" => s.receiving_chain_key = start.receiving_chain_key
        /\ pc = "skip" => /\ n <= until \/ n = n0
                          /\ ck = Advance(start.receiving_chain_key, n - n0)
                          /\ Skipped(start, n, s.skipped_keys, s.skipped_key_order)
        /\ pc = "evict" => /\ n < until
                           /\ ck = Advance(start.receiving_chain_key, (n + 1) - n0)
                           /\ Evicting(start, n + 1, s.skipped_keys, s.skipped_key_order)
        /\ LoopComputesSkip

---------------------------------------------------------------------------
(* The keys of the messages passed, none of them evicted.                  *)

LEMMA StartIs ==
    ASSUME NEW z, Start(z)
    PROVE  /\ z.receiving_msg_number \in Nat
           /\ z.dhr = Dhr /\ Dhr \in PubKeys
           /\ z.receiving_chain_key \in ChainKeys
           /\ z.skipped_keys \in SUBSET [id : SkippedIds, mk : MsgKeys]
           /\ IsFiniteSet(z.skipped_keys)
           /\ \A e, f \in z.skipped_keys : e.id = f.id => e = f
           /\ z.skipped_key_order \in Seq(SkippedIds)
           /\ IsInjective(z.skipped_key_order)
           /\ Range(z.skipped_key_order) \subseteq Ids(z.skipped_keys)
           /\ \A m \in Nat : m >= z.receiving_msg_number => <<Dhr, m>> \notin Ids(z.skipped_keys)
<1>1. Dhr \in PubKeys
  BY DEF Dhr, PubKeys, Party
<1>2. z.receiving_msg_number \in Nat /\ z.receiving_chain_key \in ChainKeys \cup {None}
  BY DEF Start, RatchetState
<1>3. /\ z.skipped_keys \in SUBSET [id : SkippedIds, mk : MsgKeys]
      /\ z.skipped_key_order \in Seq(SkippedIds)
  BY DEF Start, RatchetState
<1>4. z.receiving_chain_key \in ChainKeys
  BY <1>2 DEF Start
<1> QED BY <1>1, <1>2, <1>3, <1>4, Zenon DEF Start

\* The ids that are new, in their order and as a set.
LEMMA NewIdsAre ==
    ASSUME NEW z, Start(z), NEW m \in Nat, m >= z.receiving_msg_number
    PROVE  /\ NewIds(z, m) \in Seq(SkippedIds)
           /\ Len(NewIds(z, m)) = m - z.receiving_msg_number
           /\ IsInjective(NewIds(z, m))
           /\ Range(NewIds(z, m)) = Ids(SkippedEntries(z, m))
           /\ Range(NewIds(z, m)) = {Dhr} \X (z.receiving_msg_number .. m - 1)
           /\ Range(NewIds(z, m)) \cap Ids(z.skipped_keys) = {}
<1> DEFINE n == z.receiving_msg_number
           d == m - n
           q == [j \in 1..d |-> <<Dhr, n + j - 1>>]
           X == {Dhr} \X (n .. m - 1)
<1>1. n \in Nat /\ z.dhr = Dhr /\ Dhr \in PubKeys
  BY StartIs
<1>2. NewIds(z, m) = q
  BY <1>1 DEF NewIds, skipped_key_id
<1>3. d \in Nat
  BY <1>1
<1>4. \A j \in 1..d : n + j - 1 \in Nat /\ n + j - 1 >= n /\ n + j - 1 <= m - 1
  BY <1>1
<1>5. q \in [1..d -> SkippedIds]
  BY <1>1, <1>4 DEF SkippedIds
<1>6. q \in Seq(SkippedIds) /\ Len(q) = d
  BY <1>3, <1>5, FunctionIsSeq
<1>7. DOMAIN q = 1..d /\ \A j \in 1..d : q[j] = <<Dhr, n + j - 1>>
  OBVIOUS
<1> HIDE DEF q
<1>8. ASSUME NEW i \in 1..d, NEW j \in 1..d, q[i] = q[j] PROVE i = j
  <2>1. n + i - 1 = n + j - 1
    BY <1>7, <1>8
  <2> QED BY <1>1, <2>1
<1>9. IsInjective(q)
  BY <1>7, <1>8 DEF IsInjective
<1>10. ASSUME NEW x \in Range(q) PROVE x \in X
  <2>1. PICK j \in 1..d : x = q[j]
    BY <1>7 DEF Range
  <2>2. n + j - 1 \in n .. m - 1
    BY <1>1, <1>4
  <2>3. x = <<Dhr, n + j - 1>>
    BY <1>7, <2>1
  <2> QED BY <2>2, <2>3
<1>11. ASSUME NEW i \in n .. m - 1 PROVE <<Dhr, i>> \in Range(q)
  <2>1. i - n + 1 \in 1..d /\ n + (i - n + 1) - 1 = i
    BY <1>1
  <2>2. q[i - n + 1] = <<Dhr, i>>
    BY <1>7, <2>1
  <2> QED BY <1>7, <2>1, <2>2 DEF Range
<1>12. Range(q) = X
  BY <1>10, <1>11
<1>13. Ids(SkippedEntries(z, m)) = X
  <2>1. SkippedEntries(z, m) =
          {[id |-> <<Dhr, i>>, mk |-> Advance(z.receiving_chain_key, i - n)] : i \in n .. m - 1}
    BY <1>1 DEF SkippedEntries, skipped_key_id
  <2>2. ASSUME NEW x \in Ids(SkippedEntries(z, m)) PROVE x \in X
    <3>1. PICK e \in SkippedEntries(z, m) : x = e.id
      BY DEF Ids
    <3>2. PICK i \in n .. m - 1 :
            e = [id |-> <<Dhr, i>>, mk |-> Advance(z.receiving_chain_key, i - n)]
      BY <2>1
    <3>3. x = <<Dhr, i>>
      BY <3>1, <3>2
    <3> QED BY <3>3
  <2>3. ASSUME NEW i \in n .. m - 1 PROVE <<Dhr, i>> \in Ids(SkippedEntries(z, m))
    <3> DEFINE e == [id |-> <<Dhr, i>>, mk |-> Advance(z.receiving_chain_key, i - n)]
    <3>1. e \in SkippedEntries(z, m)
      BY <2>1
    <3>2. e.id = <<Dhr, i>>
      OBVIOUS
    <3> HIDE DEF e
    <3> QED BY <3>1, <3>2 DEF Ids
  <2>4. \A x \in X : \E i \in n .. m - 1 : x = <<Dhr, i>>
    OBVIOUS
  <2> HIDE DEF X
  <2> QED BY <2>2, <2>3, <2>4
<1>14. X \cap Ids(z.skipped_keys) = {}
  <2>1. \A i \in n .. m - 1 : <<Dhr, i>> \notin Ids(z.skipped_keys)
    BY <1>1, StartIs
  <2> QED BY <2>1
<1> HIDE DEF X, d
<1>15. Len(NewIds(z, m)) = m - n
  BY <1>2, <1>6 DEF d
<1>16. Range(NewIds(z, m)) = X
  BY <1>2, <1>12
<1> QED BY <1>2, <1>6, <1>9, <1>13, <1>14, <1>15, <1>16 DEF X

\* An entry of the keys passed, and one by one.
NewEntry(z, m) ==
    [id |-> <<Dhr, m>>, mk |-> Advance(z.receiving_chain_key, m - z.receiving_msg_number)]

LEMMA EntriesAre ==
    ASSUME NEW z, Start(z), NEW m \in Nat, m >= z.receiving_msg_number
    PROVE  /\ SkippedEntries(z, m) = {NewEntry(z, i) : i \in z.receiving_msg_number .. m - 1}
           /\ \A i \in Nat : NewEntry(z, i).id = <<Dhr, i>>
           /\ \A e \in SkippedEntries(z, m) : e.id \in {Dhr} \X Nat
           /\ \A e, f \in SkippedEntries(z, m) : e.id = f.id => e = f
           /\ SkippedEntries(z, m) \in SUBSET [id : SkippedIds, mk : MsgKeys]
           /\ IsFiniteSet(SkippedEntries(z, m))
<1> DEFINE n == z.receiving_msg_number
           T == SkippedEntries(z, m)
<1>1. n \in Nat /\ z.dhr = Dhr /\ Dhr \in PubKeys /\ z.receiving_chain_key \in ChainKeys
  BY StartIs
<1>2. T = {NewEntry(z, i) : i \in n .. m - 1}
  BY <1>1 DEF SkippedEntries, skipped_key_id, NewEntry
<1>3. \A i \in Nat : NewEntry(z, i).id = <<Dhr, i>>
  BY DEF NewEntry
<1>4. n .. m - 1 \subseteq Nat
  BY <1>1
<1>5. ASSUME NEW e \in T PROVE \E i \in Nat : e = NewEntry(z, i) /\ i >= n
  BY <1>1, <1>2
<1>6. \A i \in Nat : i >= n => NewEntry(z, i) \in [id : SkippedIds, mk : MsgKeys]
  <2> SUFFICES ASSUME NEW i \in Nat, i >= n PROVE NewEntry(z, i) \in [id : SkippedIds, mk : MsgKeys]
    OBVIOUS
  <2>1. <<Dhr, i>> \in SkippedIds
    BY <1>1 DEF SkippedIds
  <2>2. i - n \in Nat
    BY <1>1
  <2>3. Advance(z.receiving_chain_key, i - n) \in MsgKeys
    BY <1>1, <2>2 DEF Advance, MsgKeys, ChainKeys
  <2> QED BY <2>1, <2>3 DEF NewEntry
<1>7. IsFiniteSet({NewEntry(z, i) : i \in n .. m - 1})
  <2>1. IsFiniteSet(n .. m - 1)
    BY <1>1, FS_Interval
  <2> DEFINE F == [i \in n .. m - 1 |-> NewEntry(z, i)]
             V == {NewEntry(z, i) : i \in n .. m - 1}
  <2>2. F \in Surjection(n .. m - 1, V)
    BY DEF Surjection
  <2> HIDE DEF F, V
  <2>3. IsFiniteSet(V)
    BY <2>1, <2>2, FS_Surjection
  <2> QED BY <2>3 DEF V
<1>8. IsFiniteSet(T)
  BY <1>2, <1>7
<1> HIDE DEF T
<1>9. \A e \in T : e.id \in {Dhr} \X Nat
  <2>1. \A i \in Nat : NewEntry(z, i).id \in {Dhr} \X Nat
    BY <1>3
  <2> QED BY <1>5, <2>1
<1>10. ASSUME NEW e \in T, NEW f \in T, e.id = f.id PROVE e = f
  <2>1. PICK i \in Nat : e = NewEntry(z, i)
    BY <1>5
  <2>2. PICK j \in Nat : f = NewEntry(z, j)
    BY <1>5
  <2>3. <<Dhr, i>> = <<Dhr, j>>
    BY <1>3, <1>10, <2>1, <2>2
  <2>4. i = j
    BY <2>3
  <2> QED BY <2>1, <2>2, <2>4
<1>11. T \in SUBSET [id : SkippedIds, mk : MsgKeys]
  BY <1>5, <1>6
<1> QED BY <1>2, <1>3, <1>8, <1>9, <1>10, <1>11 DEF T

\* Together with those that were there.
LEMMA AllKeysAre ==
    ASSUME NEW z, Start(z), NEW m \in Nat, m >= z.receiving_msg_number
    PROVE  /\ AllKeys(z, m) \in SUBSET [id : SkippedIds, mk : MsgKeys]
           /\ IsFiniteSet(AllKeys(z, m))
           /\ \A e, f \in AllKeys(z, m) : e.id = f.id => e = f
           /\ Ids(AllKeys(z, m)) = Ids(z.skipped_keys) \cup Range(NewIds(z, m))
           /\ Ids(AllKeys(z, m)) \subseteq SkippedIds
           /\ IsFiniteSet(Ids(AllKeys(z, m)))
           /\ Cardinality(Ids(AllKeys(z, m))) = Cardinality(AllKeys(z, m))
           /\ Cardinality(AllKeys(z, m)) =
                 Cardinality(z.skipped_keys) + (m - z.receiving_msg_number)
<1> DEFINE K == z.skipped_keys
           T == SkippedEntries(z, m)
           A == AllKeys(z, m)
           d == m - z.receiving_msg_number
<1>1. /\ K \in SUBSET [id : SkippedIds, mk : MsgKeys] /\ IsFiniteSet(K)
      /\ \A e, f \in K : e.id = f.id => e = f
      /\ z.receiving_msg_number \in Nat
  BY StartIs
<1>2. /\ T \in SUBSET [id : SkippedIds, mk : MsgKeys] /\ IsFiniteSet(T)
      /\ \A e, f \in T : e.id = f.id => e = f
  BY EntriesAre
<1>3. /\ Ids(T) = Range(NewIds(z, m)) /\ Range(NewIds(z, m)) \cap Ids(K) = {}
      /\ NewIds(z, m) \in Seq(SkippedIds) /\ IsInjective(NewIds(z, m))
      /\ Len(NewIds(z, m)) = d
  BY NewIdsAre
<1>4. A = K \cup T
  BY DEF AllKeys
<1> HIDE DEF K, T, A, d
<1>5. /\ \A e \in K : e.id \in Ids(K)
      /\ \A e \in T : e.id \in Ids(T)
  BY DEF Ids
<1>6. A \in SUBSET [id : SkippedIds, mk : MsgKeys]
  BY <1>1, <1>2, <1>4
<1>7. IsFiniteSet(A)
  BY <1>1, <1>2, <1>4, FS_Union
<1>8. ASSUME NEW e \in A, NEW f \in A, e.id = f.id PROVE e = f
  BY <1>1, <1>2, <1>3, <1>4, <1>5, <1>8
<1>9. Ids(A) = Ids(K) \cup Range(NewIds(z, m))
  BY <1>3, <1>4 DEF Ids
<1>10. \A e \in A : e.id \in SkippedIds
  BY <1>6
<1>11. Ids(A) \subseteq SkippedIds
  BY <1>10 DEF Ids
<1>12. IsFiniteSet(Ids(A)) /\ Cardinality(Ids(A)) = Cardinality(A)
  BY <1>7, <1>8, CountById DEF Ids
<1>13. IsFiniteSet(Ids(K)) /\ Cardinality(Ids(K)) = Cardinality(K)
  BY <1>1, CountById DEF Ids
<1>14. IsFiniteSet(Range(NewIds(z, m))) /\ Cardinality(Range(NewIds(z, m))) = d
  BY <1>3, LenIsCardinality
<1>15. Cardinality(Ids(K) \cup Range(NewIds(z, m))) = Cardinality(K) + d
  <2>1. Cardinality(Ids(K) \cup Range(NewIds(z, m))) =
          Cardinality(Ids(K)) + Cardinality(Range(NewIds(z, m))) - Cardinality(Ids(K) \cap Range(NewIds(z, m)))
    BY <1>13, <1>14, FS_Union
  <2>2. Ids(K) \cap Range(NewIds(z, m)) = {}
    BY <1>3
  <2>3. Cardinality(Ids(K) \cap Range(NewIds(z, m))) = 0
    BY <2>2, FS_EmptySet
  <2>4. Cardinality(K) \in Nat /\ d \in Int
    BY <1>1, FS_CardinalityType DEF d
  <2> QED BY <1>13, <1>14, <2>1, <2>3, <2>4
<1>16. Cardinality(A) = Cardinality(K) + d
  BY <1>9, <1>12, <1>15
<1> QED BY <1>6, <1>7, <1>8, <1>9, <1>11, <1>12, <1>16 DEF K, A, d

\* The list, without and with the ids it lacked.
LEMMA InTurnIs ==
    ASSUME NEW z, Start(z), NEW m \in Nat, m >= z.receiving_msg_number
    PROVE  /\ InTurn(z, m) \in Seq(SkippedIds)
           /\ IsInjective(InTurn(z, m))
           /\ Range(InTurn(z, m)) \subseteq Ids(AllKeys(z, m))
           /\ Ids(AllKeys(z, m)) \ Range(InTurn(z, m)) =
                 Ids(z.skipped_keys) \ Range(z.skipped_key_order)
<1> DEFINE o == z.skipped_key_order
           q == NewIds(z, m)
           I == Ids(z.skipped_keys)
<1>1. o \in Seq(SkippedIds) /\ IsInjective(o) /\ Range(o) \subseteq I
  BY StartIs
<1>2. q \in Seq(SkippedIds) /\ IsInjective(q) /\ Range(q) \cap I = {}
  BY NewIdsAre
<1>3. Ids(AllKeys(z, m)) = I \cup Range(q)
  BY AllKeysAre
<1>4. InTurn(z, m) = o \o q
  BY DEF InTurn
<1> HIDE DEF o, q, I
<1>5. Range(o) \cap Range(q) = {}
  BY <1>1, <1>2
<1>6. o \o q \in Seq(SkippedIds) /\ IsInjective(o \o q) /\ Range(o \o q) = Range(o) \cup Range(q)
  BY <1>1, <1>2, <1>5, ConcatIs
<1>7. (I \cup Range(q)) \ (Range(o) \cup Range(q)) = I \ Range(o)
  BY <1>2
<1> QED BY <1>1, <1>3, <1>4, <1>6, <1>7 DEF o, I

LEMMA FullIs ==
    ASSUME NEW z, Start(z), NEW m \in Nat, m >= z.receiving_msg_number
    PROVE  /\ Full(z, m) \in Seq(SkippedIds)
           /\ IsInjective(Full(z, m))
           /\ Range(Full(z, m)) = Ids(AllKeys(z, m))
           /\ Len(Full(z, m)) = Cardinality(AllKeys(z, m))
           /\ Len(InTurn(z, m)) = Cardinality(AllKeys(z, m)) => Full(z, m) = InTurn(z, m)
<1> DEFINE t == InTurn(z, m)
           A == AllKeys(z, m)
           I == Ids(A)
<1>1. t \in Seq(SkippedIds) /\ IsInjective(t) /\ Range(t) \subseteq I
  BY InTurnIs
<1>2. Full(z, m) = SetToSeq(I \ Range(t)) \o t
  BY InTurnIs DEF Full
<1>3. I \subseteq SkippedIds /\ IsFiniteSet(I) /\ Cardinality(I) = Cardinality(A)
  BY AllKeysAre
<1> HIDE DEF t, I, A
<1> DEFINE q == SetToSeq(I \ Range(t)) \o t
<1>4. /\ q \in Seq(SkippedIds) /\ IsInjective(q) /\ Range(q) = I /\ Len(q) = Cardinality(I)
      /\ Len(t) = Cardinality(I) => q = t
  <2>1. /\ q \in Seq(SkippedIds) /\ IsInjective(q) /\ Range(q) = I
        /\ Len(t) = Cardinality(I) => q = t
    BY <1>1, <1>3, CompletedIs, SMTT(60)
  <2> HIDE DEF q
  <2>2. Len(q) = Cardinality(I)
    BY <2>1, LenIsCardinality
  <2> QED BY <2>1, <2>2
<1> HIDE DEF q
<1>5. Full(z, m) = q
  BY <1>2 DEF q
<1> QED BY <1>3, <1>4, <1>5 DEF t, A, I

\* One message more.
LEMMA OneMoreKey ==
    ASSUME NEW z, Start(z), NEW m \in Nat, m >= z.receiving_msg_number
    PROVE  /\ AllKeys(z, m + 1) = AllKeys(z, m) \cup {NewEntry(z, m)}
           /\ NewEntry(z, m).id = <<Dhr, m>>
           /\ <<Dhr, m>> \in SkippedIds
           /\ <<Dhr, m>> \notin Ids(AllKeys(z, m))
           /\ NewIds(z, m + 1) = Append(NewIds(z, m), <<Dhr, m>>)
<1> DEFINE n == z.receiving_msg_number
<1>1. n \in Nat /\ m + 1 \in Nat /\ m + 1 >= n /\ Dhr \in PubKeys
  BY StartIs
<1>2. n .. (m + 1) - 1 = (n .. m - 1) \cup {m}
  BY <1>1
<1>3. AllKeys(z, m + 1) = AllKeys(z, m) \cup {NewEntry(z, m)}
  <2>1. SkippedEntries(z, m) = {NewEntry(z, i) : i \in n .. m - 1}
    BY EntriesAre
  <2>2. SkippedEntries(z, m + 1) = {NewEntry(z, i) : i \in n .. (m + 1) - 1}
    BY <1>1, EntriesAre
  <2>3. {NewEntry(z, i) : i \in (n .. m - 1) \cup {m}} = {NewEntry(z, i) : i \in n .. m - 1} \cup {NewEntry(z, m)}
    OBVIOUS
  <2>4. SkippedEntries(z, m + 1) = SkippedEntries(z, m) \cup {NewEntry(z, m)}
    BY <1>2, <2>1, <2>2, <2>3
  <2> QED BY <2>4 DEF AllKeys
<1>4. NewEntry(z, m).id = <<Dhr, m>>
  BY EntriesAre
<1>5. <<Dhr, m>> \in SkippedIds
  BY <1>1 DEF SkippedIds
<1>6. <<Dhr, m>> \notin Ids(AllKeys(z, m))
  <2>1. <<Dhr, m>> \notin Ids(z.skipped_keys)
    BY StartIs
  <2>2. Range(NewIds(z, m)) = {Dhr} \X (n .. m - 1)
    BY NewIdsAre
  <2>3. m \notin n .. m - 1
    BY <1>1
  <2>4. <<Dhr, m>> \notin {Dhr} \X (n .. m - 1)
    BY <2>3
  <2> QED BY <2>1, <2>2, <2>4, AllKeysAre
<1>7. NewIds(z, m + 1) = Append(NewIds(z, m), <<Dhr, m>>)
  <2> DEFINE p == NewIds(z, m)
             q == NewIds(z, m + 1)
             d == m - n
  <2>1. p \in Seq(SkippedIds) /\ Len(p) = d /\ d \in Nat
    BY <1>1, NewIdsAre
  <2>2. q \in Seq(SkippedIds) /\ Len(q) = d + 1
    <3>1. Len(q) = (m + 1) - n /\ q \in Seq(SkippedIds)
      BY <1>1, NewIdsAre
    <3> QED BY <1>1, <3>1
  <2>3. z.dhr = Dhr
    BY StartIs
  <2>4. \A j \in 1..d : p[j] = <<Dhr, n + j - 1>>
    BY <2>3 DEF NewIds, skipped_key_id
  <2>5. \A j \in 1..d + 1 : q[j] = <<Dhr, n + j - 1>>
    <3>1. 1..d + 1 = 1..((m + 1) - n)
      BY <1>1
    <3> QED BY <2>3, <3>1 DEF NewIds, skipped_key_id
  <2>6. n + (d + 1) - 1 = m
    BY <1>1
  <2> HIDE DEF p, q, d
  <2>7. \A j \in 1..d + 1 : q[j] = Append(p, <<Dhr, m>>)[j]
    <3> SUFFICES ASSUME NEW j \in 1..d + 1 PROVE q[j] = Append(p, <<Dhr, m>>)[j]
      OBVIOUS
    <3> DEFINE x == <<Dhr, m>>
    <3>0. /\ \A i \in 1..d : Append(p, x)[i] = p[i]
          /\ Append(p, x)[d + 1] = x
      <4>1. x \in SkippedIds
        BY <1>5
      <4> HIDE DEF x
      <4> QED BY <2>1, <4>1
    <3>1. CASE j \in 1..d
      <4>1. q[j] = p[j]
        BY <2>4, <2>5, <3>1
      <4> QED BY <3>0, <3>1, <4>1
    <3>2. CASE j = d + 1
      <4>1. q[d + 1] = <<Dhr, n + (d + 1) - 1>>
        BY <2>5, <3>2
      <4>2. q[d + 1] = x
        BY <2>6, <4>1
      <4> QED BY <3>0, <3>2, <4>2
    <3> QED BY <2>1, <3>1, <3>2
  <2>8. Append(p, <<Dhr, m>>) \in Seq(SkippedIds) /\ Len(Append(p, <<Dhr, m>>)) = d + 1
    BY <1>5, <2>1
  <2>9. q = Append(p, <<Dhr, m>>)
    BY <2>1, <2>2, <2>7, <2>8, SeqEqual
  <2> QED BY <2>9 DEF p, q
<1> QED BY <1>3, <1>4, <1>5, <1>6, <1>7

\* Appending to the second of two vectors, and to one without its first elements.
LEMMA ConcatAppend ==
    ASSUME NEW S, NEW a \in Seq(S), NEW b \in Seq(S), NEW x \in S
    PROVE  a \o Append(b, x) = Append(a \o b, x)
<1> DEFINE p == a \o Append(b, x)
           q == Append(a \o b, x)
<1>1. p \in Seq(S) /\ q \in Seq(S) /\ Len(p) = Len(q)
  OBVIOUS
<1>2. ASSUME NEW i \in 1..Len(p) PROVE p[i] = q[i]
  OBVIOUS
<1> HIDE DEF p, q
<1>3. p = q
  BY <1>1, <1>2, SeqEqual
<1> QED BY <1>3 DEF p, q

LEMMA DropAppend ==
    ASSUME NEW S, NEW a \in Seq(S), NEW x \in S, NEW k \in 0..Len(a)
    PROVE  SubSeq(Append(a, x), k + 1, Len(Append(a, x))) = Append(SubSeq(a, k + 1, Len(a)), x)
<1> DEFINE p == SubSeq(Append(a, x), k + 1, Len(Append(a, x)))
           q == Append(SubSeq(a, k + 1, Len(a)), x)
<1>1. p \in Seq(S) /\ q \in Seq(S) /\ Len(p) = Len(q)
  OBVIOUS
<1>2. ASSUME NEW i \in 1..Len(p) PROVE p[i] = q[i]
  OBVIOUS
<1> HIDE DEF p, q
<1>3. p = q
  BY <1>1, <1>2, SeqEqual
<1> QED BY <1>3 DEF p, q

\* The list gets the new id at its end.
LEMMA OneMoreId ==
    ASSUME NEW z, Start(z), NEW m \in Nat, m >= z.receiving_msg_number
    PROVE  /\ InTurn(z, m + 1) = Append(InTurn(z, m), <<Dhr, m>>)
           /\ Full(z, m + 1) = Append(Full(z, m), <<Dhr, m>>)
<1> DEFINE o == z.skipped_key_order
           a == SetToSeq(Ids(z.skipped_keys) \ Range(o))
           q == NewIds(z, m)
           x == <<Dhr, m>>
<1>1. o \in Seq(SkippedIds) /\ q \in Seq(SkippedIds) /\ x \in SkippedIds
  BY StartIs, NewIdsAre, OneMoreKey
<1>2. NewIds(z, m + 1) = Append(q, x)
  BY OneMoreKey
<1>3. a \in Seq(SkippedIds)
  <2> DEFINE N == Ids(z.skipped_keys) \ Range(o)
  <2>1. /\ IsFiniteSet(z.skipped_keys) /\ \A e, f \in z.skipped_keys : e.id = f.id => e = f
        /\ z.skipped_keys \in SUBSET [id : SkippedIds, mk : MsgKeys]
    BY StartIs
  <2>2. IsFiniteSet(Ids(z.skipped_keys))
    BY <2>1, CountById DEF Ids
  <2>3. Ids(z.skipped_keys) \subseteq SkippedIds
    BY <2>1 DEF Ids
  <2>4. IsFiniteSet(N) /\ N \subseteq SkippedIds
    BY <2>2, <2>3, FS_Difference
  <2> HIDE DEF N
  <2>5. SetToSeq(N) \in Seq(N)
    BY <2>4, SetToSeqIs
  <2>6. SetToSeq(N) \in Seq(SkippedIds)
    BY <2>4, <2>5, SeqOfMore
  <2> QED BY <2>6 DEF N
<1>4. /\ InTurn(z, m) = o \o q /\ InTurn(z, m + 1) = o \o NewIds(z, m + 1)
      /\ Full(z, m) = a \o InTurn(z, m) /\ Full(z, m + 1) = a \o InTurn(z, m + 1)
  BY DEF InTurn, Full
<1> HIDE DEF o, a, q, x
<1>5. InTurn(z, m + 1) = Append(InTurn(z, m), x)
  <2>1. o \o Append(q, x) = Append(o \o q, x)
    BY <1>1, ConcatAppend
  <2> QED BY <1>2, <1>4, <2>1, Zenon
<1>6. InTurn(z, m) \in Seq(SkippedIds)
  BY InTurnIs
<1>7. a \o Append(InTurn(z, m), x) = Append(a \o InTurn(z, m), x)
  BY <1>1, <1>3, <1>6, ConcatAppend
<1>8. Full(z, m + 1) = Append(Full(z, m), x)
  BY <1>4, <1>5, <1>7
<1> QED BY <1>5, <1>8 DEF x

---------------------------------------------------------------------------
(* The first k of them evicted.                                            *)

\* The map and the list name the same keys.
LEMMA LeftIs ==
    ASSUME NEW z, Start(z), NEW m \in Nat, m >= z.receiving_msg_number,
           NEW k \in 0..Len(Full(z, m)), NEW K, NEW o, Left(z, m, k, K, o)
    PROVE  /\ o \in Seq(SkippedIds)
           /\ IsInjective(o)
           /\ Range(o) = Ids(K)
           /\ Len(o) = Len(Full(z, m)) - k
           /\ Cardinality(K) = Len(Full(z, m)) - k
           /\ K \subseteq AllKeys(z, m)
           /\ IsFiniteSet(K)
<1> DEFINE q == Full(z, m)
           A == AllKeys(z, m)
           E == {q[j] : j \in 1..k}
<1>1. q \in Seq(SkippedIds) /\ IsInjective(q) /\ Range(q) = Ids(A)
  BY FullIs
<1>2. IsFiniteSet(A) /\ \A e, f \in A : e.id = f.id => e = f
  BY AllKeysAre
<1>3. K = {e \in A : e.id \notin E} /\ o = SubSeq(q, k + 1, Len(q))
  BY DEF Left
<1>0. k \in 0..Len(q)
  OBVIOUS
<1> HIDE DEF q, A
<1>4. o \in Seq(SkippedIds) /\ Len(o) = Len(q) - k /\ IsInjective(o) /\ Range(o) = Range(q) \ E
  BY <1>0, <1>1, <1>3, DropIs
<1> HIDE DEF E
<1>5. Ids(K) = Ids(A) \ E
  BY <1>3 DEF Ids
<1>6. IsFiniteSet(K) /\ K \subseteq A
  BY <1>2, <1>3, FS_Subset
<1>7. \A e, f \in K : e.id = f.id => e = f
  BY <1>2, <1>6
<1>8. Cardinality(Ids(K)) = Cardinality(K)
  BY <1>6, <1>7, CountById DEF Ids
<1>9. Cardinality(Range(o)) = Len(o)
  BY <1>4, LenIsCardinality
<1>10. Range(o) = Ids(K)
  BY <1>1, <1>4, <1>5
<1>11. Cardinality(K) = Len(q) - k
  BY <1>4, <1>8, <1>9, <1>10
<1> QED BY <1>4, <1>6, <1>10, <1>11 DEF q, A

\* One key more leaves the others as they are.
LEMMA LeftGrows ==
    ASSUME NEW z, Start(z), NEW m \in Nat, m >= z.receiving_msg_number,
           NEW k \in 0..Len(Full(z, m)), NEW K, NEW o, Left(z, m, k, K, o)
    PROVE  Left(z, m + 1, k, K \cup {NewEntry(z, m)}, Append(o, <<Dhr, m>>))
<1> DEFINE q == Full(z, m)
           A == AllKeys(z, m)
           E == {q[j] : j \in 1..k}
           x == <<Dhr, m>>
           u == NewEntry(z, m)
<1>1. q \in Seq(SkippedIds) /\ IsInjective(q) /\ Range(q) = Ids(A)
  BY FullIs
<1>2. K = {e \in A : e.id \notin E} /\ o = SubSeq(q, k + 1, Len(q))
  BY DEF Left
<1>3. x \in SkippedIds /\ x \notin Ids(A) /\ u.id = x /\ AllKeys(z, m + 1) = A \cup {u}
  BY OneMoreKey
<1>4. Full(z, m + 1) = Append(q, x)
  BY OneMoreId
<1>0. k \in 0..Len(q)
  OBVIOUS
<1> HIDE DEF q, A, x, u
<1>5. SubSeq(Append(q, x), k + 1, Len(Append(q, x))) = Append(o, x)
  BY <1>0, <1>1, <1>2, <1>3, DropAppend
<1>6. \A j \in 1..k : j \in DOMAIN q /\ Append(q, x)[j] = q[j]
  BY <1>0, <1>1, <1>3
<1>7. {Append(q, x)[j] : j \in 1..k} = E
  BY <1>6
<1>8. x \notin E
  <2>1. \A j \in 1..k : q[j] \in Range(q)
    BY <1>6 DEF Range
  <2> QED BY <1>1, <1>3, <2>1
<1> HIDE DEF E
<1>9. {e \in A \cup {u} : e.id \notin E} = K \cup {u}
  BY <1>2, <1>3, <1>8
<1>10. Left(z, m + 1, k, K \cup {u}, Append(o, x))
  BY <1>3, <1>4, <1>5, <1>7, <1>9 DEF Left
<1> QED BY <1>10 DEF x, u

\* Evicting the oldest of them.
LEMMA LeftShrinks ==
    ASSUME NEW z, Start(z), NEW m \in Nat, m >= z.receiving_msg_number,
           NEW k \in Nat, k < Len(Full(z, m)), NEW K, NEW o, Left(z, m, k, K, o)
    PROVE  /\ o # <<>>
           /\ Left(z, m, k + 1, {e \in K : e.id # Head(o)}, Tail(o))
<1> DEFINE q == Full(z, m)
           A == AllKeys(z, m)
           E == {q[j] : j \in 1..k}
           F == {q[j] : j \in 1..k + 1}
<1>1. q \in Seq(SkippedIds)
  BY FullIs
<1>2. K = {e \in A : e.id \notin E} /\ o = SubSeq(q, k + 1, Len(q))
  BY DEF Left
<1>0. k \in Nat /\ k < Len(q) /\ Len(q) \in Nat
  BY <1>1
<1> HIDE DEF q, A
<1>3. o # <<>> /\ Head(o) = q[k + 1] /\ Tail(o) = SubSeq(q, (k + 1) + 1, Len(q))
  <2>1. o \in Seq(SkippedIds) /\ Len(o) = Len(q) - k /\ \A i \in 1..Len(q) - k : o[i] = q[k + i]
    BY <1>0, <1>1, <1>2
  <2>2. o # <<>> /\ Head(o) = q[k + 1]
    BY <1>0, <2>1
  <2> DEFINE p == Tail(o)
             r == SubSeq(q, (k + 1) + 1, Len(q))
  <2>3. p \in Seq(SkippedIds) /\ Len(p) = Len(q) - (k + 1) /\ \A i \in 1..Len(q) - (k + 1) : p[i] = o[i + 1]
    BY <1>0, <2>1, <2>2
  <2>4. r \in Seq(SkippedIds) /\ Len(r) = Len(q) - (k + 1) /\ \A i \in 1..Len(q) - (k + 1) : r[i] = q[(k + 1) + i]
    BY <1>0, <1>1
  <2> HIDE DEF p, r
  <2>5. ASSUME NEW i \in 1..Len(p) PROVE p[i] = r[i]
    <3>1. i + 1 \in 1..Len(q) - k /\ k + (i + 1) = (k + 1) + i
      BY <1>0, <2>3
    <3> QED BY <2>1, <2>3, <2>4, <3>1
  <2>6. p = r
    BY <2>3, <2>4, <2>5, SeqEqual
  <2> QED BY <2>2, <2>6 DEF p, r
<1>4. 1..k + 1 = (1..k) \cup {k + 1}
  BY <1>0
<1>5. F = E \cup {q[k + 1]}
  BY <1>4
<1> HIDE DEF E, F
<1>6. {e \in K : e.id # Head(o)} = {e \in A : e.id \notin F}
  BY <1>2, <1>3, <1>5
<1> QED BY <1>3, <1>6 DEF Left, q, A, F

---------------------------------------------------------------------------
(* What skip_message_keys says.                                            *)

LEMMA WithIs ==
    ASSUME NEW z \in RatchetState, NEW K, NEW o, NEW n, NEW c
    PROVE  /\ With(z, K, o, n, c).skipped_keys = K
           /\ With(z, K, o, n, c).skipped_key_order = o
           /\ With(z, K, o, n, c).receiving_msg_number = n
           /\ With(z, K, o, n, c).receiving_chain_key = c
           /\ With(z, K, o, n, c).dhr = z.dhr
           /\ z = With(z, z.skipped_keys, z.skipped_key_order, z.receiving_msg_number,
                       z.receiving_chain_key)
BY DEF With, RatchetState

LEMMA WithBank ==
    ASSUME NEW z \in RatchetState, NEW K, NEW o, NEW n, NEW c, NEW L, NEW q
    PROVE  [With(z, K, o, n, c) EXCEPT !.skipped_keys = L, !.skipped_key_order = q] =
              With(z, L, q, n, c)
BY DEF With, RatchetState

LEMMA WithOrder ==
    ASSUME NEW z \in RatchetState, NEW K, NEW o, NEW n, NEW c, NEW q
    PROVE  [With(z, K, o, n, c) EXCEPT !.skipped_key_order = q] = With(z, K, q, n, c)
BY DEF With, RatchetState

LEMMA WithNumber ==
    ASSUME NEW z \in RatchetState, NEW K, NEW o, NEW n, NEW c, NEW m
    PROVE  [With(z, K, o, n, c) EXCEPT !.receiving_msg_number = m] = With(z, K, o, m, c)
BY DEF With, RatchetState

LEMMA WithChain ==
    ASSUME NEW z \in RatchetState, NEW K, NEW o, NEW n, NEW c, NEW m, NEW d
    PROVE  /\ [With(z, K, o, n, c) EXCEPT !.receiving_chain_key = d] = With(z, K, o, n, d)
           /\ [With(z, K, o, n, c) EXCEPT !.receiving_msg_number = m, !.receiving_chain_key = d] =
                 With(z, K, o, m, d)
BY DEF With, RatchetState

\* The keys all banked: the ids that had no place in the list get theirs in
\* front.
LEMMA AdoptedIs ==
    ASSUME NEW z, Start(z), NEW m \in Nat, m >= z.receiving_msg_number, NEW n, NEW c
    PROVE  adopt_unordered_skipped_keys(With(z, AllKeys(z, m), InTurn(z, m), n, c)) =
              With(z, AllKeys(z, m), Full(z, m), n, c)
<1> DEFINE A == AllKeys(z, m)
           q == InTurn(z, m)
           w == With(z, A, q, n, c)
<1>1. z \in RatchetState
  BY DEF Start
<1>2. w.skipped_keys = A /\ w.skipped_key_order = q
  BY <1>1, WithIs
<1>3. Full(z, m) = SetToSeq(Ids(A) \ Range(q)) \o q
  BY InTurnIs DEF Full
<1>4. Len(q) = Cardinality(A) => Full(z, m) = q
  BY FullIs
<1>5. [w EXCEPT !.skipped_key_order = Full(z, m)] = With(z, A, Full(z, m), n, c)
  BY <1>1, WithOrder
<1> HIDE DEF A, q
<1>6. CASE Len(q) = Cardinality(A)
  <2>1. adopt_unordered_skipped_keys(w) = w
    <3> HIDE DEF w
    <3> QED BY <1>2, <1>6 DEF adopt_unordered_skipped_keys
  <2> QED BY <1>4, <1>6, <2>1 DEF A, q
<1>7. CASE Len(q) # Cardinality(A)
  <2> HIDE DEF w
  <2>1. adopt_unordered_skipped_keys(w) = [w EXCEPT !.skipped_key_order = Full(z, m)]
    <3>1. adopt_unordered_skipped_keys(w) =
            [w EXCEPT !.skipped_key_order = SetToSeq(Ids(A) \ Range(q)) \o w.skipped_key_order]
      BY <1>2, <1>7 DEF adopt_unordered_skipped_keys
    <3> QED BY <1>2, <1>3, <3>1
  <2> QED BY <1>5, <2>1 DEF w, A, q
<1> QED BY <1>6, <1>7

\* A list that has them all stays.
LEMMA AdoptedStays ==
    ASSUME NEW z \in RatchetState, NEW K, NEW o, NEW n, NEW c, Len(o) = Cardinality(K)
    PROVE  adopt_unordered_skipped_keys(With(z, K, o, n, c)) = With(z, K, o, n, c)
<1> DEFINE w == With(z, K, o, n, c)
<1>1. w.skipped_keys = K /\ w.skipped_key_order = o
  BY WithIs
<1> HIDE DEF w
<1>2. adopt_unordered_skipped_keys(w) = w
  BY <1>1 DEF adopt_unordered_skipped_keys
<1> QED BY <1>2 DEF w

\* evict_oldest_skipped_keys, once.
LEMMA EvictedOnce ==
    ASSUME NEW z, Start(z), NEW m \in Nat, m > z.receiving_msg_number, NEW n, NEW c,
           NEW K, NEW o, Skipped(z, m, K, o)
    PROVE  evict_oldest_skipped_keys(With(z, AllKeys(z, m), InTurn(z, m), n, c)) = With(z, K, o, n, c)
<1> DEFINE A == AllKeys(z, m)
           q == InTurn(z, m)
           w == With(z, A, q, n, c)
           x == Excess(z, m)
           u == Full(z, m)
<1>0. /\ z \in RatchetState /\ z.receiving_msg_number \in Nat /\ m >= z.receiving_msg_number
      /\ m # z.receiving_msg_number
  BY StartIs DEF Start
<1>1. w.skipped_keys = A /\ w.skipped_key_order = q
  BY <1>0, WithIs
<1>2. x = Cardinality(A) - MAX_SKIPPED_KEYS /\ Cardinality(A) \in Int /\ MAX_SKIPPED_KEYS \in Nat
  <2>1. Cardinality(z.skipped_keys) \in Nat
    BY StartIs, FS_CardinalityType
  <2>2. Cardinality(A) = Cardinality(z.skipped_keys) + (m - z.receiving_msg_number)
    BY <1>0, AllKeysAre
  <2> HIDE DEF A
  <2> QED BY <1>0, <2>1, <2>2, LimitsAssumption DEF Excess
<1>3. adopt_unordered_skipped_keys(w) = With(z, A, u, n, c)
  BY <1>0, AdoptedIs
<1>4. With(z, A, u, n, c).skipped_key_order = u
  BY <1>0, WithIs
<1>5. CASE x <= 0
  <2>1. K = A /\ o = q
    BY <1>5 DEF Skipped
  <2>2. Cardinality(A) <= MAX_SKIPPED_KEYS
    <3> HIDE DEF A, x
    <3> QED BY <1>2, <1>5
  <2>3. evict_oldest_skipped_keys(w) = w
    <3> HIDE DEF w, A
    <3> QED BY <1>1, <2>2 DEF evict_oldest_skipped_keys
  <2> QED BY <2>1, <2>3
<1>6. CASE ~(x <= 0)
  <2>1. Left(z, m, x, K, o)
    BY <1>0, <1>6 DEF Skipped
  <2> DEFINE E == {u[j] : j \in 1..x}
  <2>2. K = {e \in A : e.id \notin E} /\ o = SubSeq(u, x + 1, Len(u))
    BY <2>1 DEF Left
  <2>3. ~(Cardinality(A) <= MAX_SKIPPED_KEYS)
    <3> HIDE DEF A, x
    <3> QED BY <1>2, <1>6
  <2>4. [w EXCEPT !.skipped_keys = K, !.skipped_key_order = o] = With(z, K, o, n, c)
    <3> HIDE DEF A, q, x, u, E
    <3>1. z \in RatchetState
      BY <1>0
    <3> QED BY <3>1 DEF With, RatchetState
  <2>5. adopt_unordered_skipped_keys(w).skipped_key_order = u
    BY <1>3, <1>4
  <2> HIDE DEF w, A, x, u
  <2>6. evict_oldest_skipped_keys(w) =
          [w EXCEPT !.skipped_keys = {e \in w.skipped_keys : e.id \notin E},
                    !.skipped_key_order = SubSeq(u, x + 1, Len(u))]
    BY <1>1, <1>2, <2>3, <2>5 DEF evict_oldest_skipped_keys
  <2>7. evict_oldest_skipped_keys(w) = [w EXCEPT !.skipped_keys = K, !.skipped_key_order = o]
    BY <1>1, <2>2, <2>6
  <2> QED BY <2>4, <2>7 DEF w, A
<1> QED BY <1>5, <1>6

\* All of it: the bank of the head of the loop, and the chain advanced.
LEMMA SkipIs ==
    ASSUME NEW z, Start(z), NEW m \in Nat, m > z.receiving_msg_number,
           z.receiving_msg_number + MAX_SKIP >= m,
           NEW K, NEW o, Skipped(z, m, K, o)
    PROVE  skip_message_keys(z, m) =
              Ok(With(z, K, o, m, Advance(z.receiving_chain_key, m - z.receiving_msg_number)))
<1> DEFINE n == z.receiving_msg_number
           c == z.receiving_chain_key
           q == NewIds(z, m)
           T == SkippedEntries(z, m)
           I == Ids(z.skipped_keys)
           d == Advance(c, m - n)
<1>0. z \in RatchetState /\ n \in Nat /\ m >= n /\ MAX_SKIP \in Nat /\ c # None /\ z.dhr # None
  BY StartIs, NoneAssumption, LimitsAssumption DEF Start
<1>1. q \in Seq(SkippedIds) /\ Range(q) = Ids(T) /\ Range(q) \cap I = {}
  BY <1>0, NewIdsAre
<1>2. retain(q, Range(q) \ I) = q
  <2> HIDE DEF q, T, I
  <2>1. Range(q) \subseteq Range(q) \ I
    BY <1>1
  <2> QED BY <1>1, <2>1, RetainAll
<1>3. {e \in z.skipped_keys : e.id \notin Ids(T)} \cup T = AllKeys(z, m)
  <2>1. \A e \in z.skipped_keys : e.id \in I
    BY DEF Ids
  <2>2. I \cap Ids(T) = {}
    BY <1>1
  <2> HIDE DEF I
  <2>3. {e \in z.skipped_keys : e.id \notin Ids(T)} = z.skipped_keys
    BY <2>1, <2>2
  <2> QED BY <2>3 DEF AllKeys
<1>4. bank_skipped_keys(z, m) =
        evict_oldest_skipped_keys(
            [z EXCEPT !.skipped_keys = {e \in z.skipped_keys : e.id \notin Ids(T)} \cup T,
                      !.skipped_key_order = z.skipped_key_order \o retain(q, Range(q) \ I)])
  BY DEF bank_skipped_keys, NewIds
<1>5. [z EXCEPT !.skipped_keys = AllKeys(z, m), !.skipped_key_order = InTurn(z, m)] =
        With(z, AllKeys(z, m), InTurn(z, m), n, c)
  <2> DEFINE A == AllKeys(z, m)
             t == InTurn(z, m)
  <2> HIDE DEF A, t
  <2>1. [z EXCEPT !.skipped_keys = A, !.skipped_key_order = t] = With(z, A, t, n, c)
    BY <1>0 DEF With, RatchetState
  <2> QED BY <2>1 DEF A, t
<1>6. bank_skipped_keys(z, m) = evict_oldest_skipped_keys(With(z, AllKeys(z, m), InTurn(z, m), n, c))
  <2>1. z.skipped_key_order \o retain(q, Range(q) \ I) = InTurn(z, m)
    BY <1>2 DEF InTurn
  <2> QED BY <1>3, <1>4, <1>5, <2>1
<1>7. bank_skipped_keys(z, m) = With(z, K, o, n, c)
  BY <1>0, <1>6, EvictedOnce
<1>8. [With(z, K, o, n, c) EXCEPT !.receiving_msg_number = m, !.receiving_chain_key = d] =
        With(z, K, o, m, d)
  <2> HIDE DEF n, c, d
  <2> QED BY <1>0 DEF With, RatchetState
<1>9. ~(n + MAX_SKIP < m) /\ ~(m <= n)
  BY <1>0
<1>10. skip_message_keys(z, m) =
         Ok([bank_skipped_keys(z, m) EXCEPT !.receiving_msg_number = m, !.receiving_chain_key = d])
  BY <1>0, <1>9, Zenon DEF skip_message_keys
<1> HIDE DEF d
<1>11. skip_message_keys(z, m) = Ok(With(z, K, o, m, d))
  BY <1>7, <1>8, <1>10
<1> QED BY <1>11 DEF d

---------------------------------------------------------------------------
(* The steps.                                                              *)

\* The state at the head of the loop.
LEMMA SkippedKeys ==
    ASSUME NEW z, Start(z), NEW m \in Nat, m >= z.receiving_msg_number,
           NEW K, NEW o, Skipped(z, m, K, o)
    PROVE  K \subseteq AllKeys(z, m) /\ <<Dhr, m>> \notin Ids(K)
<1>1. K \subseteq AllKeys(z, m)
  BY DEF Skipped, Left
<1>2. <<Dhr, m>> \notin Ids(AllKeys(z, m))
  BY OneMoreKey
<1> QED BY <1>1, <1>2 DEF Ids

\* How many there are, and how many too many.
LEMMA ExcessIs ==
    ASSUME NEW z, Start(z), NEW m \in Nat, m >= z.receiving_msg_number
    PROVE  /\ Len(Full(z, m)) \in Nat
           /\ MAX_SKIPPED_KEYS \in Nat
           /\ Cardinality(AllKeys(z, m)) = Len(Full(z, m))
           /\ Excess(z, m) = Len(Full(z, m)) - MAX_SKIPPED_KEYS
           /\ Excess(z, m + 1) = Excess(z, m) + 1
           /\ Len(Full(z, m + 1)) = Len(Full(z, m)) + 1
<1>1. Cardinality(z.skipped_keys) \in Nat /\ z.receiving_msg_number \in Nat
  BY StartIs, FS_CardinalityType
<1>2. Cardinality(AllKeys(z, m)) = Cardinality(z.skipped_keys) + (m - z.receiving_msg_number)
  BY AllKeysAre
<1>3. Len(Full(z, m)) = Cardinality(AllKeys(z, m))
  BY FullIs
<1>4. m + 1 >= z.receiving_msg_number
  BY <1>1
<1>5. Cardinality(AllKeys(z, m + 1)) = Cardinality(z.skipped_keys) + ((m + 1) - z.receiving_msg_number)
  BY <1>4, AllKeysAre
<1>6. Len(Full(z, m + 1)) = Cardinality(AllKeys(z, m + 1))
  BY <1>4, FullIs
<1> DEFINE c == Cardinality(z.skipped_keys)
           n == z.receiving_msg_number
           a == Cardinality(AllKeys(z, m))
           b == Cardinality(AllKeys(z, m + 1))
           x == Excess(z, m)
           y == Excess(z, m + 1)
           cap == MAX_SKIPPED_KEYS
<1>7. c \in Nat /\ n \in Nat /\ m >= n /\ cap \in Nat
  BY <1>1, LimitsAssumption
<1>8. a = c + (m - n) /\ b = c + ((m + 1) - n)
  BY <1>2, <1>5
<1>9. x = c + (m - n) - cap /\ y = c + ((m + 1) - n) - cap
  BY DEF Excess
<1> HIDE DEF c, n, a, b, x, y, cap
<1>10. a \in Nat /\ x = a - cap /\ y = x + 1 /\ b = a + 1
  BY <1>7, <1>8, <1>9
<1> QED BY <1>3, <1>6, <1>7, <1>10 DEF a, b, x, y, cap

\* One more key in the bank: either it fits, or the list has its ids in full and
\* eviction is under way.
Grown(z, m, L, q, n, c) ==
    /\ Cardinality(L) <= MAX_SKIPPED_KEYS => Skipped(z, m + 1, L, q)
    /\ ~(Cardinality(L) <= MAX_SKIPPED_KEYS) =>
          \E u : /\ adopt_unordered_skipped_keys(With(z, L, q, n, c)) = With(z, L, u, n, c)
                 /\ Evicting(z, m + 1, L, u)

LEMMA BankedOne ==
    ASSUME NEW z, Start(z), NEW m \in Nat, m >= z.receiving_msg_number,
           NEW K, NEW o, Skipped(z, m, K, o), NEW n, NEW c
    PROVE  Grown(z, m, K \cup {NewEntry(z, m)}, Append(o, <<Dhr, m>>), n, c)
<1> DEFINE L == K \cup {NewEntry(z, m)}
           q == Append(o, <<Dhr, m>>)
           x == Excess(z, m)
           y == Excess(z, m + 1)
           l == Len(Full(z, m))
           l1 == Len(Full(z, m + 1))
           cap == MAX_SKIPPED_KEYS
<1>0. /\ z \in RatchetState /\ z.receiving_msg_number \in Nat /\ m + 1 \in Nat
      /\ m + 1 >= z.receiving_msg_number /\ m + 1 > z.receiving_msg_number
  BY StartIs DEF Start
<1>1. /\ l \in Nat /\ l1 = l + 1 /\ cap \in Nat /\ x = l - cap /\ y = x + 1
      /\ Cardinality(AllKeys(z, m + 1)) = l1
  <2>1. Cardinality(AllKeys(z, m + 1)) = l1
    BY <1>0, ExcessIs
  <2> QED BY <2>1, ExcessIs
<1>2. CASE m = z.receiving_msg_number \/ x <= 0
  <2>1. K = AllKeys(z, m) /\ o = InTurn(z, m)
    BY <1>2 DEF Skipped
  <2>2. L = AllKeys(z, m + 1) /\ q = InTurn(z, m + 1)
    BY <2>1, OneMoreKey, OneMoreId
  <2>3. Cardinality(L) = l1
    BY <1>1, <2>2
  <2>4. ASSUME Cardinality(L) <= cap PROVE Skipped(z, m + 1, L, q)
    <3>1. y <= 0
      <4> HIDE DEF L, x, y, l, l1, cap
      <4> QED BY <1>1, <2>3, <2>4
    <3> HIDE DEF L, q
    <3> QED BY <2>2, <3>1 DEF Skipped
  <2>5. ASSUME ~(Cardinality(L) <= cap)
        PROVE  \E u : /\ adopt_unordered_skipped_keys(With(z, L, q, n, c)) = With(z, L, u, n, c)
                      /\ Evicting(z, m + 1, L, u)
    <3> DEFINE u == Full(z, m + 1)
    <3>1. adopt_unordered_skipped_keys(With(z, L, q, n, c)) = With(z, L, u, n, c)
      <4> HIDE DEF L, q
      <4> QED BY <1>0, <2>2, AdoptedIs
    <3>2. 0 <= y /\ y > 0
      <4> HIDE DEF L, x, y, l, l1, cap
      <4> QED BY <1>1, <2>3, <2>5
    <3>3. Left(z, m + 1, 0, L, u)
      <4>1. u \in Seq(SkippedIds)
        BY <1>0, FullIs
      <4>2. \A j : j \notin 1..0
        OBVIOUS
      <4>3. {u[j] : j \in 1..0} = {}
        BY <4>2
      <4> HIDE DEF u
      <4>4. SubSeq(u, 0 + 1, Len(u)) = u
        BY <4>1
      <4> HIDE DEF L
      <4>5. L = {e \in AllKeys(z, m + 1) : e.id \notin {u[j] : j \in 1..0}}
        BY <2>2, <4>3
      <4> QED BY <4>4, <4>5 DEF Left, u
    <3> HIDE DEF L, q, u, y
    <3>4. Evicting(z, m + 1, L, u)
      BY <3>2, <3>3 DEF Evicting, y
    <3> QED BY <3>1, <3>4
  <2> HIDE DEF L, q
  <2>6. Grown(z, m, L, q, n, c)
    BY <2>4, <2>5 DEF Grown
  <2> QED BY <2>6 DEF L, q
<1>3. CASE ~(m = z.receiving_msg_number \/ x <= 0)
  <2>1. Left(z, m, x, K, o)
    BY <1>3 DEF Skipped
  <2>2. x \in 0..l /\ x \in 0..l1 /\ x > 0 /\ x \in Nat
    <3> HIDE DEF x, l, l1, cap
    <3> QED BY <1>1, <1>3
  <2>3. Left(z, m + 1, x, L, q)
    BY <2>1, <2>2, LeftGrows
  <2> HIDE DEF L, q
  <2>4. Cardinality(L) = l1 - x /\ Len(q) = l1 - x
    <3>1. x \in 0..Len(Full(z, m + 1))
      BY <2>2
    <3> HIDE DEF x
    <3> QED BY <1>0, <2>3, <3>1, LeftIs
  <2>5. ~(Cardinality(L) <= cap) /\ x <= y /\ y > 0
    <3> HIDE DEF x, y, l, l1, cap
    <3> QED BY <1>1, <2>2, <2>4
  <2>6. adopt_unordered_skipped_keys(With(z, L, q, n, c)) = With(z, L, q, n, c)
    BY <1>0, <2>4, AdoptedStays
  <2> HIDE DEF x, y
  <2>7. Evicting(z, m + 1, L, q)
    BY <2>2, <2>3, <2>5 DEF Evicting, y
  <2>8. Grown(z, m, L, q, n, c)
    BY <2>5, <2>6, <2>7 DEF Grown
  <2> QED BY <2>8 DEF L, q
<1> QED BY <1>2, <1>3

\* One key evicted.
LEMMA EvictedOne ==
    ASSUME NEW z, Start(z), NEW m \in Nat, m >= z.receiving_msg_number,
           NEW K, NEW o, Evicting(z, m, K, o), Cardinality(K) > MAX_SKIPPED_KEYS
    PROVE  o # <<>> /\ Evicting(z, m, {e \in K : e.id # Head(o)}, Tail(o))
<1> DEFINE l == Len(Full(z, m))
           x == Excess(z, m)
           cap == MAX_SKIPPED_KEYS
<1>1. PICK k \in Nat : k <= x /\ x > 0 /\ Left(z, m, k, K, o)
  BY DEF Evicting
<1>2. l \in Nat /\ cap \in Nat /\ x = l - cap
  BY ExcessIs
<1>3. k \in 0..l
  <2> HIDE DEF l, x, cap
  <2> QED BY <1>1, <1>2
<1>4. Cardinality(K) = l - k
  BY <1>1, <1>3, LeftIs
<1>5. k < l /\ k + 1 \in Nat /\ k + 1 <= x
  <2>1. Cardinality(K) > cap
    OBVIOUS
  <2> HIDE DEF l, x, cap
  <2> QED BY <1>1, <1>2, <1>4, <2>1
<1>6. o # <<>> /\ Left(z, m, k + 1, {e \in K : e.id # Head(o)}, Tail(o))
  BY <1>1, <1>5, LeftShrinks
<1> HIDE DEF x
<1> QED BY <1>1, <1>5, <1>6 DEF Evicting, x

\* Nothing more to evict.
LEMMA EvictedAll ==
    ASSUME NEW z, Start(z), NEW m \in Nat, m > z.receiving_msg_number,
           NEW K, NEW o, Evicting(z, m, K, o), ~(Cardinality(K) > MAX_SKIPPED_KEYS)
    PROVE  Skipped(z, m, K, o)
<1> DEFINE l == Len(Full(z, m))
           x == Excess(z, m)
           cap == MAX_SKIPPED_KEYS
<1>0. z.receiving_msg_number \in Nat /\ m >= z.receiving_msg_number /\ m # z.receiving_msg_number
  BY StartIs
<1>1. PICK k \in Nat : k <= x /\ x > 0 /\ Left(z, m, k, K, o)
  BY DEF Evicting
<1>2. l \in Nat /\ cap \in Nat /\ x = l - cap
  BY <1>0, ExcessIs
<1>3. k \in 0..l
  <2> HIDE DEF l, x, cap
  <2> QED BY <1>1, <1>2
<1>4. Cardinality(K) = l - k
  BY <1>0, <1>1, <1>3, LeftIs
<1>5. k = x /\ ~(x <= 0)
  <2>1. ~(Cardinality(K) > cap)
    OBVIOUS
  <2> HIDE DEF l, x, cap
  <2> QED BY <1>1, <1>2, <1>4, <2>1
<1> HIDE DEF x
<1>6. Left(z, m, x, K, o)
  BY <1>1, <1>5
<1> QED BY <1>0, <1>5, <1>6 DEF Skipped, x

\* Before the first key.
LEMMA NothingYet ==
    ASSUME NEW z, Start(z)
    PROVE  LET n == z.receiving_msg_number
           IN  /\ Advance(z.receiving_chain_key, n - n) = z.receiving_chain_key
               /\ AllKeys(z, n) = z.skipped_keys
               /\ InTurn(z, n) = z.skipped_key_order
               /\ Skipped(z, n, z.skipped_keys, z.skipped_key_order)
<1> DEFINE n == z.receiving_msg_number
           c == z.receiving_chain_key
           o == z.skipped_key_order
<1>1. n \in Nat /\ c \in ChainKeys /\ o \in Seq(SkippedIds)
  BY StartIs
<1>2. Advance(c, n - n) = c
  <2> HIDE DEF c, n
  <2>1. n - n = 0
    BY <1>1
  <2> QED BY <1>1, <2>1 DEF Advance, ChainKeys
<1>3. AllKeys(z, n) = z.skipped_keys
  <2>1. n .. n - 1 = {}
    BY <1>1
  <2>2. SkippedEntries(z, n) = {}
    BY <1>1, <2>1, EntriesAre
  <2> QED BY <2>2 DEF AllKeys
<1>4. InTurn(z, n) = o
  <2> DEFINE q == NewIds(z, n)
  <2>1. q \in Seq(SkippedIds) /\ Len(q) = n - n
    BY <1>1, NewIdsAre
  <2>2. InTurn(z, n) = o \o q
    BY DEF InTurn
  <2> HIDE DEF q, o, n
  <2>3. q = <<>>
    BY <1>1, <2>1
  <2> QED BY <1>1, <2>2, <2>3
<1>5. Skipped(z, n, z.skipped_keys, z.skipped_key_order)
  BY <1>3, <1>4 DEF Skipped
<1> QED BY <1>2, <1>3, <1>4, <1>5

LEMMA InitLoop ==
    ASSUME Init
    PROVE  LoopInv
<1>0. start.receiving_msg_number + MAX_SKIP >= until /\ until \in 0..MaxUntil /\ s = start
      /\ ck = start.receiving_chain_key /\ pc = "skip"
  BY Zenon DEF Init
<1> DEFINE From(n, ids, order) ==
             start = [init_responder(<<"responder", 0>>) EXCEPT
                   !.dhr = Dhr,
                   !.receiving_msg_number = n,
                   !.receiving_chain_key = [rk |-> <<{Dhr}>>, i |-> n],
                   !.skipped_keys = {[id |-> id, mk |-> [rk |-> <<{id[1]}>>, i |-> id[2]]] :
                                        id \in ids},
                   !.skipped_key_order = order]
<1>a. PICK n \in 0..MaxPassed :
         \E ids \in SUBSET (OldIds \cup ({Dhr} \X (0..n-1))) :
         \E ordered \in SUBSET ids : \E order \in SetToSeqs(ordered) : From(n, ids, order)
  BY Zenon DEF Init
<1> HIDE DEF From
<1>b. PICK ids \in SUBSET (OldIds \cup ({Dhr} \X (0..n-1))) :
         \E ordered \in SUBSET ids : \E order \in SetToSeqs(ordered) : From(n, ids, order)
  BY <1>a
<1>c. PICK ordered \in SUBSET ids : \E order \in SetToSeqs(ordered) : From(n, ids, order)
  BY <1>b
<1>1. PICK order \in SetToSeqs(ordered) : From(n, ids, order)
  BY <1>c
<1> DEFINE Entry(id) == [id |-> id, mk |-> [rk |-> <<{id[1]}>>, i |-> id[2]]]
           K == {Entry(id) : id \in ids}
           c == [rk |-> <<{Dhr}>>, i |-> n]
<1>2. /\ start.root_key = <<>> /\ start.dhs = <<"responder", 0>>
      /\ start.sending_chain_key = None /\ start.sending_msg_number = 0
      /\ start.previous_sending_chain_length = 0 /\ start.retired_peer_dh_keys = <<>>
      /\ start.dhr = Dhr /\ start.receiving_msg_number = n /\ start.receiving_chain_key = c
      /\ start.skipped_keys = K /\ start.skipped_key_order = order
      /\ start = [root_key |-> <<>>, dhs |-> <<"responder", 0>>, dhr |-> Dhr,
                  sending_chain_key |-> None, receiving_chain_key |-> c,
                  sending_msg_number |-> 0, receiving_msg_number |-> n,
                  previous_sending_chain_length |-> 0, skipped_keys |-> K,
                  skipped_key_order |-> order, retired_peer_dh_keys |-> <<>>]
  <2> HIDE DEF K, c
  <2>1. start = [init_responder(<<"responder", 0>>) EXCEPT
                   !.dhr = Dhr, !.receiving_msg_number = n, !.receiving_chain_key = c,
                   !.skipped_keys = K, !.skipped_key_order = order]
    BY <1>1, Zenon DEF K, c, From
  <2> QED BY <2>1 DEF init_responder
<1>3. n \in Nat /\ until \in Nat /\ MAX_SKIP \in Nat
  BY <1>0, LoopAssumption, LimitsAssumption
<1>4. Dhr \in PubKeys /\ <<"responder", 0>> \in PubKeys
  BY DEF Dhr, PubKeys, Party
<1>5. \A id \in ids : id \in SkippedIds
  <2>1. \A i \in 0..n-1 : <<Dhr, i>> \in SkippedIds
    BY <1>3, <1>4 DEF SkippedIds
  <2> QED BY <2>1, LoopAssumption
<1>6. \A id \in ids : Entry(id) \in [id : SkippedIds, mk : MsgKeys] /\ Entry(id).id = id
  <2> SUFFICES ASSUME NEW id \in ids
               PROVE  Entry(id) \in [id : SkippedIds, mk : MsgKeys] /\ Entry(id).id = id
    OBVIOUS
  <2>1. id \in SkippedIds /\ id[1] \in PubKeys /\ id[2] \in Nat
    BY <1>5 DEF SkippedIds
  <2>2. <<{id[1]}>> \in RootKeys
    BY <2>1 DEF RootKeys
  <2> QED BY <2>1, <2>2 DEF MsgKeys, ChainKeys
<1>7. IsFiniteSet(ids)
  <2>1. IsFiniteSet(0..n-1)
    BY <1>3, FS_Interval
  <2>2. IsFiniteSet({Dhr})
    BY FS_Singleton
  <2>3. IsFiniteSet({Dhr} \X (0..n-1))
    BY <2>1, <2>2, FS_Product
  <2>4. IsFiniteSet(OldIds \cup ({Dhr} \X (0..n-1)))
    BY <2>3, LoopAssumption, FS_Union
  <2> QED BY <2>4, FS_Subset
<1> HIDE DEF Entry
<1>8. IsFiniteSet(K) /\ \A e, f \in K : e.id = f.id => e = f
  <2>1. \A e, f \in K : e.id = f.id => e = f
    BY <1>6
  <2> DEFINE F == [id \in ids |-> Entry(id)]
  <2>2. F \in Surjection(ids, K)
    BY DEF Surjection
  <2> HIDE DEF F, K
  <2>3. IsFiniteSet(K)
    BY <1>7, <2>2, FS_Surjection
  <2> QED BY <2>1, <2>3 DEF K
<1>9. Ids(K) = ids /\ K \in SUBSET [id : SkippedIds, mk : MsgKeys]
  BY <1>6 DEF Ids
<1>10. order \in Seq(SkippedIds) /\ IsInjective(order) /\ Range(order) \subseteq ids
  <2> DEFINE d == Cardinality(ordered)
  <2>1. d \in Nat
    BY <1>7, FS_Subset, FS_CardinalityType
  <2>2. order \in [1..d -> ordered] /\ \A i, j \in 1..d : i # j => order[i] # order[j]
    BY DEF SetToSeqs
  <2> HIDE DEF d
  <2>3. IsInjective(order)
    BY <2>2 DEF IsInjective
  <2>4. Range(order) \subseteq ordered
    BY <2>2 DEF Range
  <2>5. order \in Seq(ordered)
    BY <2>1, <2>2, FunctionIsSeq
  <2>6. ordered \subseteq SkippedIds
    BY <1>5
  <2> QED BY <2>3, <2>4, <2>5, <2>6, SeqOfMore
<1>11. c \in ChainKeys
  <2>1. <<{Dhr}>> \in RootKeys
    BY <1>4 DEF RootKeys
  <2> QED BY <1>3, <2>1 DEF ChainKeys
<1>12. \A m \in Nat : m >= n => <<Dhr, m>> \notin ids
  <2> SUFFICES ASSUME NEW m \in Nat, m >= n, <<Dhr, m>> \in ids PROVE FALSE
    OBVIOUS
  <2>1. <<Dhr, m>> \notin OldIds
    BY LoopAssumption
  <2>2. m \in 0..n-1
    BY <2>1
  <2> QED BY <1>3, <2>2
<1> HIDE DEF K, c
<1>13. start \in RatchetState
  <2>1. <<>> \in RootKeys /\ <<>> \in Seq(PubKeys)
    BY DEF RootKeys
  <2> QED BY <1>2, <1>3, <1>4, <1>9, <1>10, <1>11, <2>1 DEF RatchetState
<1>14. Start(start)
  BY <1>2, <1>8, <1>9, <1>10, <1>11, <1>12, <1>13, NoneAssumption DEF Start
<1>15. Went(start, s)
  BY <1>0, <1>13, WithIs DEF Went
<1>16. /\ ck = Advance(start.receiving_chain_key, n - n)
       /\ Skipped(start, n, s.skipped_keys, s.skipped_key_order)
  BY <1>0, <1>2, <1>14, NothingYet
<1> QED BY <1>0, <1>2, <1>3, <1>14, <1>15, <1>16 DEF LoopInv, LoopComputesSkip

\* What the invariant says away from "done".
LEMMA LoopInvIs ==
    ASSUME LoopInv, pc # "done"
    PROVE  /\ Start(start) /\ start \in RatchetState
           /\ start.receiving_msg_number \in Nat
           /\ start.receiving_chain_key \in ChainKeys
           /\ s.receiving_msg_number \in Nat
           /\ s.receiving_msg_number >= start.receiving_msg_number
           /\ s = With(start, s.skipped_keys, s.skipped_key_order, s.receiving_msg_number,
                       start.receiving_chain_key)
           /\ s.dhr = Dhr
<1>1. Start(start) /\ start \in RatchetState
  BY DEF LoopInv, Start
<1>2. /\ s.receiving_msg_number \in Nat
      /\ s.receiving_msg_number >= start.receiving_msg_number
      /\ s.receiving_chain_key = start.receiving_chain_key
  BY DEF LoopInv
<1>3. s = With(start, s.skipped_keys, s.skipped_key_order, s.receiving_msg_number,
               start.receiving_chain_key)
  BY <1>2 DEF LoopInv, Went
<1>4. start.dhr = Dhr /\ start.receiving_msg_number \in Nat /\ start.receiving_chain_key \in ChainKeys
  BY <1>1, StartIs
<1>5. s.dhr = start.dhr
  BY <1>1, <1>3, WithIs
<1> QED BY <1>1, <1>2, <1>3, <1>4, <1>5

\* From one state of the loop to the next.
LEMMA LoopStep ==
    ASSUME LoopInv, UNCHANGED <<start, until>>, pc' \in {"skip", "evict"},
           NEW K, NEW o, NEW n \in Nat, n >= start.receiving_msg_number,
           s' = With(start, K, o, n, start.receiving_chain_key),
           pc' = "skip" => /\ n <= until
                           /\ ck' = Advance(start.receiving_chain_key, n - start.receiving_msg_number)
                           /\ Skipped(start, n, K, o),
           pc' = "evict" => /\ n < until
                            /\ ck' = Advance(start.receiving_chain_key, (n + 1) - start.receiving_msg_number)
                            /\ Evicting(start, n + 1, K, o)
    PROVE  LoopInv'
<1>1. Start(start) /\ start \in RatchetState /\ until \in Nat
      /\ start.receiving_msg_number + MAX_SKIP >= until
  BY DEF LoopInv, Start
<1>2. /\ s'.skipped_keys = K /\ s'.skipped_key_order = o /\ s'.receiving_msg_number = n
      /\ s'.receiving_chain_key = start.receiving_chain_key
  BY <1>1, WithIs
<1>3. Went(start, s)'
  BY <1>2 DEF Went
<1>4. start' = start /\ until' = until /\ pc' # "done"
  OBVIOUS
<1>5. Start(start)'
  BY <1>1, <1>4
<1>6. LoopComputesSkip'
  BY <1>4 DEF LoopComputesSkip
<1> QED BY <1>1, <1>2, <1>3, <1>4, <1>5, <1>6 DEF LoopInv

LEMMA BankKeyLoop ==
    ASSUME LoopInv, BankKey
    PROVE  LoopInv'
<1> DEFINE z == start
           K == s.skipped_keys
           o == s.skipped_key_order
           n == s.receiving_msg_number
           n0 == z.receiving_msg_number
           c == z.receiving_chain_key
           id == <<Dhr, n>>
           L == K \cup {NewEntry(z, n)}
           q == Append(o, id)
<1>1. pc = "skip" /\ n < until /\ UNCHANGED <<start, until>> /\ ck' = kdf_ck(ck).next
  BY DEF BankKey
<1>2. /\ Start(z) /\ z \in RatchetState /\ n0 \in Nat /\ c \in ChainKeys /\ n \in Nat /\ n >= n0
      /\ s = With(z, K, o, n, c) /\ s.dhr = Dhr
  BY <1>1, LoopInvIs
<1>3. ck = Advance(c, n - n0) /\ Skipped(z, n, K, o) /\ until \in Nat
  BY <1>1 DEF LoopInv
<1>4. id \notin Ids(K)
  BY <1>2, <1>3, SkippedKeys
<1>5. ck' = Advance(c, (n + 1) - n0) /\ kdf_ck(ck).mk = Advance(c, n - n0)
  <2>1. c.i \in Nat
    BY <1>2 DEF ChainKeys
  <2> HIDE DEF n, n0, c
  <2>2. (c.i + (n - n0)) + 1 = c.i + ((n + 1) - n0)
    BY <1>2, <2>1
  <2>3. kdf_ck(ck).next = [rk |-> ck.rk, i |-> ck.i + 1] /\ kdf_ck(ck).mk = ck
    BY DEF kdf_ck
  <2>4. ck.rk = c.rk /\ ck.i = c.i + (n - n0)
    BY <1>3 DEF Advance
  <2> QED BY <1>1, <1>3, <2>2, <2>3, <2>4 DEF Advance
<1>6. [id |-> id, mk |-> kdf_ck(ck).mk] = NewEntry(z, n)
  BY <1>5 DEF NewEntry
<1>7. {e \in K : e.id # id} = K
  <2>1. \A e \in K : e.id \in Ids(K)
    BY DEF Ids
  <2> HIDE DEF K, id
  <2> QED BY <1>4, <2>1
<1> DEFINE banked == [s EXCEPT
              !.skipped_keys = {e \in @ : e.id # id} \cup {[id |-> id, mk |-> kdf_ck(ck).mk]},
              !.skipped_key_order = IF id \in Ids(s.skipped_keys) THEN @ ELSE Append(@, id)]
<1>8. banked = With(z, L, q, n, c)
  <2>1. banked = [s EXCEPT !.skipped_keys = L, !.skipped_key_order = q]
    BY <1>4, <1>6, <1>7
  <2>2. [With(z, K, o, n, c) EXCEPT !.skipped_keys = L, !.skipped_key_order = q] = With(z, L, q, n, c)
    <3> HIDE DEF z, K, o, n, c, L, q
    <3> QED BY <1>2 DEF With, RatchetState
  <2> QED BY <1>2, <2>1, <2>2
<1>9. IF Cardinality(banked.skipped_keys) <= MAX_SKIPPED_KEYS
      THEN s' = [banked EXCEPT !.receiving_msg_number = @ + 1] /\ pc' = pc
      ELSE s' = adopt_unordered_skipped_keys(banked) /\ pc' = "evict"
  BY <1>2, Zenon DEF BankKey, skipped_key_id
<1> HIDE DEF banked, L, q, z, K, o, n, c, n0
<1>10. banked.skipped_keys = L /\ banked.receiving_msg_number = n
  BY <1>2, <1>8, WithIs
<1>11. /\ Cardinality(L) <= MAX_SKIPPED_KEYS => Skipped(z, n + 1, L, q)
       /\ ~(Cardinality(L) <= MAX_SKIPPED_KEYS) =>
             \E u : /\ adopt_unordered_skipped_keys(With(z, L, q, n, c)) = With(z, L, u, n, c)
                    /\ Evicting(z, n + 1, L, u)
  <2>1. n >= z.receiving_msg_number
    BY <1>2 DEF n0
  <2>2. Grown(z, n, K \cup {NewEntry(z, n)}, Append(o, <<Dhr, n>>), n, c)
    BY <1>2, <1>3, <2>1, BankedOne
  <2>3. Grown(z, n, L, q, n, c)
    BY <2>2 DEF L, q
  <2> QED BY <2>3, Zenon DEF Grown
<1>12. CASE Cardinality(L) <= MAX_SKIPPED_KEYS
  <2>1. s' = With(z, L, q, n + 1, c) /\ pc' = "skip"
    <3>1. [With(z, L, q, n, c) EXCEPT !.receiving_msg_number = n + 1] = With(z, L, q, n + 1, c)
      BY <1>2, WithNumber
    <3>2. s' = [banked EXCEPT !.receiving_msg_number = n + 1] /\ pc' = "skip"
      BY <1>1, <1>9, <1>10, <1>12
    <3> QED BY <1>8, <3>1, <3>2
  <2>2. n + 1 \in Nat /\ n + 1 >= n0 /\ n + 1 <= until
    BY <1>1, <1>2, <1>3 DEF n
  <2>3. Skipped(z, n + 1, L, q)
    BY <1>11, <1>12
  <2> QED BY <1>1, <1>5, <2>1, <2>2, <2>3, LoopStep DEF z, n0, c
<1>13. CASE ~(Cardinality(L) <= MAX_SKIPPED_KEYS)
  <2>1. PICK u : /\ adopt_unordered_skipped_keys(With(z, L, q, n, c)) = With(z, L, u, n, c)
                 /\ Evicting(z, n + 1, L, u)
    BY <1>11, <1>13
  <2>2. s' = With(z, L, u, n, c) /\ pc' = "evict"
    BY <1>8, <1>9, <1>10, <1>13, <2>1
  <2>3. n < until
    BY <1>1 DEF n
  <2> QED BY <1>1, <1>2, <1>5, <2>1, <2>2, <2>3, LoopStep DEF z, n0, c
<1> QED BY <1>12, <1>13

LEMMA EvictKeyLoop ==
    ASSUME LoopInv, EvictKey
    PROVE  LoopInv'
<1> DEFINE z == start
           K == s.skipped_keys
           o == s.skipped_key_order
           n == s.receiving_msg_number
           n0 == z.receiving_msg_number
           c == z.receiving_chain_key
           L == {e \in K : e.id # Head(o)}
           q == Tail(o)
<1>1. /\ pc = "evict" /\ Cardinality(K) > MAX_SKIPPED_KEYS
      /\ s' = [s EXCEPT !.skipped_keys = L, !.skipped_key_order = q]
      /\ UNCHANGED <<start, until>> /\ ck' = ck /\ pc' = "evict"
  BY DEF EvictKey, OverCap
<1>2. /\ Start(z) /\ z \in RatchetState /\ n0 \in Nat /\ n \in Nat /\ n >= n0
      /\ s = With(z, K, o, n, c)
  BY <1>1, LoopInvIs
<1>3. n < until /\ ck = Advance(c, (n + 1) - n0) /\ Evicting(z, n + 1, K, o)
  BY <1>1 DEF LoopInv
<1>4. Evicting(z, n + 1, L, q)
  <2>1. n + 1 \in Nat /\ n + 1 >= z.receiving_msg_number
    BY <1>2
  <2> QED BY <1>1, <1>2, <1>3, <2>1, EvictedOne
<1>5. s' = With(z, L, q, n, c)
  <2>1. [With(z, K, o, n, c) EXCEPT !.skipped_keys = L, !.skipped_key_order = q] = With(z, L, q, n, c)
    <3> HIDE DEF z, K, o, n, c, L, q
    <3> QED BY <1>2 DEF With, RatchetState
  <2> QED BY <1>1, <1>2, <2>1
<1> HIDE DEF K, o, n, L, q
<1> QED BY <1>1, <1>2, <1>3, <1>4, <1>5, LoopStep

LEMMA EvictedLoop ==
    ASSUME LoopInv, Evicted
    PROVE  LoopInv'
<1> DEFINE z == start
           K == s.skipped_keys
           o == s.skipped_key_order
           n == s.receiving_msg_number
           n0 == z.receiving_msg_number
           c == z.receiving_chain_key
<1>1. /\ pc = "evict" /\ ~(Cardinality(K) > MAX_SKIPPED_KEYS /\ o # <<>>)
      /\ s' = [s EXCEPT !.receiving_msg_number = n + 1]
      /\ UNCHANGED <<start, until>> /\ ck' = ck /\ pc' = "skip"
  BY DEF Evicted, OverCap
<1>2. /\ Start(z) /\ z \in RatchetState /\ n0 \in Nat /\ n \in Nat /\ n >= n0
      /\ s = With(z, K, o, n, c)
  BY <1>1, LoopInvIs
<1>3. n < until /\ ck = Advance(c, (n + 1) - n0) /\ Evicting(z, n + 1, K, o) /\ until \in Nat
  BY <1>1 DEF LoopInv
<1>4. n + 1 \in Nat /\ n + 1 > z.receiving_msg_number /\ n + 1 >= z.receiving_msg_number /\ n + 1 <= until
  <2> HIDE DEF n
  <2> QED BY <1>2, <1>3
<1>5. ~(Cardinality(K) > MAX_SKIPPED_KEYS)
  <2> SUFFICES ASSUME Cardinality(K) > MAX_SKIPPED_KEYS PROVE FALSE
    OBVIOUS
  <2>1. o # <<>>
    BY <1>2, <1>3, <1>4, EvictedOne
  <2> QED BY <1>1, <2>1
<1>6. Skipped(z, n + 1, K, o)
  BY <1>2, <1>3, <1>4, <1>5, EvictedAll
<1>7. s' = With(z, K, o, n + 1, c)
  <2>1. [With(z, K, o, n, c) EXCEPT !.receiving_msg_number = n + 1] = With(z, K, o, n + 1, c)
    BY <1>2, WithNumber
  <2> QED BY <1>1, <1>2, <2>1
<1> DEFINE m == n + 1
<1> HIDE DEF m, K, o
<1>8. /\ m \in Nat /\ m >= start.receiving_msg_number /\ m <= until /\ pc' = "skip"
      /\ s' = With(start, K, o, m, start.receiving_chain_key)
      /\ ck' = Advance(start.receiving_chain_key, m - start.receiving_msg_number)
      /\ Skipped(start, m, K, o)
  BY <1>1, <1>3, <1>4, <1>6, <1>7 DEF m
<1> QED BY <1>1, <1>8, LoopStep

\* The chain key is written back and the loop has done what was asked of it.
LEMMA FinishLoop ==
    ASSUME LoopInv, Finish
    PROVE  LoopInv'
<1> DEFINE z == start
           K == s.skipped_keys
           o == s.skipped_key_order
           n == s.receiving_msg_number
           n0 == z.receiving_msg_number
           c == z.receiving_chain_key
<1>1. /\ pc = "skip" /\ n >= until
      /\ s' = [s EXCEPT !.receiving_chain_key = ck]
      /\ UNCHANGED <<start, until>> /\ ck' = ck /\ pc' = "done"
  BY DEF Finish
<1>2. /\ Start(z) /\ z \in RatchetState /\ n0 \in Nat /\ n \in Nat /\ n >= n0
      /\ s = With(z, K, o, n, c)
  BY <1>1, LoopInvIs
<1>3. /\ (n <= until \/ n = n0) /\ ck = Advance(c, n - n0) /\ Skipped(z, n, K, o)
      /\ until \in Nat /\ n0 + MAX_SKIP >= until
  BY <1>1 DEF LoopInv
<1>4. s' = With(z, K, o, n, ck)
  <2>1. [With(z, K, o, n, c) EXCEPT !.receiving_chain_key = ck] = With(z, K, o, n, ck)
    <3> HIDE DEF z, K, o, n, c
    <3> QED BY <1>2 DEF With, RatchetState
  <2> QED BY <1>1, <1>2, <2>1
<1>5. Ok(s') = skip_message_keys(z, until)
  <2>1. CASE n = n0
    <3>1. K = z.skipped_keys /\ o = z.skipped_key_order /\ ck = c
      <4>1. K = AllKeys(z, n) /\ o = InTurn(z, n)
        BY <1>3, <2>1 DEF Skipped
      <4>2. /\ Advance(z.receiving_chain_key, n0 - n0) = z.receiving_chain_key
            /\ AllKeys(z, n0) = z.skipped_keys /\ InTurn(z, n0) = z.skipped_key_order
        BY <1>2, NothingYet
      <4> HIDE DEF K, o, n
      <4> QED BY <1>3, <2>1, <4>1, <4>2
    <3>2. z = With(z, z.skipped_keys, z.skipped_key_order, n0, c)
      BY <1>2, WithIs
    <3>3. s' = z
      <4> HIDE DEF K, o, n, n0, c, z
      <4>1. s' = With(z, z.skipped_keys, z.skipped_key_order, n0, c)
        BY <1>4, <2>1, <3>1
      <4> QED BY <3>2, <4>1
    <3>4. c # None /\ ~(n0 + MAX_SKIP < until) /\ until <= n0
      <4>1. c # None /\ MAX_SKIP \in Nat
        BY <1>2, LimitsAssumption DEF Start
      <4> HIDE DEF n, n0
      <4> QED BY <1>1, <1>2, <1>3, <2>1, <4>1 DEF n
    <3>5. skip_message_keys(z, until) = Ok(z)
      BY <3>4, Zenon DEF skip_message_keys
    <3> QED BY <3>3, <3>5
  <2>2. CASE n # n0
    <3>1. n = until /\ until > z.receiving_msg_number /\ z.receiving_msg_number + MAX_SKIP >= until
      BY <1>1, <1>2, <1>3, <2>2
    <3>2. /\ Skipped(z, until, K, o) /\ s' = With(z, K, o, until, ck)
          /\ ck = Advance(z.receiving_chain_key, until - z.receiving_msg_number)
      <4> HIDE DEF K, o, n
      <4> QED BY <1>3, <1>4, <3>1
    <3> HIDE DEF K, o, n
    <3>3. skip_message_keys(z, until) =
            Ok(With(z, K, o, until, Advance(z.receiving_chain_key, until - z.receiving_msg_number)))
      BY <1>2, <1>3, <3>1, <3>2, SkipIs
    <3> QED BY <3>2, <3>3
  <2> QED BY <2>1, <2>2
<1>6. LoopComputesSkip'
  <2>1. [err |-> "none", s |-> s'] = Ok(s')
    BY DEF Ok
  <2>2. skip_message_keys(start', until') = skip_message_keys(start, until)
    BY <1>1
  <2> QED BY <1>5, <2>1, <2>2 DEF LoopComputesSkip
<1>7. /\ s'.skipped_keys = K /\ s'.skipped_key_order = o /\ s'.receiving_msg_number = n
      /\ s'.receiving_chain_key = ck
  BY <1>2, <1>4, WithIs
<1>8. start' = start /\ until' = until /\ pc' = "done"
  BY <1>1
<1> HIDE DEF K, o, n
<1>9. Went(start, s)'
  <2>1. s' = With(start, s'.skipped_keys, s'.skipped_key_order, s'.receiving_msg_number,
                  s'.receiving_chain_key)
    BY <1>4, <1>7
  <2> QED BY <1>8, <2>1 DEF Went
<1>10. Start(start)'
  BY <1>2, <1>8
<1> QED BY <1>2, <1>3, <1>6, <1>7, <1>8, <1>9, <1>10 DEF LoopInv

\* Each round of the two loops keeps LoopInv: what is banked and listed is at
\* every point what banking all the keys so far and evicting the oldest leaves.
THEOREM LoopInvariance == Spec => []LoopInv
<1>1. Init => LoopInv
  BY InitLoop
<1>2. LoopInv /\ [Next]_vars => LoopInv'
  <2> SUFFICES ASSUME LoopInv, [Next]_vars PROVE LoopInv'
    OBVIOUS
  <2>1. CASE BankKey
    BY <2>1, BankKeyLoop
  <2>2. CASE EvictKey
    BY <2>2, EvictKeyLoop
  <2>3. CASE Evicted
    BY <2>3, EvictedLoop
  <2>4. CASE Finish
    BY <2>4, FinishLoop
  <2>5. CASE UNCHANGED vars
    <3>1. start' = start /\ until' = until /\ s' = s /\ ck' = ck /\ pc' = pc
      BY <2>5 DEF vars
    <3> QED BY <3>1 DEF LoopInv, LoopComputesSkip
  <2> QED BY <2>1, <2>2, <2>3, <2>4, <2>5 DEF Next
<1> QED BY <1>1, <1>2, PTL DEF Spec

\* The loops of skip_message_keys and evict_oldest_skipped_keys, one key at a
\* time, leave the bank, the order list and the chain position that RatchetOps
\* states in one go, for every bank within or beyond the cap, however much of
\* it the order list knows, and for every cap and number of messages skipped.
THEOREM LoopsComputeSkip == Spec => []LoopComputesSkip
<1>1. LoopInv => LoopComputesSkip
  BY DEF LoopInv
<1> QED BY <1>1, LoopInvariance, PTL
============================================================================
