--------------------------- MODULE RatchetProofs ---------------------------
(***************************************************************************)
(* Proofs about the ratchet session of module Ratchet, for every value of  *)
(* the limits and bounds.  First its keys: used keys are gone, and the     *)
(* session implements Channel.  Then its lists: the map of the bank agrees *)
(* with its order list and stays within its cap, and what was read is      *)
(* refused as a replay as long as its chain is remembered.                 *)
(***************************************************************************)
EXTENDS Ratchet, VectorProofs

---------------------------------------------------------------------------
(* The inductive invariant.                                                *)

\* The fields a key can come from have their types.  The order of eviction and
\* the completed chains play no part for the keys: two fields may hold anything.
Typed(s) ==
    s \in [root_key : RootKeys,
           dhs : PubKeys,
           dhr : PubKeys \cup {None},
           sending_chain_key : ChainKeys \cup {None},
           receiving_chain_key : ChainKeys \cup {None},
           sending_msg_number : Nat,
           receiving_msg_number : Nat,
           previous_sending_chain_length : Nat,
           skipped_keys : SUBSET [id : SkippedIds, mk : MsgKeys],
           skipped_key_order : {s.skipped_key_order},
           retired_peer_dh_keys : {s.retired_peer_dh_keys}]

\* The two parties add to the root key in turn: the chains p sends on come
\* from root keys of this length modulo two, those it receives on do not.
Parity(p) == IF p = "initiator" THEN 1 ELSE 0

\* A derivation that starts with a Diffie-Hellman output, unlike the zero root key.
Honest(rk) == rk # <<>> /\ rk[1] # {}

\* How the keys of one state are related: the sending chain comes from the
\* root key, the receiving chain from the one before it, banked keys from
\* passed positions of chains the peer sent on, each of them banked once.
Safe(p, s) ==
    /\ Typed(s)
    /\ Len(s.root_key) % 2 = Parity(p)
    /\ s.root_key # <<>> => Honest(s.root_key)
    /\ s.sending_chain_key # None =>
          s.sending_chain_key.rk = s.root_key /\ s.root_key # <<>>
    /\ s.receiving_chain_key # None =>
          Len(s.receiving_chain_key.rk) + 1 = Len(s.root_key)
    /\ \A e \in s.skipped_keys :
          /\ s.receiving_chain_key # None
          /\ Len(e.mk.rk) < Len(s.root_key)
          /\ Len(e.mk.rk) % 2 # Parity(p)
          /\ e.mk.rk = s.receiving_chain_key.rk => e.mk.i < s.receiving_chain_key.i
    /\ \A e, f \in s.skipped_keys : e.mk = f.mk => e.id = f.id

\* The receiving side of s is past key k for good.
Gone(s, k) ==
    /\ s.receiving_chain_key # None
    /\ Len(k.rk) < Len(s.root_key)
    /\ k.rk = s.receiving_chain_key.rk => k.i < s.receiving_chain_key.i
    /\ \A e \in s.skipped_keys : e.mk # k

\* t differs from s at most in its receiving side, which only moved on.
MovedOn(s, t) ==
    /\ \/ t.root_key = s.root_key /\ t.sending_chain_key = s.sending_chain_key
       \/ Len(t.root_key) = Len(s.root_key) + 2
    /\ \A k \in MsgKeys : Gone(s, k) => Gone(t, k)

\* The sending side of s is past key k for good.
Passed(s, k) ==
    /\ Len(k.rk) <= Len(s.root_key)
    /\ k.rk = s.root_key => s.sending_chain_key # None /\ k.i < s.sending_chain_key.i

\* What zeroize_secrets leaves.
Zeroed(s) ==
    /\ Typed(s)
    /\ s.root_key = ZeroRoot
    /\ s.sending_chain_key = None
    /\ s.receiving_chain_key = None
    /\ s.skipped_keys = {}

\* A message p sealed.
SealedBy(p, m) ==
    /\ m.sealed \in [key : MsgKeys, ad : Headers]
    /\ m.sealed.ad = m.header
    /\ Len(m.sealed.key.rk) % 2 = Parity(p)
    /\ Honest(m.sealed.key.rk)

\* Opening m took p from s to t: with a key the peer seals with, which was not
\* gone before and is now.
Opened(p, s, m, t) ==
    \E mk \in MsgKeys :
        /\ m.sealed = [key |-> mk, ad |-> m.header]
        /\ Len(mk.rk) % 2 # Parity(p)
        /\ ~Gone(s, mk)
        /\ Gone(t, mk)
        /\ Safe(p, t)
        /\ MovedOn(s, t)

SessionType ==
    /\ st = [p \in Party |-> st[p]]
    /\ sent \in [Party -> Seq(Messages)]
    /\ read \in [Party -> Seq(Messages)]

\* Keys used by either side are behind its state: the sent ones behind the
\* sending chain, the read ones, all of them the peer's, behind the receiving
\* chain and no longer banked.
UsedInv(p) ==
    /\ \A m \in Range(sent[p]) : Passed(st[p], m.sealed.key)
    /\ \A m \in Range(read[p]) : Gone(st[p], m.sealed.key)

\* What is left of the dropped sessions, and of no other, is what
\* zeroize_secrets leaves.
DroppedInv ==
    /\ dropped \subseteq Party
    /\ \A p \in Party : Wiped(p) <=> Zeroed(st[p])

Inv ==
    /\ SessionType
    /\ DroppedInv
    /\ \A p \in Party : \A m \in Range(sent[p]) : SealedBy(p, m)
    /\ \A p \in Party : Range(read[p]) \subseteq Range(sent[Peer(p)])
    /\ \A p \in Party : Zeroed(st[p]) \/ (Safe(p, st[p]) /\ UsedInv(p))

---------------------------------------------------------------------------
(* What the functions of ratchet.rs do to a state.                         *)

\* kdf_rk makes root keys one longer: consecutive ones differ in parity.
LEMMA NextParity ==
    ASSUME NEW a \in Nat, NEW b \in Nat, a + 1 = b
    PROVE  a % 2 # b % 2
OBVIOUS

\* dh_ratchet_step applies kdf_rk twice, which keeps the parity.
LEMMA SameParity ==
    ASSUME NEW a \in Nat
    PROVE  (a + 2) % 2 = a % 2
OBVIOUS

\* evict_oldest_skipped_keys touches the bank and its order only, and only
\* takes keys away.
LEMMA EvictShrinks ==
    ASSUME NEW s, Typed(s)
    PROVE  \E K \in SUBSET s.skipped_keys : \E o :
              evict_oldest_skipped_keys(s) =
                 [s EXCEPT !.skipped_keys = K, !.skipped_key_order = o]
<1>1. CASE Cardinality(s.skipped_keys) <= MAX_SKIPPED_KEYS
  <2>1. s = [s EXCEPT !.skipped_keys = s.skipped_keys,
                      !.skipped_key_order = s.skipped_key_order]
    BY DEF Typed
  <2> QED BY <1>1, <2>1 DEF evict_oldest_skipped_keys
<1>2. CASE ~(Cardinality(s.skipped_keys) <= MAX_SKIPPED_KEYS)
  <2> DEFINE order == adopt_unordered_skipped_keys(s).skipped_key_order
             excess == Cardinality(s.skipped_keys) - MAX_SKIPPED_KEYS
             evicted == {order[j] : j \in 1..excess}
             K == {e \in s.skipped_keys : e.id \notin evicted}
             o == SubSeq(order, excess + 1, Len(order))
  <2>1. evict_oldest_skipped_keys(s) =
           [s EXCEPT !.skipped_keys = K, !.skipped_key_order = o]
    BY <1>2, Zenon DEF evict_oldest_skipped_keys
  <2>2. K \in SUBSET s.skipped_keys
    OBVIOUS
  <2> HIDE DEF K, o
  <2> QED BY <2>1, <2>2
<1> QED BY <1>1, <1>2

\* Keys banked on the way lie in the receiving chain, from where it stands up
\* to where it is forwarded to, one key an id.
LEMMA FreshEntries ==
    ASSUME NEW s, Typed(s), NEW until \in Nat,
           s.receiving_chain_key # None, s.dhr # None
    PROVE  /\ SkippedEntries(s, until) \in SUBSET [id : SkippedIds, mk : MsgKeys]
           /\ \A e \in SkippedEntries(s, until) :
                 /\ e.mk.rk = s.receiving_chain_key.rk
                 /\ e.mk.i >= s.receiving_chain_key.i
                 /\ e.mk.i < s.receiving_chain_key.i + (until - s.receiving_msg_number)
           /\ \A e, f \in SkippedEntries(s, until) : e.mk = f.mk => e.id = f.id
<1>1. /\ s.receiving_chain_key \in ChainKeys
      /\ s.receiving_msg_number \in Nat
      /\ s.dhr \in PubKeys
  BY DEF Typed
<1> QED BY <1>1 DEF SkippedEntries, Advance, SkippedIds, skipped_key_id, MsgKeys, ChainKeys

\* What skip_message_keys may change.
LEMMA SkipShape ==
    ASSUME NEW s, Typed(s), NEW until \in Nat,
           skip_message_keys(s, until).err = "none",
           skip_message_keys(s, until).s # s
    PROVE  /\ s.receiving_chain_key # None
           /\ s.dhr # None
           /\ until > s.receiving_msg_number
           /\ \E K \in SUBSET (s.skipped_keys \cup SkippedEntries(s, until)) : \E o :
                 skip_message_keys(s, until).s =
                    [s EXCEPT !.skipped_keys = K, !.skipped_key_order = o,
                              !.receiving_msg_number = until,
                              !.receiving_chain_key =
                                 Advance(s.receiving_chain_key, until - s.receiving_msg_number)]
<1> DEFINE t == skip_message_keys(s, until).s
           ck2 == Advance(s.receiving_chain_key, until - s.receiving_msg_number)
           fresh == SkippedEntries(s, until)
<1>1. /\ s.receiving_chain_key # None
      /\ s.dhr # None
      /\ until > s.receiving_msg_number
      /\ t = [bank_skipped_keys(s, until) EXCEPT !.receiving_msg_number = until,
                                                 !.receiving_chain_key = ck2]
  BY DEF skip_message_keys, Ok, Err, Typed
<1>2. fresh \in SUBSET [id : SkippedIds, mk : MsgKeys]
  BY <1>1, FreshEntries
<1> HIDE DEF fresh, ck2
<1>3. \E K \in SUBSET (s.skipped_keys \cup fresh) : \E o :
         bank_skipped_keys(s, until) = [s EXCEPT !.skipped_keys = K, !.skipped_key_order = o]
  <2> DEFINE n0 == s.receiving_msg_number
             ids == [j \in 1..(until - n0) |-> skipped_key_id(s.dhr, n0 + j - 1)]
             B == {e \in s.skipped_keys : e.id \notin Ids(fresh)} \cup fresh
             q == s.skipped_key_order \o retain(ids, Range(ids) \ Ids(s.skipped_keys))
             u == [s EXCEPT !.skipped_keys = B, !.skipped_key_order = q]
  <2>1. bank_skipped_keys(s, until) = evict_oldest_skipped_keys(u)
    BY Zenon DEF bank_skipped_keys, fresh
  <2>2. B \subseteq s.skipped_keys \cup fresh
    OBVIOUS
  <2> HIDE DEF B, q
  <2>3. Typed(u) /\ u.skipped_keys = B
    BY <1>2, <2>2 DEF Typed
  <2>4. \E K \in SUBSET u.skipped_keys : \E o :
           evict_oldest_skipped_keys(u) = [u EXCEPT !.skipped_keys = K, !.skipped_key_order = o]
    BY <2>3, EvictShrinks
  <2>5. \A K, o : [u EXCEPT !.skipped_keys = K, !.skipped_key_order = o]
                    = [s EXCEPT !.skipped_keys = K, !.skipped_key_order = o]
    BY DEF Typed
  <2> QED BY <2>1, <2>2, <2>3, <2>4, <2>5
<1>4. PICK K \in SUBSET (s.skipped_keys \cup fresh) : \E o :
         bank_skipped_keys(s, until) = [s EXCEPT !.skipped_keys = K, !.skipped_key_order = o]
  BY <1>3
<1>5. PICK o :
         bank_skipped_keys(s, until) = [s EXCEPT !.skipped_keys = K, !.skipped_key_order = o]
  BY <1>4
<1>6. t = [s EXCEPT !.skipped_keys = K, !.skipped_key_order = o,
                    !.receiving_msg_number = until, !.receiving_chain_key = ck2]
  BY <1>1, <1>5 DEF Typed
<1> QED BY <1>1, <1>6 DEF fresh, ck2

\* Forwarding the receiving chain keeps the relations between the keys, and
\* what is gone stays gone: every key it banks lies ahead.
LEMMA SkipIsSafe ==
    ASSUME NEW p \in Party, NEW s, Safe(p, s), NEW until \in Nat,
           skip_message_keys(s, until).err = "none"
    PROVE  LET t == skip_message_keys(s, until).s
           IN  Safe(p, t) /\ MovedOn(s, t) /\ t.root_key = s.root_key
<1> DEFINE t == skip_message_keys(s, until).s
<1>0. /\ Typed(s)
      /\ \A e \in s.skipped_keys :
            /\ Len(e.mk.rk) < Len(s.root_key)
            /\ e.mk.rk = s.receiving_chain_key.rk => e.mk.i < s.receiving_chain_key.i
  BY DEF Safe
<1>1. CASE t = s
  BY <1>1 DEF MovedOn
<1>2. CASE t # s
  <2> DEFINE fresh == SkippedEntries(s, until)
             ck == s.receiving_chain_key
             n0 == s.receiving_msg_number
             ck2 == Advance(ck, until - n0)
  <2>1. /\ s.receiving_chain_key # None
        /\ s.dhr # None
        /\ until > s.receiving_msg_number
    BY <1>0, <1>2, SkipShape
  <2>2. ck \in ChainKeys /\ n0 \in Nat /\ s.dhr \in PubKeys
    BY <1>0, <2>1 DEF Typed
  <2>3. /\ fresh \in SUBSET [id : SkippedIds, mk : MsgKeys]
        /\ \A e \in fresh : e.mk.rk = ck.rk /\ e.mk.i >= ck.i /\ e.mk.i < ck.i + (until - n0)
        /\ \A e, f \in fresh : e.mk = f.mk => e.id = f.id
    BY <1>0, <2>1, FreshEntries
  <2> HIDE DEF fresh
  <2>a. PICK K \in SUBSET (s.skipped_keys \cup fresh) : \E o :
           t = [s EXCEPT !.skipped_keys = K, !.skipped_key_order = o,
                         !.receiving_msg_number = until, !.receiving_chain_key = ck2]
    BY <1>0, <1>2, SkipShape DEF fresh
  <2>4. PICK o :
           t = [s EXCEPT !.skipped_keys = K, !.skipped_key_order = o,
                         !.receiving_msg_number = until, !.receiving_chain_key = ck2]
    BY <2>a
  <2>5. /\ ck2 \in ChainKeys
        /\ ck2.rk = ck.rk
        /\ ck2.i = ck.i + (until - n0)
    BY <2>1, <2>2 DEF Advance, ChainKeys
  <2> HIDE DEF ck2, t
  <2>7. /\ Typed(t)
        /\ t.skipped_keys = K
        /\ t.receiving_chain_key = ck2
        /\ t.root_key = s.root_key
        /\ t.sending_chain_key = s.sending_chain_key
    BY <1>0, <2>4, <2>5, <2>3 DEF Typed
  <2>8. ck2 # None
    BY <2>5, NoneAssumption
  <2>9. Len(ck.rk) + 1 = Len(s.root_key) /\ Len(s.root_key) \in Nat /\ Len(ck.rk) \in Nat
    BY <1>0, <2>1, <2>2 DEF Safe, Typed, ChainKeys, RootKeys
  <2>10. \A e \in K : /\ Len(e.mk.rk) < Len(s.root_key)
                      /\ Len(e.mk.rk) % 2 # Parity(p)
                      /\ e.mk.rk = ck2.rk => e.mk.i < ck2.i
    <3> SUFFICES ASSUME NEW e \in K
                 PROVE  /\ Len(e.mk.rk) < Len(s.root_key)
                        /\ Len(e.mk.rk) % 2 # Parity(p)
                        /\ e.mk.rk = ck2.rk => e.mk.i < ck2.i
      OBVIOUS
    <3>1. CASE e \in fresh
      <4>1. Len(ck.rk) % 2 # Parity(p)
        BY <2>9, NextParity DEF Safe
      <4>2. e.mk.rk = ck.rk /\ e.mk.i < ck2.i
        BY <3>1, <2>3, <2>5
      <4>3. Len(e.mk.rk) < Len(s.root_key)
        BY <4>2, <2>9
      <4> QED BY <4>1, <4>2, <4>3, Zenon
    <3>2. CASE e \in s.skipped_keys
      <4>1. e.mk.i \in Nat /\ ck.i \in Nat /\ until - n0 \in Nat
        BY <3>2, <1>0, <2>1, <2>2 DEF Typed, MsgKeys, ChainKeys
      <4>2. Len(e.mk.rk) % 2 # Parity(p)
        BY <3>2 DEF Safe
      <4>3. Len(e.mk.rk) < Len(s.root_key) /\ (e.mk.rk = ck2.rk => e.mk.i < ck2.i)
        BY <3>2, <1>0, <2>5, <4>1
      <4> QED BY <4>2, <4>3, Zenon
    <3> QED BY <3>1, <3>2
  <2>11. \A e, f \in K : e.mk = f.mk => e.id = f.id
    <3> SUFFICES ASSUME NEW e \in K, NEW f \in K, e.mk = f.mk
                 PROVE  e.id = f.id
      OBVIOUS
    <3>1. \A x \in s.skipped_keys, y \in fresh : x.mk # y.mk
      <4> SUFFICES ASSUME NEW x \in s.skipped_keys, NEW y \in fresh, x.mk = y.mk
                   PROVE  FALSE
        OBVIOUS
      <4>1. x.mk.i \in Nat /\ ck.i \in Nat
        BY <1>0, <2>2 DEF Typed, MsgKeys, ChainKeys
      <4> QED BY <4>1, <2>3, <1>0
    <3> QED BY <3>1, <2>3 DEF Safe
  <2>12. Safe(p, t)
    BY <2>7, <2>8, <2>9, <2>10, <2>11, <2>5 DEF Safe
  <2>13. ASSUME NEW k \in MsgKeys, Gone(s, k)
         PROVE  Gone(t, k)
    <3>1. k.i \in Nat /\ ck.i \in Nat /\ until - n0 \in Nat
      BY <2>1, <2>2 DEF MsgKeys, ChainKeys
    <3>2. k.rk = ck2.rk => k.i < ck2.i
      BY <2>13, <2>5, <3>1 DEF Gone
    <3>3. \A e \in K : e.mk # k
      BY <2>13, <2>3, <3>1 DEF Gone
    <3> QED BY <2>13, <2>7, <2>8, <3>2, <3>3 DEF Gone
  <2>14. MovedOn(s, t)
    BY <2>7, <2>13 DEF MovedOn
  <2> QED BY <2>7, <2>12, <2>14 DEF t
<1> QED BY <1>1, <1>2

\* A Diffie-Hellman step retires both chains: their keys are behind the new
\* root key, the new chains in front of it.
LEMMA StepIsSafe ==
    ASSUME NEW p \in Party, NEW s, Safe(p, s), NEW dh \in PubKeys
    PROVE  LET t == dh_ratchet_step(s, dh)
           IN  Safe(p, t) /\ MovedOn(s, t) /\ t.receiving_chain_key # None
<1> DEFINE d1 == x25519_derive_shared(s.dhs, dh)
           new_dhs == generate_x25519(s.dhs)
           d2 == x25519_derive_shared(new_dhs, dh)
           rk1 == Append(s.root_key, d1)
           rk2 == Append(rk1, d2)
           recv == [rk |-> rk1, i |-> 0]
           send == [rk |-> rk2, i |-> 0]
           t == dh_ratchet_step(s, dh)
<1>0. Typed(s) /\ s.root_key \in Seq(SUBSET PubKeys) /\ s.dhs \in PubKeys
  BY DEF Safe, Typed, RootKeys
<1>1. new_dhs \in PubKeys
  BY <1>0 DEF generate_x25519, PubKeys
<1>2. /\ d1 \in SUBSET PubKeys /\ d1 # {}
      /\ d2 \in SUBSET PubKeys
  BY <1>0, <1>1 DEF x25519_derive_shared
<1> HIDE DEF d1, d2, new_dhs
<1>3. /\ rk1 \in Seq(SUBSET PubKeys) /\ Len(rk1) = Len(s.root_key) + 1
      /\ rk2 \in Seq(SUBSET PubKeys) /\ Len(rk2) = Len(s.root_key) + 2
      /\ rk2 # <<>>
      /\ rk2[1] = IF s.root_key = <<>> THEN d1 ELSE s.root_key[1]
      /\ Len(s.root_key) \in Nat
  BY <1>0, <1>2
<1>4. /\ t = [s EXCEPT
                !.previous_sending_chain_length = s.sending_msg_number,
                !.sending_msg_number = 0,
                !.receiving_msg_number = 0,
                !.retired_peer_dh_keys = RetirePeerKey(s, dh),
                !.dhr = dh,
                !.receiving_chain_key = recv,
                !.dhs = new_dhs,
                !.root_key = rk2,
                !.sending_chain_key = send]
  BY Zenon DEF dh_ratchet_step, kdf_rk, d1, d2, new_dhs
<1> HIDE DEF t, rk1, rk2
<1>5. recv \in ChainKeys /\ send \in ChainKeys /\ recv # None /\ send # None
  BY <1>3, NoneAssumption DEF ChainKeys, RootKeys
<1>6. recv.rk = rk1 /\ send.rk = rk2
  OBVIOUS
<1> HIDE DEF recv, send
<1>7. /\ Typed(t)
      /\ t.root_key = rk2
      /\ t.sending_chain_key = send
      /\ t.receiving_chain_key = recv
      /\ t.skipped_keys = s.skipped_keys
  BY <1>0, <1>1, <1>3, <1>4, <1>5 DEF Typed, RootKeys
<1>8. Len(rk2) % 2 = Parity(p)
  <2>1. (Len(s.root_key) + 2) % 2 = Len(s.root_key) % 2
    BY <1>3, SameParity
  <2> QED BY <1>3, <2>1 DEF Safe
<1>9. Honest(rk2)
  BY <1>2, <1>3 DEF Honest, Safe
<1>10. \A e \in s.skipped_keys :
          /\ Len(e.mk.rk) < Len(s.root_key)
          /\ Len(e.mk.rk) \in Nat
  <2>1. \A e \in s.skipped_keys : Len(e.mk.rk) < Len(s.root_key)
    BY DEF Safe
  <2>2. \A e \in s.skipped_keys : Len(e.mk.rk) \in Nat
    BY <1>0 DEF Typed, MsgKeys, ChainKeys, RootKeys
  <2> QED BY <2>1, <2>2
<1>11. \A e \in s.skipped_keys : Len(e.mk.rk) < Len(rk2) /\ e.mk.rk # rk1
  BY <1>3, <1>10
<1>12. Safe(p, t)
  <2>1. \A e \in s.skipped_keys : Len(e.mk.rk) % 2 # Parity(p)
    BY DEF Safe
  <2>2. \A e, f \in s.skipped_keys : e.mk = f.mk => e.id = f.id
    BY DEF Safe
  <2>3. Len(rk1) + 1 = Len(rk2)
    BY <1>3
  <2> QED BY <1>3, <1>5, <1>6, <1>7, <1>8, <1>9, <1>11, <2>1, <2>2, <2>3 DEF Safe
<1>13. ASSUME NEW k \in MsgKeys, Gone(s, k)
       PROVE  Gone(t, k)
  <2>1. Len(k.rk) < Len(s.root_key) /\ Len(k.rk) \in Nat
    BY <1>13 DEF Gone, MsgKeys, ChainKeys, RootKeys
  <2>2. Len(k.rk) < Len(rk2) /\ k.rk # rk1
    BY <2>1, <1>3
  <2> QED BY <1>13, <1>5, <1>6, <1>7, <2>2 DEF Gone
<1>14. MovedOn(s, t)
  BY <1>3, <1>7, <1>13 DEF MovedOn
<1> QED BY <1>5, <1>7, <1>12, <1>14 DEF t

\* Opening with the next key of the receiving chain: the key was not gone, is
\* one the peer seals with, and is gone afterwards.
LEMMA OpenIsSafe ==
    ASSUME NEW p \in Party, NEW s, Safe(p, s), NEW m, OpenNext(s, m).err = "none"
    PROVE  Opened(p, s, m, OpenNext(s, m).s)
<1> DEFINE mk == s.receiving_chain_key
           next == [rk |-> mk.rk, i |-> mk.i + 1]
           t == OpenNext(s, m).s
<1>0. Typed(s)
  BY DEF Safe
<1>1. /\ mk # None
      /\ t = [s EXCEPT !.receiving_chain_key = next,
                         !.receiving_msg_number = s.receiving_msg_number + 1]
      /\ m.sealed = [key |-> mk, ad |-> m.header]
  BY DEF OpenNext, Err, Ok, kdf_ck, aes_gcm_decrypt
<1>2. mk \in MsgKeys /\ mk.i \in Nat /\ mk.rk \in RootKeys
  BY <1>0, <1>1 DEF Typed, MsgKeys, ChainKeys
<1>3. next \in ChainKeys /\ next # None /\ next.rk = mk.rk /\ next.i = mk.i + 1
  BY <1>2, NoneAssumption DEF ChainKeys
<1> HIDE DEF next, t
<1>4. /\ Typed(t)
      /\ t.root_key = s.root_key
      /\ t.sending_chain_key = s.sending_chain_key
      /\ t.receiving_chain_key = next
      /\ t.skipped_keys = s.skipped_keys
  <2> DEFINE n == s.receiving_msg_number + 1
  <2>1. n \in Nat
    BY <1>0 DEF Typed
  <2>2. t = [s EXCEPT !.receiving_chain_key = next, !.receiving_msg_number = n]
    BY <1>1
  <2> HIDE DEF n
  <2> QED BY <1>0, <1>3, <2>1, <2>2 DEF Typed
<1>5. Len(mk.rk) + 1 = Len(s.root_key) /\ Len(mk.rk) \in Nat /\ Len(s.root_key) \in Nat
  BY <1>0, <1>1, <1>2 DEF Safe, Typed, RootKeys
<1>6. Len(mk.rk) % 2 # Parity(p)
  BY <1>5, NextParity DEF Safe
<1>7. \A e \in s.skipped_keys : e.mk.rk = mk.rk => e.mk.i < mk.i /\ e.mk.i < mk.i + 1
  <2>1. \A e \in s.skipped_keys : e.mk.rk = mk.rk => e.mk.i < mk.i
    BY DEF Safe
  <2>2. \A e \in s.skipped_keys : e.mk.i \in Nat
    BY <1>0 DEF Typed, MsgKeys, ChainKeys
  <2> QED BY <1>2, <2>1, <2>2
<1>8. ~Gone(s, mk)
  BY <1>2 DEF Gone
<1>9. Gone(t, mk)
  BY <1>2, <1>3, <1>4, <1>5, <1>7 DEF Gone
<1>10. Safe(p, t)
  <2>1. \A e \in s.skipped_keys :
           /\ Len(e.mk.rk) < Len(s.root_key)
           /\ Len(e.mk.rk) % 2 # Parity(p)
    BY DEF Safe
  <2> QED BY <1>3, <1>4, <1>5, <1>7, <2>1 DEF Safe
<1>11. ASSUME NEW k \in MsgKeys, Gone(s, k)
       PROVE  Gone(t, k)
  <2>1. k.rk = mk.rk => k.i < mk.i + 1
    BY <1>11, <1>2 DEF Gone, MsgKeys, ChainKeys
  <2> QED BY <1>11, <2>1, <1>3, <1>4 DEF Gone
<1>12. MovedOn(s, t)
  BY <1>4, <1>11 DEF MovedOn
<1> QED BY <1>1, <1>2, <1>6, <1>8, <1>9, <1>10, <1>12 DEF t, Opened

\* Opening with a banked key, which is used up: no other entry holds it.
LEMMA SkippedIsSafe ==
    ASSUME NEW p \in Party, NEW s, Safe(p, s), NEW m, HasSkippedKey(s, m.header),
           try_skipped_message_key(s, m).err = "none"
    PROVE  Opened(p, s, m, try_skipped_message_key(s, m).s)
<1> DEFINE id == skipped_key_id(m.header.dh, m.header.n)
           c == CHOOSE e \in s.skipped_keys : e.id = id
           K == {e \in s.skipped_keys : e.id # id}
           o == retain(s.skipped_key_order, Range(s.skipped_key_order) \ {id})
           t == try_skipped_message_key(s, m).s
<1>0. Typed(s)
  BY DEF Safe
<1>1. c \in s.skipped_keys /\ c.id = id
  BY DEF HasSkippedKey, Ids
<1>2. aes_gcm_decrypt(SkippedKey(s, m.header), m)
  BY DEF try_skipped_message_key, Err
<1>3. m.sealed = [key |-> c.mk, ad |-> m.header]
  BY <1>2, Zenon DEF aes_gcm_decrypt, SkippedKey
<1>4. t = [s EXCEPT !.skipped_keys = K, !.skipped_key_order = o]
  BY <1>2 DEF try_skipped_message_key, Ok
<1> HIDE DEF c, o, t
<1>5. /\ Typed(t)
      /\ t.root_key = s.root_key
      /\ t.sending_chain_key = s.sending_chain_key
      /\ t.receiving_chain_key = s.receiving_chain_key
      /\ t.skipped_keys = K
  BY <1>0, <1>4 DEF Typed
<1>6. c.mk \in MsgKeys
  BY <1>0, <1>1 DEF Typed
<1>7. Len(c.mk.rk) % 2 # Parity(p)
  BY <1>1 DEF Safe
<1>8. ~Gone(s, c.mk)
  BY <1>1 DEF Gone
<1>9. Gone(t, c.mk)
  <2>1. \A e \in K : e.mk # c.mk
    BY <1>1 DEF Safe
  <2>2. /\ s.receiving_chain_key # None
        /\ Len(c.mk.rk) < Len(s.root_key)
        /\ c.mk.rk = s.receiving_chain_key.rk => c.mk.i < s.receiving_chain_key.i
    BY <1>1 DEF Safe
  <2> QED BY <1>5, <2>1, <2>2 DEF Gone
<1>10. Safe(p, t)
  BY <1>5 DEF Safe
<1>11. MovedOn(s, t)
  BY <1>5 DEF MovedOn, Gone
<1> QED BY <1>3, <1>6, <1>7, <1>8, <1>9, <1>10, <1>11 DEF Opened, t

\* Moving on twice is moving on, and so is moving on before opening.
LEMMA MovedOnTwice ==
    ASSUME NEW s, NEW t, NEW u, MovedOn(s, t), t.root_key = s.root_key, MovedOn(t, u),
           Len(s.root_key) \in Nat
    PROVE  MovedOn(s, u)
<1>1. t.sending_chain_key = s.sending_chain_key
  BY DEF MovedOn
<1> QED BY <1>1 DEF MovedOn

\* Steps 2 and 3 of ratchet_decrypt_inner.
LEMMA ForwardIsSafe ==
    ASSUME NEW p \in Party, NEW s, Safe(p, s), NEW header \in Headers, header.dh # None,
           Forward(s, header).err = "none"
    PROVE  LET t == Forward(s, header).s
           IN  Safe(p, t) /\ MovedOn(s, t)
<1>0. header.dh \in PubKeys /\ header.pn \in Nat /\ header.n \in Nat
  BY DEF Headers
<1>1. CASE s.dhr = header.dh
  <2>1. Forward(s, header) = skip_message_keys(s, header.n)
    BY <1>1 DEF Forward
  <2> QED BY <1>0, <2>1, SkipIsSafe
<1>2. CASE s.dhr # header.dh
  <2> DEFINE a == skip_message_keys(s, header.pn)
             b == dh_ratchet_step(a.s, header.dh)
             c == skip_message_keys(b, header.n)
  <2>1. a.err = "none" /\ Forward(s, header) = c
    BY <1>2 DEF Forward
  <2>2. Safe(p, a.s) /\ MovedOn(s, a.s) /\ a.s.root_key = s.root_key
    BY <1>0, <2>1, SkipIsSafe
  <2> HIDE DEF a
  <2>3. Safe(p, b) /\ MovedOn(a.s, b)
    BY <1>0, <2>2, StepIsSafe
  <2> HIDE DEF b
  <2>4. Safe(p, c.s) /\ MovedOn(b, c.s) /\ c.s.root_key = b.root_key
    BY <1>0, <2>1, <2>3, SkipIsSafe
  <2> HIDE DEF c
  <2>5. Len(s.root_key) \in Nat /\ Len(b.root_key) \in Nat
    BY <2>3 DEF Safe, Typed, RootKeys
  <2>6. MovedOn(s, b)
    BY <2>2, <2>3, <2>5, MovedOnTwice
  <2>7. MovedOn(s, c.s)
    <3>1. c.s.sending_chain_key = b.sending_chain_key
      BY <2>4, <2>5 DEF MovedOn
    <3> QED BY <2>4, <2>6, <3>1 DEF MovedOn
  <2> QED BY <2>1, <2>4, <2>7
<1> QED BY <1>1, <1>2

\* A message that ratchet_decrypt opens.
LEMMA DecryptIsSafe ==
    ASSUME NEW p \in Party, NEW s, Safe(p, s), NEW m \in Messages,
           ratchet_decrypt(s, m).err = "none"
    PROVE  Opened(p, s, m, ratchet_decrypt(s, m).s)
<1> DEFINE r == ratchet_decrypt_inner(s, m)
<1>1. r.err = "none" /\ ratchet_decrypt(s, m) = r
  BY DEF ratchet_decrypt, Err
<1>2. m.header.dh # None /\ m.header \in Headers
  BY <1>1 DEF ratchet_decrypt_inner, Err, Messages
<1>3. CASE HasSkippedKey(s, m.header)
  <2>1. r = try_skipped_message_key(s, m)
    BY <1>2, <1>3 DEF ratchet_decrypt_inner
  <2> QED BY <1>1, <1>3, <2>1, SkippedIsSafe
<1>4. CASE ~HasSkippedKey(s, m.header)
  <2> DEFINE at == Forward(s, m.header)
  <2>1. at.err = "none" /\ r = OpenNext(at.s, m)
    BY <1>1, <1>2, <1>4 DEF ratchet_decrypt_inner, Err
  <2>2. Safe(p, at.s) /\ MovedOn(s, at.s)
    BY <1>2, <2>1, ForwardIsSafe
  <2> HIDE DEF at, r
  <2>3. Opened(p, at.s, m, r.s)
    BY <1>1, <2>1, <2>2, OpenIsSafe
  <2>4. PICK mk \in MsgKeys :
           /\ m.sealed = [key |-> mk, ad |-> m.header]
           /\ Len(mk.rk) % 2 # Parity(p)
           /\ ~Gone(at.s, mk)
           /\ Gone(r.s, mk)
           /\ Safe(p, r.s)
           /\ MovedOn(at.s, r.s)
    BY <2>3 DEF Opened
  <2>5. ~Gone(s, mk)
    BY <2>2, <2>4 DEF MovedOn
  <2>6. MovedOn(s, r.s)
    <3>1. r.s.root_key = at.s.root_key /\ r.s.sending_chain_key = at.s.sending_chain_key
      BY <1>1, <2>1, <2>2 DEF OpenNext, Ok, Err, Safe, Typed
    <3> QED BY <2>2, <2>4, <3>1 DEF MovedOn
  <2> QED BY <1>1, <2>4, <2>5, <2>6 DEF Opened
<1> QED BY <1>3, <1>4

\* skip_message_keys stays on its chain.
LEMMA SkipKeepsChain ==
    ASSUME NEW s, Typed(s), s.receiving_chain_key # None, NEW until \in Nat,
           skip_message_keys(s, until).err = "none"
    PROVE  LET t == skip_message_keys(s, until).s
           IN  /\ t.receiving_chain_key \in ChainKeys
               /\ t.receiving_chain_key.rk = s.receiving_chain_key.rk
<1> DEFINE t == skip_message_keys(s, until).s
<1>0. s.receiving_chain_key \in ChainKeys /\ s.receiving_msg_number \in Nat
  BY DEF Typed
<1>1. CASE t = s
  BY <1>0, <1>1
<1>2. CASE t # s
  <2> DEFINE ck2 == Advance(s.receiving_chain_key, until - s.receiving_msg_number)
  <2>0. until > s.receiving_msg_number
    BY <1>2, SkipShape
  <2>1. ck2.rk = s.receiving_chain_key.rk /\ ck2 \in ChainKeys
    BY <1>0, <2>0 DEF Advance, ChainKeys
  <2>2. \E K, o : t = [s EXCEPT !.skipped_keys = K, !.skipped_key_order = o,
                                !.receiving_msg_number = until, !.receiving_chain_key = ck2]
    BY <1>2, SkipShape, Zenon
  <2> HIDE DEF t, ck2
  <2>3. t.receiving_chain_key = ck2
    BY <2>2 DEF Typed
  <2> QED BY <2>1, <2>3 DEF t
<1> QED BY <1>1, <1>2

\* Sealing: the key is the sending chain's next, not used before and passed
\* afterwards.
LEMMA EncryptIsSafe ==
    ASSUME NEW p \in Party, NEW s, Safe(p, s), s.sending_chain_key # None
    PROVE  LET m == EncryptedMessage(s)
               t == ratchet_encrypt(s)
           IN  /\ m \in Messages
               /\ SealedBy(p, m)
               /\ ~Passed(s, m.sealed.key)
               /\ Passed(t, m.sealed.key)
               /\ Safe(p, t)
               /\ \A k \in MsgKeys : Passed(s, k) => Passed(t, k)
               /\ \A k \in MsgKeys : Gone(s, k) => Gone(t, k)
<1> DEFINE ck == s.sending_chain_key
           next == [rk |-> ck.rk, i |-> ck.i + 1]
           header == [dh |-> s.dhs, pn |-> s.previous_sending_chain_length,
                      n |-> s.sending_msg_number]
           n == s.sending_msg_number + 1
           m == EncryptedMessage(s)
           t == ratchet_encrypt(s)
<1>0. Typed(s)
  BY DEF Safe
<1>1. ck \in ChainKeys /\ ck.i \in Nat /\ ck.rk \in RootKeys /\ header \in Headers /\ n \in Nat
  BY <1>0 DEF Typed, ChainKeys, Headers
<1>2. ck.rk = s.root_key /\ s.root_key # <<>> /\ Honest(s.root_key)
  BY DEF Safe
<1>3. next \in ChainKeys /\ next # None /\ next.rk = ck.rk /\ next.i = ck.i + 1
  BY <1>1, NoneAssumption DEF ChainKeys
<1>4. m = [header |-> header, sealed |-> [key |-> ck, ad |-> header]]
  BY DEF EncryptedMessage, aes_gcm_encrypt, kdf_ck
<1>5. t = [s EXCEPT !.sending_chain_key = next, !.sending_msg_number = n]
  BY <1>0 DEF ratchet_encrypt, kdf_ck, Typed
<1> HIDE DEF header, n, next, m, t
<1>6. m \in Messages /\ m.sealed.key = ck
  BY <1>1, <1>4 DEF Messages, MsgKeys
<1>7. SealedBy(p, m)
  <2>1. Len(ck.rk) % 2 = Parity(p)
    BY <1>2 DEF Safe
  <2> QED BY <1>1, <1>2, <1>4, <2>1 DEF SealedBy, MsgKeys
<1>8. /\ Typed(t)
      /\ t.root_key = s.root_key
      /\ t.sending_chain_key = next
      /\ t.receiving_chain_key = s.receiving_chain_key
      /\ t.skipped_keys = s.skipped_keys
  BY <1>0, <1>1, <1>3, <1>5 DEF Typed
<1>9. Len(s.root_key) \in Nat
  BY <1>0 DEF Typed, RootKeys
<1>10. ~Passed(s, ck) /\ Passed(t, ck)
  BY <1>1, <1>2, <1>3, <1>8, <1>9 DEF Passed
<1>11. Safe(p, t)
  BY <1>2, <1>3, <1>8 DEF Safe
<1>12. ASSUME NEW k \in MsgKeys, Passed(s, k)
       PROVE  Passed(t, k)
  <2>1. k.i \in Nat
    BY DEF MsgKeys, ChainKeys
  <2> QED BY <1>1, <1>3, <1>8, <1>12, <2>1 DEF Passed
<1>13. \A k \in MsgKeys : Gone(s, k) => Gone(t, k)
  BY <1>8 DEF Gone
<1> QED BY <1>6, <1>7, <1>10, <1>11, <1>12, <1>13 DEF m, t

\* The sending side is not touched, or behind a new root key.
LEMMA MovedOnPasses ==
    ASSUME NEW p \in Party, NEW s, NEW t, Safe(p, s), Safe(p, t), MovedOn(s, t),
           NEW k \in MsgKeys, Passed(s, k)
    PROVE  Passed(t, k)
<1>1. Len(k.rk) \in Nat /\ Len(s.root_key) \in Nat /\ Len(t.root_key) \in Nat
  BY DEF MsgKeys, ChainKeys, RootKeys, Safe, Typed
<1>2. CASE t.root_key = s.root_key /\ t.sending_chain_key = s.sending_chain_key
  BY <1>2 DEF Passed
<1>3. CASE Len(t.root_key) = Len(s.root_key) + 2
  BY <1>1, <1>3 DEF Passed
<1> QED BY <1>2, <1>3 DEF MovedOn

---------------------------------------------------------------------------
(* The session.                                                            *)

\* What the network can hand over: a message of the right shape, whose
\* ciphertext, if anyone sealed it, is that of a message that was sent.
LEMMA WireIsSent ==
    ASSUME SessionType, NEW m \in OnTheWire
    PROVE  /\ m \in Messages
           /\ m.sealed # None => \E q \in Party : \E x \in Range(sent[q]) : m.sealed = x.sealed
<1>1. AllSent \subseteq Messages
  BY DEF AllSent, SessionType, Range
<1>2. Spk \in PubKeys /\ <<"other", 0>> \in PubKeys
  BY DEF Spk, PubKeys, Party
<1>3. Named \subseteq PubKeys \cup {None}
  BY <1>1, <1>2 DEF Named, Messages, Headers
<1>4. ASSUME NEW x \in AllSent, NEW g \in Garbled(x)
      PROVE  g \in Messages /\ (g.sealed # None => g.sealed = x.sealed)
  <2>1. x \in [header : [dh : PubKeys \cup {None}, pn : Nat, n : Nat],
               sealed : [key : MsgKeys, ad : Headers] \cup {None}]
    BY <1>1, <1>4 DEF Messages, Headers
  <2>2. \A k \in 0..MaxHeader : k \in Nat
    BY BoundsAssumption
  <2>3. CASE \E k \in 0..MaxHeader : g = [x EXCEPT !.header.n = k]
    BY <2>1, <2>2, <2>3 DEF Messages, Headers
  <2>4. CASE \E k \in 0..MaxHeader : g = [x EXCEPT !.header.pn = k]
    BY <2>1, <2>2, <2>4 DEF Messages, Headers
  <2>5. CASE \E k \in Named : g = [x EXCEPT !.header.dh = k]
    BY <2>1, <1>3, <2>5 DEF Messages, Headers
  <2>6. CASE g = [x EXCEPT !.sealed = None]
    BY <2>1, <2>6 DEF Messages, Headers
  <2> QED BY <1>4, <2>3, <2>4, <2>5, <2>6 DEF Garbled
<1>5. \E x \in AllSent : m = x \/ m \in Garbled(x)
  BY DEF OnTheWire
<1>6. PICK x \in AllSent : m = x \/ m \in Garbled(x)
  BY <1>5
<1>7. m \in Messages /\ (m.sealed # None => m.sealed = x.sealed)
  BY <1>1, <1>4, <1>6
<1>8. \E q \in Party : x \in Range(sent[q])
  BY DEF AllSent
<1> QED BY <1>7, <1>8

\* The root key of a session in use is not the zero one.
LEMMA SafeIsLive ==
    ASSUME NEW p, NEW s, Safe(p, s)
    PROVE  ~Zeroed(s)
BY DEF Safe, Honest, ZeroRoot, Zeroed

\* A message p opens is one its peer sealed and p had not read.
LEMMA OnlyNewMessagesOpen ==
    ASSUME Inv, NEW p \in Party, NEW m \in OnTheWire, ~Wiped(p),
           ratchet_decrypt(st[p], m).err = "none"
    PROVE  /\ m \in Messages
           /\ m \in Range(sent[Peer(p)]) \ Range(read[p])
           /\ Safe(p, st[p]) /\ UsedInv(p)
           /\ Opened(p, st[p], m, ratchet_decrypt(st[p], m).s)
<1> DEFINE r == ratchet_decrypt(st[p], m)
<1>0. SessionType /\ m \in Messages
  BY WireIsSent DEF Inv
<1>a. m.sealed # None => \E q \in Party : \E x \in Range(sent[q]) : m.sealed = x.sealed
  BY <1>0, WireIsSent
<1>1. ASSUME NEW k \in MsgKeys, m.sealed = [key |-> k, ad |-> m.header]
      PROVE  \E q \in Party : m \in Range(sent[q]) /\ Len(k.rk) % 2 = Parity(q)
  <2>1. m.sealed # None
    BY <1>0, <1>1, NoneAssumption DEF Messages
  <2>2. PICK q \in Party : \E x \in Range(sent[q]) : m.sealed = x.sealed
    BY <1>a, <2>1
  <2>3. PICK x \in Range(sent[q]) : m.sealed = x.sealed
    BY <2>2
  <2>4. SealedBy(q, x)
    BY <2>3 DEF Inv
  <2>5. x \in Messages
    BY <1>0 DEF SessionType, Range
  <2>6. x.header = m.header
    BY <1>1, <2>3, <2>4 DEF SealedBy
  <2>7. m = x
    BY <1>0, <2>3, <2>5, <2>6 DEF Messages
  <2>8. x.sealed.key = k
    BY <1>1, <2>3
  <2> QED BY <2>3, <2>4, <2>7, <2>8 DEF SealedBy
<1>2. ~Zeroed(st[p])
  BY DEF Inv, DroppedInv
<1>3. Safe(p, st[p]) /\ UsedInv(p)
  BY <1>2 DEF Inv
<1>4. Opened(p, st[p], m, r.s)
  BY <1>0, <1>3, DecryptIsSafe
<1>5. PICK mk \in MsgKeys :
         /\ m.sealed = [key |-> mk, ad |-> m.header]
         /\ Len(mk.rk) % 2 # Parity(p)
         /\ ~Gone(st[p], mk)
  BY <1>4 DEF Opened
<1>6. PICK q \in Party : m \in Range(sent[q]) /\ Len(mk.rk) % 2 = Parity(q)
  BY <1>1, <1>5
<1>7. q = Peer(p)
  BY <1>5, <1>6 DEF Peer, Party
<1>8. m \notin Range(read[p])
  BY <1>3, <1>5 DEF UsedInv
<1> QED BY <1>0, <1>3, <1>4, <1>6, <1>7, <1>8

\* The states init_initiator and init_responder return.
LEMMA InitInv ==
    Init => Inv
<1> SUFFICES ASSUME Init PROVE Inv
  OBVIOUS
<1>1. Spk \in PubKeys /\ <<"initiator", 1>> \in PubKeys
  BY DEF Spk, PubKeys, Party
<1>2. SessionType
  BY DEF Init, SessionType
<1>3. \A p \in Party : Range(sent[p]) = {} /\ Range(read[p]) = {}
  BY DEF Init, Range
<1>4. Safe("initiator", st["initiator"])
  <2> DEFINE d == {<<"initiator", 1>>, Spk}
             rk == <<d>>
             ck == [rk |-> rk, i |-> 0]
             s == st["initiator"]
  <2>1. s = [root_key |-> rk,
             dhs |-> <<"initiator", 1>>,
             dhr |-> Spk,
             sending_chain_key |-> ck,
             receiving_chain_key |-> None,
             sending_msg_number |-> 0,
             receiving_msg_number |-> 0,
             previous_sending_chain_length |-> 0,
             skipped_keys |-> {},
             skipped_key_order |-> <<>>,
             retired_peer_dh_keys |-> <<>>]
    <3>1. Append(<<>>, d) = rk
      OBVIOUS
    <3> HIDE DEF rk
    <3> QED BY <3>1 DEF Init, Party, init_initiator, kdf_rk, x25519_derive_shared
  <2>2. d \in SUBSET PubKeys /\ d # {}
    BY <1>1
  <2> HIDE DEF d, s
  <2>3. /\ rk \in RootKeys /\ Len(rk) = 1 /\ rk # <<>> /\ rk[1] = d
    BY <2>2 DEF RootKeys
  <2> HIDE DEF rk
  <2>4. ck \in ChainKeys /\ ck.rk = rk
    BY <2>3 DEF ChainKeys
  <2> HIDE DEF ck
  <2>5. Typed(s)
    BY <1>1, <2>1, <2>3, <2>4 DEF Typed
  <2>6. Len(rk) % 2 = Parity("initiator")
    BY <2>3 DEF Parity
  <2>7. Safe("initiator", s)
    BY <2>1, <2>2, <2>3, <2>4, <2>5, <2>6 DEF Safe, Honest
  <2> QED BY <2>7 DEF s
<1>5. Safe("responder", st["responder"])
  <2> DEFINE s == st["responder"]
  <2>1. s = init_responder(Spk)
    BY DEF Init, Party
  <2> HIDE DEF s
  <2>2. <<>> \in RootKeys
    BY DEF RootKeys
  <2>3. Typed(s) /\ s.root_key = <<>> /\ s.sending_chain_key = None
        /\ s.receiving_chain_key = None /\ s.skipped_keys = {}
    BY <1>1, <2>1, <2>2 DEF init_responder, Typed
  <2>4. Len(<<>>) % 2 = Parity("responder")
    BY DEF Parity
  <2>5. Safe("responder", s)
    BY <2>3, <2>4 DEF Safe
  <2> QED BY <2>5 DEF s
<1>6. DroppedInv
  BY <1>4, <1>5, SafeIsLive DEF Init, DroppedInv, Wiped, Party
<1> QED BY <1>2, <1>3, <1>4, <1>5, <1>6 DEF Inv, UsedInv, Party

\* What a party sealed or read was sealed under a message key.
LEMMA UsedKeys ==
    ASSUME Inv, NEW p \in Party
    PROVE  \A m \in Range(sent[p]) \cup Range(read[p]) : m.sealed.key \in MsgKeys
<1>1. Peer(p) \in Party
  BY DEF Peer, Party
<1> QED BY <1>1 DEF Inv, SealedBy

\* ratchet_encrypt preserves the invariant.
LEMMA EncryptInv ==
    ASSUME Inv, NEW p \in Party, Encrypt(p)
    PROVE  Inv'
<1> DEFINE m == EncryptedMessage(st[p])
           t == ratchet_encrypt(st[p])
<1>1. Safe(p, st[p]) /\ UsedInv(p)
  BY DEF Inv, Encrypt, Zeroed
<1>2. /\ m \in Messages
      /\ SealedBy(p, m)
      /\ Passed(t, m.sealed.key)
      /\ Safe(p, t)
      /\ \A k \in MsgKeys : Passed(st[p], k) => Passed(t, k)
      /\ \A k \in MsgKeys : Gone(st[p], k) => Gone(t, k)
  BY <1>1, EncryptIsSafe DEF Encrypt
<1>3. SessionType
  BY DEF Inv
<1>4. /\ st' = [st EXCEPT ![p] = t]
      /\ sent' = [sent EXCEPT ![p] = Append(sent[p], m)]
      /\ read' = read
      /\ dropped' = dropped /\ ~Wiped(p)
  BY DEF Encrypt
<1> HIDE DEF m, t
<1>5. /\ SessionType'
      /\ st'[p] = t /\ \A q \in Party \ {p} : st'[q] = st[q]
      /\ \A q \in Party \ {p} : sent'[q] = sent[q]
      /\ sent'[p] = Append(sent[p], m)
  <2>1. st' = [q \in Party |-> st'[q]] /\ st'[p] = t /\ \A q \in Party \ {p} : st'[q] = st[q]
    BY <1>3, <1>4 DEF SessionType
  <2>2. Append(sent[p], m) \in Seq(Messages) /\ sent \in [Party -> Seq(Messages)]
    BY <1>2, <1>3 DEF SessionType
  <2>3. /\ sent' \in [Party -> Seq(Messages)]
        /\ \A q \in Party \ {p} : sent'[q] = sent[q]
        /\ sent'[p] = Append(sent[p], m)
    BY <1>4, <2>2
  <2> QED BY <1>3, <1>4, <2>1, <2>3 DEF SessionType
<1>6. Range(sent'[p]) = Range(sent[p]) \cup {m}
  BY <1>2, <1>3, <1>5, RangeAppend DEF SessionType
<1>7. \A q \in Party : \A x \in Range(sent'[q]) : SealedBy(q, x)
  <2>1. \A q \in Party : \A x \in Range(sent[q]) : SealedBy(q, x)
    BY DEF Inv
  <2> QED BY <1>2, <1>5, <1>6, <2>1
<1>8. \A q \in Party : Range(read'[q]) \subseteq Range(sent'[Peer(q)])
  <2>1. \A q \in Party : Peer(q) \in Party
    BY DEF Peer, Party
  <2> QED BY <1>4, <1>5, <1>6, <2>1 DEF Inv
<1>9. Safe(p, st'[p]) /\ UsedInv(p)'
  BY <1>1, <1>2, <1>4, <1>5, <1>6, UsedKeys DEF UsedInv
<1>10. \A q \in Party \ {p} : Zeroed(st'[q]) \/ (Safe(q, st'[q]) /\ UsedInv(q)')
  BY <1>4, <1>5 DEF Inv, UsedInv
<1>11. DroppedInv'
  BY <1>4, <1>5, <1>9, SafeIsLive DEF Inv, DroppedInv, Wiped
<1> QED BY <1>5, <1>7, <1>8, <1>9, <1>10, <1>11 DEF Inv

\* So does ratchet_decrypt, of anything the network can hand over.
LEMMA DecryptInv ==
    ASSUME Inv, NEW p \in Party, NEW m \in OnTheWire, Decrypt(p, m)
    PROVE  Inv'
<1> DEFINE r == ratchet_decrypt(st[p], m)
           t == r.s
<1>1. SessionType /\ ~Wiped(p)
  BY DEF Inv, Decrypt
<1>2. CASE r.err # "none"
  <2>1. r.s = st[p]
    BY <1>2 DEF ratchet_decrypt, Err
  <2>2. st' = st /\ sent' = sent /\ read' = read /\ dropped' = dropped
    BY <1>1, <1>2, <2>1 DEF Decrypt, SessionType
  <2> QED BY <2>2 DEF Inv, SessionType, UsedInv, DroppedInv, Wiped
<1>3. CASE r.err = "none"
  <2>1. /\ m \in Messages
        /\ m \in Range(sent[Peer(p)])
        /\ Safe(p, st[p]) /\ UsedInv(p)
        /\ Opened(p, st[p], m, t)
    BY <1>1, <1>3, OnlyNewMessagesOpen
  <2>2. /\ Safe(p, t)
        /\ MovedOn(st[p], t)
        /\ Gone(t, m.sealed.key)
    BY <2>1 DEF Opened
  <2>3. /\ st' = [st EXCEPT ![p] = t]
        /\ sent' = sent
        /\ read' = [read EXCEPT ![p] = Append(read[p], m)]
        /\ dropped' = dropped
    BY <1>3 DEF Decrypt
  <2> HIDE DEF r, t
  <2>4. /\ SessionType'
        /\ st'[p] = t /\ \A q \in Party \ {p} : st'[q] = st[q]
        /\ \A q \in Party \ {p} : read'[q] = read[q]
        /\ read'[p] = Append(read[p], m)
    <3>1. st' = [q \in Party |-> st'[q]] /\ st'[p] = t /\ \A q \in Party \ {p} : st'[q] = st[q]
      BY <1>1, <2>3 DEF SessionType
    <3>2. Append(read[p], m) \in Seq(Messages) /\ read \in [Party -> Seq(Messages)]
      BY <1>1, <2>1 DEF SessionType
    <3>3. /\ read' \in [Party -> Seq(Messages)]
          /\ \A q \in Party \ {p} : read'[q] = read[q]
          /\ read'[p] = Append(read[p], m)
      BY <2>3, <3>2
    <3> QED BY <1>1, <2>3, <3>1, <3>3 DEF SessionType
  <2>5. Range(read'[p]) = Range(read[p]) \cup {m}
    BY <1>1, <2>1, <2>4, RangeAppend DEF SessionType
  <2>6. \A q \in Party : \A x \in Range(sent'[q]) : SealedBy(q, x)
    BY <2>3 DEF Inv
  <2>7. \A q \in Party : Range(read'[q]) \subseteq Range(sent'[Peer(q)])
    BY <2>1, <2>3, <2>4, <2>5 DEF Inv
  <2>8. UsedInv(p)'
    <3>1. \A x \in Range(sent[p]) : Passed(t, x.sealed.key)
      BY <2>1, <2>2, UsedKeys, MovedOnPasses DEF UsedInv
    <3>2. \A x \in Range(read[p]) : Gone(t, x.sealed.key)
      BY <2>1, <2>2, UsedKeys DEF UsedInv, MovedOn
    <3> QED BY <2>2, <2>3, <2>4, <2>5, <3>1, <3>2 DEF UsedInv
  <2>9. \A q \in Party \ {p} : Zeroed(st'[q]) \/ (Safe(q, st'[q]) /\ UsedInv(q)')
    BY <2>3, <2>4 DEF Inv, UsedInv
  <2>10. DroppedInv'
    BY <1>1, <2>2, <2>3, <2>4, SafeIsLive DEF Inv, DroppedInv, Wiped
  <2> QED BY <2>2, <2>4, <2>6, <2>7, <2>8, <2>9, <2>10 DEF Inv
<1> QED BY <1>2, <1>3

\* So does loading a session of an older version: the keys are untouched.
LEMMA UpgradeInv ==
    ASSUME Inv, NEW p \in Party, Upgrade(p)
    PROVE  Inv'
<1> DEFINE s == st[p]
           t == LoadLegacy(s)
<1>1. SessionType /\ Typed(s)
  BY DEF Inv, Safe, Zeroed
<1>2. /\ st' = [st EXCEPT ![p] = t] /\ sent' = sent /\ read' = read
      /\ dropped' = dropped /\ ~Wiped(p)
  BY DEF Upgrade
<1>3. t = [s EXCEPT !.skipped_key_order = <<>>, !.retired_peer_dh_keys = <<>>]
  BY DEF LoadLegacy
<1> HIDE DEF s, t
<1>4. /\ Typed(t)
      /\ t.root_key = s.root_key
      /\ t.sending_chain_key = s.sending_chain_key
      /\ t.receiving_chain_key = s.receiving_chain_key
      /\ t.skipped_keys = s.skipped_keys
  BY <1>1, <1>3 DEF Typed
<1>5. /\ SessionType'
      /\ st'[p] = t /\ \A q \in Party \ {p} : st'[q] = st[q]
  BY <1>1, <1>2 DEF SessionType
<1>6. Safe(p, s) /\ UsedInv(p)
  BY <1>2 DEF Inv, DroppedInv, s
<1>7. Safe(p, t)
  BY <1>4, <1>6 DEF Safe
<1>8. UsedInv(p)'
  BY <1>2, <1>4, <1>5, <1>6 DEF UsedInv, Passed, Gone, s
<1>9. \A q \in Party \ {p} : Zeroed(st'[q]) \/ (Safe(q, st'[q]) /\ UsedInv(q)')
  BY <1>2, <1>5 DEF Inv, UsedInv
<1>10. DroppedInv'
  BY <1>2, <1>5, <1>7, SafeIsLive DEF Inv, DroppedInv, Wiped
<1> QED BY <1>2, <1>5, <1>7, <1>8, <1>9, <1>10 DEF Inv

\* So does dropping a session: what is left is Zeroed.
LEMMA WipeInv ==
    ASSUME Inv, NEW p \in Party, Wipe(p)
    PROVE  Inv'
<1> DEFINE s == st[p]
           t == zeroize_secrets(s)
<1>1. SessionType /\ Typed(s)
  BY DEF Inv, Safe, Zeroed
<1>2. /\ st' = [st EXCEPT ![p] = t] /\ sent' = sent /\ read' = read
      /\ dropped' = dropped \cup {p}
  BY DEF Wipe
<1>3. t = [s EXCEPT !.root_key = ZeroRoot,
                    !.dhs = ZeroKey,
                    !.sending_chain_key = None,
                    !.receiving_chain_key = None,
                    !.skipped_keys = {},
                    !.skipped_key_order = <<>>]
  BY DEF zeroize_secrets
<1>4. ZeroRoot \in RootKeys /\ ZeroKey \in PubKeys
  BY DEF ZeroRoot, RootKeys, ZeroKey, PubKeys
<1> HIDE DEF s, t
<1>5. Zeroed(t)
  BY <1>1, <1>3, <1>4 DEF Typed, Zeroed
<1>6. /\ SessionType'
      /\ st'[p] = t /\ \A q \in Party \ {p} : st'[q] = st[q]
  BY <1>1, <1>2 DEF SessionType
<1>7. \A q \in Party \ {p} : Zeroed(st'[q]) \/ (Safe(q, st'[q]) /\ UsedInv(q)')
  BY <1>2, <1>6 DEF Inv, UsedInv
<1>8. DroppedInv'
  BY <1>2, <1>5, <1>6 DEF Inv, DroppedInv, Wiped
<1> QED BY <1>2, <1>5, <1>6, <1>7, <1>8 DEF Inv

\* The inductive invariant: in every reachable state the keys either side has
\* used are behind its chains and no longer in its bank.
THEOREM Invariance ==
    Spec => []Inv
<1>1. Inv /\ [Next]_vars => Inv'
  <2> SUFFICES ASSUME Inv, [Next]_vars PROVE Inv'
    OBVIOUS
  <2>1. CASE UNCHANGED vars
    BY <2>1 DEF vars, Inv, SessionType, UsedInv, DroppedInv, Wiped
  <2>2. ASSUME NEW p \in Party, Encrypt(p) PROVE Inv'
    BY <2>2, EncryptInv
  <2>3. ASSUME NEW p \in Party, NEW m \in OnTheWire, Decrypt(p, m) PROVE Inv'
    BY <2>3, DecryptInv
  <2>4. ASSUME NEW p \in Upgraders, Upgrade(p) PROVE Inv'
    BY <2>4, UpgradeInv, BoundsAssumption
  <2>5. ASSUME NEW p \in Wipers, Wipe(p) PROVE Inv'
    BY <2>5, WipeInv, BoundsAssumption
  <2> QED BY <2>1, <2>2, <2>3, <2>4, <2>5 DEF Next
<1> QED BY <1>1, InitInv, PTL DEF Spec

\* No message key of a session can be had from what zeroize_secrets leaves.
LEMMA ZeroedYieldsNothing ==
    ASSUME NEW s, Zeroed(s), NEW k \in MsgKeys, Honest(k.rk)
    PROVE  ~Yields(s, k)
<1>1. s.root_key = <<{}>>
  BY DEF Zeroed, ZeroRoot
<1>2. k.rk \in Seq(SUBSET PubKeys) /\ Len(k.rk) \in Nat
  BY DEF MsgKeys, ChainKeys, RootKeys
<1>3. ~IsStrictPrefix(s.root_key, k.rk)
  BY <1>1, <1>2 DEF IsStrictPrefix, IsPrefix, Honest
<1> QED BY <1>3 DEF Zeroed, Yields

\* Forward secrecy, for every reachable state: nothing ratchet.rs keeps of a
\* session yields the key of a message that was sent or read in it.
THEOREM ForwardSecrecy ==
    Spec => []UsedKeysAreGone
<1>1. Inv => UsedKeysAreGone
  <2> SUFFICES ASSUME Inv, NEW p \in Party, NEW m \in Range(sent[p]) \cup Range(read[p])
               PROVE  ~Yields(st[p], m.sealed.key)
    BY DEF UsedKeysAreGone
  <2> DEFINE s == st[p]
             k == m.sealed.key
  <2>0. Typed(s) /\ s.root_key \in Seq(SUBSET PubKeys) /\ Len(s.root_key) \in Nat
    <3>1. Typed(s)
      BY DEF Inv, Safe, Zeroed
    <3> QED BY <3>1 DEF Typed, RootKeys
  <2>1. k \in MsgKeys /\ k.rk \in Seq(SUBSET PubKeys) /\ Len(k.rk) \in Nat /\ k.i \in Nat
    BY UsedKeys DEF MsgKeys, ChainKeys, RootKeys
  <2>2. Honest(k.rk)
    <3>1. Peer(p) \in Party
      BY DEF Peer, Party
    <3> QED BY <3>1 DEF Inv, SealedBy
  <2>3. Len(k.rk) <= Len(s.root_key) => ~IsStrictPrefix(s.root_key, k.rk)
    BY <2>0, <2>1 DEF IsStrictPrefix, IsPrefix
  <2>4. CASE Zeroed(s)
    BY <2>1, <2>2, <2>4, ZeroedYieldsNothing
  <2>5. CASE ~Zeroed(s)
    <3>1. Safe(p, s) /\ UsedInv(p)
      BY <2>5 DEF Inv
    <3>2. CASE m \in Range(sent[p])
      <4>1. Passed(s, k) /\ Len(k.rk) % 2 = Parity(p)
        BY <3>1, <3>2 DEF UsedInv, Inv, SealedBy
      <4>2. \A e \in s.skipped_keys : e.mk # k
        <5>1. \A e \in s.skipped_keys : Len(e.mk.rk) % 2 # Parity(p)
          BY <3>1 DEF Safe
        <5> QED BY <4>1, <5>1
      <4>3. ASSUME s.receiving_chain_key # None
            PROVE  s.receiving_chain_key.rk # k.rk
        <5>1. Len(s.receiving_chain_key.rk) + 1 = Len(s.root_key)
          BY <3>1, <4>3 DEF Safe
        <5>2. Len(s.receiving_chain_key.rk) \in Nat
          BY <2>0, <4>3 DEF Typed, ChainKeys, RootKeys
        <5>3. Len(s.receiving_chain_key.rk) % 2 # Parity(p)
          BY <2>0, <3>1, <5>1, <5>2, NextParity DEF Safe
        <5> QED BY <4>1, <5>3
      <4>4. ASSUME s.sending_chain_key # None
            PROVE  ~(s.sending_chain_key.rk = k.rk /\ s.sending_chain_key.i <= k.i)
        <5>1. s.sending_chain_key.i \in Nat
          BY <2>0, <4>4 DEF Typed, ChainKeys
        <5>2. s.sending_chain_key.rk = s.root_key
          BY <3>1, <4>4 DEF Safe
        <5> QED BY <2>1, <4>1, <5>1, <5>2 DEF Passed
      <4>5. ~IsStrictPrefix(s.root_key, k.rk)
        BY <2>3, <4>1 DEF Passed
      <4> QED BY <4>2, <4>3, <4>4, <4>5 DEF Yields
    <3>3. CASE m \in Range(read[p])
      <4>1. Gone(s, k)
        BY <3>1, <3>3 DEF UsedInv
      <4>2. \A e \in s.skipped_keys : e.mk # k
        BY <4>1 DEF Gone
      <4>3. ~(s.receiving_chain_key.rk = k.rk /\ s.receiving_chain_key.i <= k.i)
        <5>1. s.receiving_chain_key.i \in Nat
          BY <2>0, <4>1 DEF Gone, Typed, ChainKeys
        <5> QED BY <2>1, <4>1, <5>1 DEF Gone
      <4>4. s.sending_chain_key # None => s.sending_chain_key.rk # k.rk
        BY <2>0, <2>1, <3>1, <4>1 DEF Gone, Safe
      <4>5. ~IsStrictPrefix(s.root_key, k.rk)
        BY <2>0, <2>1, <2>3, <4>1 DEF Gone
      <4> QED BY <4>2, <4>3, <4>4, <4>5 DEF Yields
    <3> QED BY <3>2, <3>3
  <2> QED BY <2>4, <2>5
<1> QED BY <1>1, Invariance, PTL

\* Every session, whatever the network does and whatever the limits are,
\* reads only what the peer sealed and each message at most once.
THEOREM Refinement ==
    Spec => ImplementsChannel
<1>1. Init => Abstract!Init
  BY DEF Init, Abstract!Init
<1>2. Inv /\ [Next]_vars => [Abstract!Next]_(Abstract!vars)
  <2> SUFFICES ASSUME Inv, [Next]_vars
               PROVE  Abstract!Next \/ UNCHANGED Abstract!vars
    OBVIOUS
  <2>0. SessionType
    BY DEF Inv
  <2>1. CASE UNCHANGED vars
    BY <2>1 DEF vars, Abstract!vars
  <2>2. ASSUME NEW p \in Party, Encrypt(p)
        PROVE  Abstract!Send(p)
    <3> DEFINE m == EncryptedMessage(st[p])
    <3>1. Safe(p, st[p]) /\ UsedInv(p)
      BY <2>2 DEF Inv, Encrypt, Zeroed
    <3>2. m \in Messages /\ ~Passed(st[p], m.sealed.key)
      BY <2>2, <3>1, EncryptIsSafe DEF Encrypt
    <3>3. m \notin Range(sent[p])
      BY <3>1, <3>2 DEF UsedInv
    <3>4. sent' = [sent EXCEPT ![p] = Append(sent[p], m)] /\ read' = read
      BY <2>2 DEF Encrypt
    <3> HIDE DEF m
    <3>5. sent'[p] = Append(sent[p], m)
      BY <2>0, <3>4 DEF SessionType
    <3>6. m \in Range(sent'[p])
      BY <2>0, <3>2, <3>5, RangeAppend DEF SessionType
    <3> QED BY <3>3, <3>4, <3>6 DEF Abstract!Send, Abstract!Range, Range
  <2>3. ASSUME NEW p \in Party, NEW m \in OnTheWire, Decrypt(p, m)
        PROVE  Abstract!Read(p) \/ UNCHANGED Abstract!vars
    <3> DEFINE r == ratchet_decrypt(st[p], m)
    <3>1. CASE r.err # "none"
      BY <2>3, <3>1 DEF Decrypt, Abstract!vars
    <3>2. CASE r.err = "none"
      <4>1. m \in Range(sent[Peer(p)]) \ Range(read[p])
        BY <2>3, <3>2, OnlyNewMessagesOpen DEF Decrypt
      <4>2. read' = [read EXCEPT ![p] = Append(read[p], m)] /\ sent' = sent
        BY <2>3, <3>2 DEF Decrypt
      <4> QED BY <4>1, <4>2 DEF Abstract!Read, Abstract!Range, Range
    <3> QED BY <3>1, <3>2
  <2>4. ASSUME NEW p \in Upgraders, Upgrade(p)
        PROVE  UNCHANGED Abstract!vars
    BY <2>4 DEF Upgrade, Abstract!vars
  <2>5. ASSUME NEW p \in Wipers, Wipe(p)
        PROVE  UNCHANGED Abstract!vars
    BY <2>5 DEF Wipe, Abstract!vars
  <2> QED BY <2>1, <2>2, <2>3, <2>4, <2>5 DEF Next, Abstract!Next
<1> QED BY <1>1, <1>2, Invariance, PTL DEF Spec, ImplementsChannel, Abstract!Spec

\* What drop leaves of a session, in every reachable state: zeroize_secrets has
\* left nothing from which the key of a message of the session can be had,
\* whichever side sealed it and whether before or after the drop.
THEOREM NothingIsLeft ==
    Spec => []WipedHoldsNothing
<1>1. Inv => WipedHoldsNothing
  <2> SUFFICES ASSUME Inv, NEW p \in Party, Wiped(p), NEW m \in AllSent
               PROVE  ~Yields(st[p], m.sealed.key)
    BY DEF WipedHoldsNothing
  <2>1. Zeroed(st[p])
    BY DEF Inv, DroppedInv
  <2>2. PICK q \in Party : m \in Range(sent[q])
    BY DEF AllSent
  <2>3. m.sealed.key \in MsgKeys /\ Honest(m.sealed.key.rk)
    BY <2>2 DEF Inv, SealedBy
  <2> QED BY <2>1, <2>3, ZeroedYieldsNothing
<1> QED BY <1>1, Invariance, PTL

---------------------------------------------------------------------------
(* The map of the bank and its order list.                                 *)

\* One key an id, and a list of ids that are all in the map.
BankOf(K, o) ==
    /\ K \in SUBSET [id : SkippedIds, mk : MsgKeys]
    /\ IsFiniteSet(K)
    /\ \A e, f \in K : e.id = f.id => e = f
    /\ o \in Seq(SkippedIds)
    /\ IsInjective(o)
    /\ Range(o) \subseteq Ids(K)

BankInv(s) ==
    /\ BankOf(s.skipped_keys, s.skipped_key_order)
    /\ Cardinality(s.skipped_keys) <= MAX_SKIPPED_KEYS

Complete(s) == Range(s.skipped_key_order) = Ids(s.skipped_keys)

\* A step from s to t keeps them.
BankKept(s, t) == BankInv(s) => BankInv(t) /\ (Complete(s) => Complete(t))

LEMMA IdsCount ==
    ASSUME NEW K, IsFiniteSet(K), \A e, f \in K : e.id = f.id => e = f
    PROVE  IsFiniteSet(Ids(K)) /\ Cardinality(Ids(K)) = Cardinality(K)
BY CountById DEF Ids

\* adopt_unordered_skipped_keys makes the list complete.
LEMMA AdoptIs ==
    ASSUME NEW s, Typed(s), BankOf(s.skipped_keys, s.skipped_key_order)
    PROVE  LET q == adopt_unordered_skipped_keys(s).skipped_key_order
           IN  BankOf(s.skipped_keys, q) /\ Range(q) = Ids(s.skipped_keys)
<1> DEFINE K == s.skipped_keys
           o == s.skipped_key_order
           q == adopt_unordered_skipped_keys(s).skipped_key_order
<1>1. /\ K \in SUBSET [id : SkippedIds, mk : MsgKeys] /\ IsFiniteSet(K)
      /\ \A e, f \in K : e.id = f.id => e = f
      /\ o \in Seq(SkippedIds) /\ IsInjective(o) /\ Range(o) \subseteq Ids(K)
  BY DEF BankOf
<1>2. IsFiniteSet(Ids(K)) /\ Cardinality(Ids(K)) = Cardinality(K)
  BY <1>1, IdsCount
<1>3. Ids(K) \subseteq SkippedIds
  BY <1>1 DEF Ids
<1> DEFINE N == Ids(K) \ Range(o)
           a == SetToSeq(N) \o o
<1>4. /\ a \in Seq(SkippedIds) /\ IsInjective(a) /\ Range(a) = Ids(K)
      /\ Len(o) = Cardinality(Ids(K)) => a = o
  <2> HIDE DEF K, o
  <2> QED BY <1>1, <1>2, <1>3, CompletedIs
<1>5. q = a
  <2>1. CASE Len(o) = Cardinality(K)
    BY <1>2, <1>4, <2>1 DEF adopt_unordered_skipped_keys
  <2>2. CASE Len(o) # Cardinality(K)
    BY <2>2 DEF adopt_unordered_skipped_keys, Typed
  <2> QED BY <2>1, <2>2
<1> HIDE DEF q, K, o, a
<1>6. BankOf(K, q) /\ Range(q) = Ids(K)
  BY <1>1, <1>4, <1>5 DEF BankOf
<1> QED BY <1>6 DEF q, K

\* evict_oldest_skipped_keys brings the bank down to its cap, the map and the
\* list alike.
LEMMA EvictKeeps ==
    ASSUME NEW s, Typed(s), BankOf(s.skipped_keys, s.skipped_key_order)
    PROVE  LET t == evict_oldest_skipped_keys(s)
           IN  BankInv(t) /\ (Complete(s) => Complete(t))
<1> DEFINE t == evict_oldest_skipped_keys(s)
           K == s.skipped_keys
           c == Cardinality(K)
<1>0. IsFiniteSet(K) /\ c \in Nat /\ MAX_SKIPPED_KEYS \in Nat
  BY FS_CardinalityType, LimitsAssumption DEF BankOf
<1>1. CASE c <= MAX_SKIPPED_KEYS
  <2>1. t = s
    BY <1>1 DEF evict_oldest_skipped_keys
  <2> QED BY <1>1, <2>1 DEF BankInv
<1>2. CASE ~(c <= MAX_SKIPPED_KEYS)
  <2> DEFINE q == adopt_unordered_skipped_keys(s).skipped_key_order
             excess == c - MAX_SKIPPED_KEYS
             evicted == {q[j] : j \in 1..excess}
             L == {e \in K : e.id \notin evicted}
             r == SubSeq(q, excess + 1, Len(q))
  <2>1. t = [s EXCEPT !.skipped_keys = L, !.skipped_key_order = r]
    BY <1>2, Zenon DEF evict_oldest_skipped_keys
  <2>2. BankOf(K, q) /\ Range(q) = Ids(K)
    BY AdoptIs
  <2> HIDE DEF K, q, t, c
  <2>3. /\ K \in SUBSET [id : SkippedIds, mk : MsgKeys]
        /\ \A e, f \in K : e.id = f.id => e = f
        /\ q \in Seq(SkippedIds) /\ IsInjective(q)
    BY <2>2 DEF BankOf
  <2>4. Len(q) = c
    <3>1. Cardinality(Range(q)) = Len(q)
      BY <2>3, LenIsCardinality
    <3>2. Cardinality(Ids(K)) = Cardinality(K)
      BY <1>0, <2>3, IdsCount
    <3> QED BY <2>2, <3>1, <3>2 DEF c
  <2>5. excess \in 0..Len(q) /\ Len(q) - excess = MAX_SKIPPED_KEYS
    BY <1>0, <1>2, <2>4
  <2> HIDE DEF excess
  <2>6. /\ r \in Seq(SkippedIds) /\ Len(r) = MAX_SKIPPED_KEYS /\ IsInjective(r)
        /\ Range(r) = Range(q) \ evicted
    BY <2>3, <2>5, DropIs
  <2> HIDE DEF evicted, r
  <2>7. Ids(L) = Ids(K) \ evicted
    BY DEF Ids
  <2>8. L \in SUBSET K
    OBVIOUS
  <2>9. IsFiniteSet(L) /\ \A e, f \in L : e.id = f.id => e = f
    BY <1>0, <2>3, <2>8, FS_Subset
  <2> HIDE DEF L
  <2>10. Range(r) = Ids(L)
    BY <2>2, <2>6, <2>7
  <2>11. Cardinality(L) = MAX_SKIPPED_KEYS
    <3>1. Cardinality(Ids(L)) = Cardinality(L)
      BY <2>9, IdsCount
    <3>2. Cardinality(Range(r)) = Len(r)
      BY <2>6, LenIsCardinality
    <3> QED BY <2>6, <2>10, <3>1, <3>2
  <2>12. t.skipped_keys = L /\ t.skipped_key_order = r
    BY <2>1 DEF Typed
  <2>13. BankOf(L, r)
    BY <2>3, <2>6, <2>8, <2>9, <2>10 DEF BankOf
  <2>14. BankInv(t) /\ Complete(t)
    BY <1>0, <2>10, <2>11, <2>12, <2>13 DEF BankInv, Complete
  <2> QED BY <2>14 DEF t
<1> QED BY <1>1, <1>2

\* The entries that skip_message_keys banks, and their ids in the order in
\* which it comes to them.
LEMMA FreshBank ==
    ASSUME NEW s, Typed(s), NEW until \in Nat, s.receiving_chain_key # None, s.dhr # None,
           until > s.receiving_msg_number
    PROVE  LET fresh == SkippedEntries(s, until)
               n0 == s.receiving_msg_number
               ids == [j \in 1..(until - n0) |-> skipped_key_id(s.dhr, n0 + j - 1)]
           IN  /\ IsFiniteSet(fresh)
               /\ \A e, f \in fresh : e.id = f.id => e = f
               /\ ids \in Seq(SkippedIds) /\ IsInjective(ids)
               /\ Range(ids) = Ids(fresh)
<1> DEFINE n0 == s.receiving_msg_number
           d == s.dhr
           ck == s.receiving_chain_key
           entry(n) == [id |-> skipped_key_id(d, n), mk |-> Advance(ck, n - n0)]
           fresh == SkippedEntries(s, until)
           m == until - n0
           ids == [j \in 1..m |-> skipped_key_id(d, n0 + j - 1)]
           I == n0..until - 1
<1>1. n0 \in Nat /\ d \in PubKeys /\ until \in Nat /\ m \in Nat
  BY DEF Typed
<1>2. fresh = {entry(n) : n \in I}
  BY Zenon DEF SkippedEntries
<1> HIDE DEF n0, d, ck, fresh
<1>3. \A n \in I : entry(n).id = <<d, n>>
  BY DEF skipped_key_id
<1>4. \A e \in fresh : \E n \in I : e = entry(n) /\ e.id = <<d, n>>
  BY <1>2, <1>3
<1>5. \A n \in I : entry(n) \in fresh
  BY <1>2
<1>6. \A e, f \in fresh : e.id = f.id => e = f
  BY <1>4
<1>7. IsFiniteSet(fresh)
  <2> DEFINE g == [n \in I |-> entry(n)]
  <2>1. g \in [I -> fresh] /\ \A n \in I : g[n] = entry(n)
    BY <1>5
  <2>2. \A e \in fresh : \E n \in I : g[n] = e
    BY <1>4, <2>1
  <2> HIDE DEF g
  <2>3. g \in Surjection(I, fresh)
    BY <2>1, <2>2 DEF Surjection
  <2>4. IsFiniteSet(I)
    BY <1>1, FS_Interval
  <2> QED BY <2>3, <2>4, FS_Surjection
<1>8. \A j \in 1..m : ids[j] = <<d, n0 + j - 1>> /\ n0 + j - 1 \in I /\ n0 + j - 1 \in Nat
  BY <1>1 DEF skipped_key_id
<1>9. DOMAIN ids = 1..m
  OBVIOUS
<1>10. ids \in Seq(SkippedIds)
  <2>1. \A j \in 1..m : skipped_key_id(d, n0 + j - 1) \in SkippedIds
    BY <1>1, <1>8 DEF SkippedIds, skipped_key_id
  <2>2. ids \in [1..m -> SkippedIds]
    BY <2>1
  <2> HIDE DEF ids, m
  <2> QED BY <1>1, <2>2, FunctionIsSeq
<1>11. \A n \in I : (n - n0) + 1 \in 1..m /\ n0 + ((n - n0) + 1) - 1 = n
  BY <1>1
<1> HIDE DEF ids, entry
<1>12. IsInjective(ids)
  <2>1. ASSUME NEW i \in 1..m, NEW j \in 1..m, ids[i] = ids[j] PROVE i = j
    <3>1. n0 + i - 1 = n0 + j - 1
      BY <1>8, <2>1
    <3> QED BY <1>1, <3>1
  <2> QED BY <1>9, <2>1 DEF IsInjective
<1>13. ASSUME NEW x \in Range(ids) PROVE x \in Ids(fresh)
  <2>1. PICK j \in 1..m : x = ids[j]
    BY <1>9 DEF Range
  <2>2. entry(n0 + j - 1) \in fresh /\ entry(n0 + j - 1).id = x
    BY <1>3, <1>5, <1>8, <2>1
  <2> QED BY <2>2 DEF Ids
<1>14. ASSUME NEW x \in Ids(fresh) PROVE x \in Range(ids)
  <2>1. PICK n \in I : x = <<d, n>>
    BY <1>4 DEF Ids
  <2> DEFINE j == (n - n0) + 1
  <2>2. j \in 1..m /\ n0 + j - 1 = n
    BY <1>11
  <2> HIDE DEF j
  <2>3. ids[j] = x
    BY <1>8, <2>1, <2>2
  <2> QED BY <1>9, <2>2, <2>3 DEF Range
<1>15. Range(ids) = Ids(fresh)
  BY <1>13, <1>14
<1> QED BY <1>6, <1>7, <1>10, <1>12, <1>15 DEF ids, fresh, n0, d

\* skip_message_keys banks and evicts: map and list stay together.
LEMMA SkipKeepsBank ==
    ASSUME NEW s, Typed(s), NEW until \in Nat, skip_message_keys(s, until).err = "none"
    PROVE  BankKept(s, skip_message_keys(s, until).s)
<1> DEFINE t == skip_message_keys(s, until).s
<1> SUFFICES ASSUME BankInv(s) PROVE BankInv(t) /\ (Complete(s) => Complete(t))
  BY DEF BankKept
<1>1. CASE t = s
  BY <1>1
<1>2. CASE t # s
  <2> DEFINE K == s.skipped_keys
             o == s.skipped_key_order
             fresh == SkippedEntries(s, until)
             n0 == s.receiving_msg_number
             ids == [j \in 1..(until - n0) |-> skipped_key_id(s.dhr, n0 + j - 1)]
             ck2 == Advance(s.receiving_chain_key, until - n0)
             kept == {e \in K : e.id \notin Ids(fresh)}
             B == kept \cup fresh
             new == retain(ids, Range(ids) \ Ids(K))
             q == o \o new
             u == [s EXCEPT !.skipped_keys = B, !.skipped_key_order = q]
             w == evict_oldest_skipped_keys(u)
  <2>1. s.receiving_chain_key # None /\ s.dhr # None /\ until > n0
    BY <1>2, SkipShape
  <2>2. t = [bank_skipped_keys(s, until) EXCEPT !.receiving_msg_number = until,
                                                !.receiving_chain_key = ck2]
    BY <1>2 DEF skip_message_keys, Ok, Err
  <2>3. bank_skipped_keys(s, until) = w
    BY Zenon DEF bank_skipped_keys
  <2>4. /\ IsFiniteSet(fresh) /\ \A e, f \in fresh : e.id = f.id => e = f
        /\ ids \in Seq(SkippedIds) /\ IsInjective(ids) /\ Range(ids) = Ids(fresh)
    BY <2>1, FreshBank
  <2>5. fresh \in SUBSET [id : SkippedIds, mk : MsgKeys]
    BY <2>1, FreshEntries
  <2>6. /\ K \in SUBSET [id : SkippedIds, mk : MsgKeys] /\ IsFiniteSet(K)
        /\ \A e, f \in K : e.id = f.id => e = f
        /\ o \in Seq(SkippedIds) /\ IsInjective(o) /\ Range(o) \subseteq Ids(K)
    BY DEF BankInv, BankOf
  <2> HIDE DEF K, o, fresh, ids, n0, t, ck2
  <2>7. /\ new \in Seq(SkippedIds) /\ IsInjective(new)
        /\ Range(new) = Ids(fresh) \ Ids(K)
    <3>1. new \in Seq(SkippedIds) /\ Range(new) = Range(ids) \cap (Range(ids) \ Ids(K))
      BY <2>4, RetainRange
    <3>2. IsInjective(new)
      BY <2>4, RetainInjective
    <3> QED BY <2>4, <3>1, <3>2
  <2>8. /\ q \in Seq(SkippedIds) /\ IsInjective(q)
        /\ Range(q) = Range(o) \cup (Ids(fresh) \ Ids(K))
    <3>1. Range(o) \cap Range(new) = {}
      BY <2>6, <2>7
    <3> HIDE DEF new
    <3> QED BY <2>6, <2>7, <3>1, ConcatIs
  <2>9. Ids(B) = Ids(K) \cup Ids(fresh)
    <3>1. ASSUME NEW x \in Ids(K), x \notin Ids(fresh) PROVE x \in Ids(B)
      <4>1. PICK e \in K : x = e.id
        BY DEF Ids
      <4>2. e \in B
        BY <3>1, <4>1
      <4> QED BY <4>1, <4>2 DEF Ids
    <3>2. ASSUME NEW x \in Ids(fresh) PROVE x \in Ids(B)
      BY DEF Ids
    <3>3. ASSUME NEW x \in Ids(B) PROVE x \in Ids(K) \cup Ids(fresh)
      BY DEF Ids
    <3> QED BY <3>1, <3>2, <3>3
  <2>10. IsFiniteSet(B) /\ B \in SUBSET [id : SkippedIds, mk : MsgKeys]
    <3>1. kept \in SUBSET K
      OBVIOUS
    <3>2. IsFiniteSet(kept)
      BY <2>6, <3>1, FS_Subset
    <3> HIDE DEF kept
    <3>3. IsFiniteSet(kept \cup fresh)
      BY <2>4, <3>2, FS_Union
    <3> QED BY <2>5, <2>6, <3>1, <3>3
  <2>11. \A e, f \in B : e.id = f.id => e = f
    <3>1. ASSUME NEW e \in kept, NEW f \in fresh PROVE e.id # f.id
      BY DEF Ids
    <3> QED BY <2>4, <2>6, <3>1
  <2> HIDE DEF B, q
  <2>12. BankOf(B, q)
    BY <2>6, <2>8, <2>9, <2>10, <2>11 DEF BankOf
  <2>13. Typed(u) /\ u.skipped_keys = B /\ u.skipped_key_order = q
    BY <2>10 DEF Typed
  <2>14. Complete(s) => Complete(u)
    BY <2>8, <2>9, <2>13 DEF Complete, K, o
  <2> HIDE DEF u
  <2>15. BankInv(w) /\ (Complete(u) => Complete(w))
    BY <2>12, <2>13, EvictKeeps
  <2>16. t.skipped_keys = w.skipped_keys /\ t.skipped_key_order = w.skipped_key_order
    <3>1. \E L \in SUBSET u.skipped_keys : \E r :
             w = [u EXCEPT !.skipped_keys = L, !.skipped_key_order = r]
      BY <2>13, EvictShrinks
    <3> HIDE DEF w
    <3> QED BY <2>2, <2>3, <2>13, <3>1 DEF Typed
  <2> HIDE DEF w
  <2>17. BankInv(t) /\ (Complete(s) => Complete(t))
    BY <2>14, <2>15, <2>16 DEF BankInv, Complete
  <2> QED BY <2>17 DEF t
<1> QED BY <1>1, <1>2

\* What leaves the two fields alone keeps them.
LEMMA BankUntouched ==
    ASSUME NEW s, NEW t, t.skipped_keys = s.skipped_keys, t.skipped_key_order = s.skipped_key_order
    PROVE  BankKept(s, t)
BY DEF BankKept, BankInv, Complete

\* A used key leaves the map and the list.
LEMMA SkippedKeepsBank ==
    ASSUME NEW s, Typed(s), NEW m, try_skipped_message_key(s, m).err = "none"
    PROVE  BankKept(s, try_skipped_message_key(s, m).s)
<1> DEFINE id == skipped_key_id(m.header.dh, m.header.n)
           K == s.skipped_keys
           o == s.skipped_key_order
           L == {e \in K : e.id # id}
           r == retain(o, Range(o) \ {id})
           t == try_skipped_message_key(s, m).s
<1> SUFFICES ASSUME BankInv(s) PROVE BankInv(t) /\ (Complete(s) => Complete(t))
  BY DEF BankKept
<1>1. t = [s EXCEPT !.skipped_keys = L, !.skipped_key_order = r]
  BY DEF try_skipped_message_key, Ok, Err
<1>2. /\ K \in SUBSET [id : SkippedIds, mk : MsgKeys] /\ IsFiniteSet(K)
      /\ \A e, f \in K : e.id = f.id => e = f
      /\ o \in Seq(SkippedIds) /\ IsInjective(o) /\ Range(o) \subseteq Ids(K)
      /\ Cardinality(K) <= MAX_SKIPPED_KEYS
  BY DEF BankInv, BankOf
<1>3. t.skipped_keys = L /\ t.skipped_key_order = r
  BY <1>1 DEF Typed
<1> HIDE DEF t, K, o, id
<1>4. r \in Seq(SkippedIds) /\ IsInjective(r) /\ Range(r) = Range(o) \ {id}
  <2>1. r \in Seq(SkippedIds) /\ Range(r) = Range(o) \cap (Range(o) \ {id})
    BY <1>2, RetainRange
  <2>2. IsInjective(r)
    BY <1>2, RetainInjective
  <2> QED BY <2>1, <2>2
<1>5. Ids(L) = Ids(K) \ {id}
  BY DEF Ids
<1>6. L \in SUBSET K
  OBVIOUS
<1>7. IsFiniteSet(L) /\ Cardinality(L) <= MAX_SKIPPED_KEYS /\ \A e, f \in L : e.id = f.id => e = f
  <2>1. IsFiniteSet(L) /\ Cardinality(L) <= Cardinality(K)
    BY <1>2, <1>6, FS_Subset
  <2>2. Cardinality(L) \in Nat /\ Cardinality(K) \in Nat
    BY <1>2, <2>1, FS_CardinalityType
  <2> HIDE DEF L
  <2> QED BY <1>2, <1>6, <2>1, <2>2, LimitsAssumption
<1> HIDE DEF L, r
<1>8. BankOf(L, r)
  BY <1>2, <1>4, <1>5, <1>6, <1>7 DEF BankOf
<1>9. BankInv(t) /\ (Complete(s) => Complete(t))
  BY <1>3, <1>4, <1>5, <1>7, <1>8 DEF BankInv, Complete, K, o
<1> QED BY <1>9 DEF t

LEMMA ForwardKeepsBank ==
    ASSUME NEW p \in Party, NEW s, Safe(p, s), NEW header \in Headers, header.dh # None,
           Forward(s, header).err = "none"
    PROVE  BankKept(s, Forward(s, header).s)
<1>0. header.dh \in PubKeys /\ header.pn \in Nat /\ header.n \in Nat /\ Typed(s)
  BY DEF Headers, Safe
<1>1. CASE s.dhr = header.dh
  <2>1. Forward(s, header) = skip_message_keys(s, header.n)
    BY <1>1 DEF Forward
  <2> QED BY <1>0, <2>1, SkipKeepsBank
<1>2. CASE s.dhr # header.dh
  <2> DEFINE a == skip_message_keys(s, header.pn)
             b == dh_ratchet_step(a.s, header.dh)
             c == skip_message_keys(b, header.n)
  <2>1. a.err = "none" /\ Forward(s, header) = c
    BY <1>2 DEF Forward
  <2>2. Safe(p, a.s) /\ BankKept(s, a.s)
    BY <1>0, <2>1, SkipIsSafe, SkipKeepsBank
  <2> HIDE DEF a
  <2>3. Safe(p, b)
    BY <1>0, <2>2, StepIsSafe
  <2>4. b.skipped_keys = a.s.skipped_keys /\ b.skipped_key_order = a.s.skipped_key_order
    BY <2>2 DEF dh_ratchet_step, Safe, Typed
  <2> HIDE DEF b
  <2>5. BankKept(a.s, b)
    BY <2>4, BankUntouched
  <2>6. Typed(b)
    BY <2>3 DEF Safe
  <2>7. BankKept(b, c.s)
    BY <1>0, <2>1, <2>6, SkipKeepsBank
  <2> QED BY <2>1, <2>2, <2>5, <2>7 DEF BankKept
<1> QED BY <1>1, <1>2

LEMMA DecryptKeepsBank ==
    ASSUME NEW p \in Party, NEW s, Safe(p, s), NEW m \in Messages,
           ratchet_decrypt(s, m).err = "none"
    PROVE  BankKept(s, ratchet_decrypt(s, m).s)
<1> DEFINE r == ratchet_decrypt_inner(s, m)
<1>1. r.err = "none" /\ ratchet_decrypt(s, m) = r
  BY DEF ratchet_decrypt, Err
<1>2. m.header.dh # None /\ m.header \in Headers /\ Typed(s)
  BY <1>1 DEF ratchet_decrypt_inner, Err, Messages, Safe
<1>3. CASE HasSkippedKey(s, m.header)
  <2>1. r = try_skipped_message_key(s, m)
    BY <1>2, <1>3 DEF ratchet_decrypt_inner
  <2> QED BY <1>1, <1>2, <2>1, SkippedKeepsBank
<1>4. CASE ~HasSkippedKey(s, m.header)
  <2> DEFINE at == Forward(s, m.header)
  <2>1. at.err = "none" /\ r = OpenNext(at.s, m)
    BY <1>1, <1>2, <1>4 DEF ratchet_decrypt_inner, Err
  <2>2. Safe(p, at.s) /\ BankKept(s, at.s)
    BY <1>2, <2>1, ForwardIsSafe, ForwardKeepsBank
  <2> HIDE DEF at, r
  <2>3. r.s.skipped_keys = at.s.skipped_keys /\ r.s.skipped_key_order = at.s.skipped_key_order
    BY <1>1, <2>1, <2>2 DEF OpenNext, Ok, Err, Safe, Typed
  <2>4. BankKept(at.s, r.s)
    BY <2>3, BankUntouched
  <2> QED BY <1>1, <2>2, <2>4 DEF BankKept
<1> QED BY <1>3, <1>4

---------------------------------------------------------------------------
(* Chains are numbered.  Either side makes one key pair a chain, so the    *)
(* number of the pair follows from the length of the root key, and that of *)
(* a chain from the length of the root key its messages are sealed under.  *)

\* The number of the first chain that p receives on, or starts from.
Base(p) == Parity(Peer(p))

\* p's own key pair, and the peer's that it knows.
Numbered(p, s) ==
    /\ s.dhs[1] = p
    /\ Len(s.root_key) = 2 * s.dhs[2] - Parity(p)
    /\ s.dhr = None => s.root_key = <<>> /\ Base(p) = 1 /\ s.receiving_chain_key = None
    /\ s.dhr # None => /\ s.dhr[1] = Peer(p)
                       /\ s.dhr[2] >= Base(p)
                       /\ Len(s.root_key) = 2 * s.dhr[2] + 1 - Base(p)

\* A message that q sealed.
NumberedMessage(q, m) ==
    /\ m.header.dh \in PubKeys
    /\ m.header.dh[1] = q
    /\ Len(m.sealed.key.rk) = 2 * m.header.dh[2] - Parity(q)

\* A place in a chain that p has come past.
Reached(p, s, dh, n) ==
    /\ s.dhr # None
    /\ dh \in PubKeys /\ n \in Nat
    /\ dh[1] = Peer(p)
    /\ dh[2] >= Base(p) /\ dh[2] <= s.dhr[2]
    /\ dh = s.dhr => n < s.receiving_msg_number

\* What is banked or, of the messages in R, was read is such a place, and never
\* the same one.
Known(p, s, R) ==
    /\ Numbered(p, s)
    /\ \A e \in s.skipped_keys : Reached(p, s, e.id[1], e.id[2])
    /\ \A m \in R : /\ Reached(p, s, m.header.dh, m.header.n)
                    /\ skipped_key_id(m.header.dh, m.header.n) \notin Ids(s.skipped_keys)

\* The list holds the last chains before the current one, in their order: all
\* of them, or MAX_RETIRED_DH_KEYS.
Remembers(p, s) ==
    LET L == s.retired_peer_dh_keys
        c == s.dhr[2]
    IN  /\ s.dhr = None => L = <<>>
        /\ s.dhr # None =>
              /\ Len(L) <= MAX_RETIRED_DH_KEYS
              /\ Len(L) <= c - Base(p)
              /\ Len(L) = MAX_RETIRED_DH_KEYS \/ Len(L) = c - Base(p)
              /\ \A i \in 1..Len(L) : L[i] = <<Peer(p), c - Len(L) + i - 1>>

\* The invariant of a party's lists.
ListsInv(p) ==
    /\ st[p].retired_peer_dh_keys \in Seq(PubKeys)
    /\ BankInv(st[p])
    /\ p \notin upgraded => Complete(st[p])
    /\ ~Zeroed(st[p]) => /\ Known(p, st[p], Range(read[p]))
                         /\ p \notin upgraded => Remembers(p, st[p])

BankedInv ==
    /\ upgraded \subseteq Party
    /\ \A p \in Party : \A m \in Range(sent[p]) : NumberedMessage(p, m)
    /\ \A p \in Party : ListsInv(p)

\* t is s with the receiving chain forwarded.
Forwarded(s, t) ==
    /\ t.root_key = s.root_key /\ t.dhs = s.dhs /\ t.dhr = s.dhr
    /\ t.retired_peer_dh_keys = s.retired_peer_dh_keys
    /\ s.receiving_chain_key = None => t.receiving_chain_key = None
    /\ s.receiving_msg_number \in Nat /\ t.receiving_msg_number \in Nat
    /\ t.receiving_msg_number >= s.receiving_msg_number
    /\ \A e \in t.skipped_keys :
          \/ e \in s.skipped_keys
          \/ /\ s.dhr \in PubKeys /\ e.id[1] = s.dhr /\ e.id[2] \in Nat
             /\ e.id[2] >= s.receiving_msg_number /\ e.id[2] < t.receiving_msg_number

LEMMA SkipForwards ==
    ASSUME NEW s, Typed(s), NEW until \in Nat, skip_message_keys(s, until).err = "none"
    PROVE  LET t == skip_message_keys(s, until).s
           IN  /\ Forwarded(s, t)
               /\ s.receiving_chain_key # None /\ s.dhr # None /\ until >= s.receiving_msg_number
                     => t.receiving_msg_number = until
<1> DEFINE t == skip_message_keys(s, until).s
           n0 == s.receiving_msg_number
<1>0. n0 \in Nat
  BY DEF Typed
<1>1. CASE t = s
  <2>1. Forwarded(s, s)
    BY <1>0 DEF Forwarded
  <2>2. ASSUME s.receiving_chain_key # None, s.dhr # None, until >= n0
        PROVE  t.receiving_msg_number = until
    <3>1. CASE until <= n0
      BY <1>0, <1>1, <2>2, <3>1
    <3>2. CASE ~(until <= n0)
      <4> DEFINE ck2 == Advance(s.receiving_chain_key, until - n0)
                 w == bank_skipped_keys(s, until)
      <4>1. t = [w EXCEPT !.receiving_msg_number = until, !.receiving_chain_key = ck2]
        BY <2>2, <3>2 DEF skip_message_keys, Ok, Err
      <4> HIDE DEF t, ck2, w
      <4>2. \A x : "receiving_msg_number" \in DOMAIN x =>
               [x EXCEPT !.receiving_msg_number = until, !.receiving_chain_key = ck2].receiving_msg_number = until
        OBVIOUS
      <4>3. DOMAIN t = DOMAIN w
        BY <4>1
      <4>4. "receiving_msg_number" \in DOMAIN t
        BY <1>1 DEF Typed
      <4> QED BY <4>1, <4>2, <4>3, <4>4
    <3> QED BY <3>1, <3>2
  <2> QED BY <1>1, <2>1, <2>2
<1>2. CASE t # s
  <2> DEFINE fresh == SkippedEntries(s, until)
             ck2 == Advance(s.receiving_chain_key, until - n0)
  <2>1. s.receiving_chain_key # None /\ s.dhr # None /\ until > n0
    BY <1>2, SkipShape
  <2>2. PICK K \in SUBSET (s.skipped_keys \cup fresh) : \E o :
           t = [s EXCEPT !.skipped_keys = K, !.skipped_key_order = o,
                         !.receiving_msg_number = until, !.receiving_chain_key = ck2]
    BY <1>2, SkipShape
  <2>3. PICK o : t = [s EXCEPT !.skipped_keys = K, !.skipped_key_order = o,
                               !.receiving_msg_number = until, !.receiving_chain_key = ck2]
    BY <2>2
  <2>4. s.dhr \in PubKeys
    BY <2>1 DEF Typed
  <2>5. \A e \in fresh : /\ e.id[1] = s.dhr /\ e.id[2] \in Nat
                         /\ e.id[2] >= n0 /\ e.id[2] < until
    BY <1>0 DEF SkippedEntries, skipped_key_id
  <2> HIDE DEF fresh, t, ck2
  <2>6. /\ t.root_key = s.root_key /\ t.dhs = s.dhs /\ t.dhr = s.dhr
        /\ t.retired_peer_dh_keys = s.retired_peer_dh_keys
        /\ t.receiving_msg_number = until /\ t.skipped_keys = K
    BY <2>3 DEF Typed
  <2>7. Forwarded(s, t)
    BY <1>0, <2>1, <2>2, <2>4, <2>5, <2>6 DEF Forwarded
  <2> QED BY <2>6, <2>7 DEF t
<1> QED BY <1>1, <1>2

LEMMA PairEq ==
    ASSUME NEW a \in PubKeys, NEW b \in PubKeys, a[1] = b[1], a[2] = b[2]
    PROVE  a = b
BY DEF PubKeys

\* Going forward comes past the keys it banks, and banks none that was read.
LEMMA ForwardedKnown ==
    ASSUME NEW p \in Party, NEW s, Typed(s), NEW t, Forwarded(s, t), NEW R, Known(p, s, R)
    PROVE  Known(p, t, R)
<1>1. ASSUME NEW dh, NEW n, Reached(p, s, dh, n) PROVE Reached(p, t, dh, n)
  BY <1>1 DEF Reached, Forwarded
<1>2. Numbered(p, t)
  BY DEF Known, Numbered, Forwarded
<1>3. ASSUME NEW e \in t.skipped_keys PROVE Reached(p, t, e.id[1], e.id[2])
  <2>1. CASE e \in s.skipped_keys
    BY <1>1, <2>1 DEF Known
  <2>2. CASE /\ s.dhr \in PubKeys /\ e.id[1] = s.dhr /\ e.id[2] \in Nat
             /\ e.id[2] < t.receiving_msg_number
    <3>1. s.dhr # None /\ t.dhr = s.dhr
      BY <2>2, NoneAssumption DEF Forwarded
    <3>2. s.dhr[1] = Peer(p) /\ s.dhr[2] >= Base(p) /\ s.dhr[2] \in Nat
      BY <2>2, <3>1 DEF Known, Numbered, PubKeys
    <3> QED BY <2>2, <3>1, <3>2 DEF Reached
  <2> QED BY <2>1, <2>2 DEF Forwarded
<1>4. ASSUME NEW m \in R
      PROVE  /\ Reached(p, t, m.header.dh, m.header.n)
             /\ skipped_key_id(m.header.dh, m.header.n) \notin Ids(t.skipped_keys)
  <2>1. /\ Reached(p, s, m.header.dh, m.header.n)
        /\ skipped_key_id(m.header.dh, m.header.n) \notin Ids(s.skipped_keys)
    BY DEF Known
  <2>2. ASSUME NEW e \in t.skipped_keys, e.id = <<m.header.dh, m.header.n>>
        PROVE  FALSE
    <3>1. e.id[1] = m.header.dh /\ e.id[2] = m.header.n
      BY <2>2
    <3>2. CASE e \in s.skipped_keys
      BY <2>1, <2>2, <3>2 DEF Ids, skipped_key_id
    <3>3. CASE e.id[1] = s.dhr /\ e.id[2] \in Nat /\ e.id[2] >= s.receiving_msg_number
      BY <2>1, <3>1, <3>3 DEF Reached, Forwarded
    <3> QED BY <2>2, <3>2, <3>3 DEF Forwarded
  <2>3. skipped_key_id(m.header.dh, m.header.n) \notin Ids(t.skipped_keys)
    BY <2>2 DEF Ids, skipped_key_id
  <2> QED BY <1>1, <2>1, <2>3
<1> QED BY <1>2, <1>3, <1>4 DEF Known

LEMMA ForwardedRemembers ==
    ASSUME NEW p \in Party, NEW s, NEW t, Forwarded(s, t), Remembers(p, s)
    PROVE  Remembers(p, t)
BY DEF Remembers, Forwarded

\* The peer's next key pair.
NextChain(p, s, dh) ==
    /\ dh \in PubKeys
    /\ dh[1] = Peer(p)
    /\ dh[2] = IF s.dhr = None THEN Base(p) ELSE s.dhr[2] + 1

LEMMA BaseType == \A p \in Party : Base(p) \in {0, 1} /\ Parity(p) \in {0, 1} /\ Peer(p) \in Party
BY DEF Base, Parity, Peer, Party

\* What dh_ratchet_step does to the numbers and the lists.
LEMMA StepIs ==
    ASSUME NEW s, Typed(s), NEW dh \in PubKeys
    PROVE  LET t == dh_ratchet_step(s, dh)
           IN  /\ t.dhr = dh
               /\ t.dhs = <<s.dhs[1], s.dhs[2] + 1>>
               /\ Len(t.root_key) = Len(s.root_key) + 2
               /\ t.receiving_msg_number = 0
               /\ t.skipped_keys = s.skipped_keys
               /\ t.skipped_key_order = s.skipped_key_order
               /\ t.retired_peer_dh_keys = RetirePeerKey(s, dh)
<1> DEFINE d1 == x25519_derive_shared(s.dhs, dh)
           new_dhs == generate_x25519(s.dhs)
           d2 == x25519_derive_shared(new_dhs, dh)
           rk1 == Append(s.root_key, d1)
           rk2 == Append(rk1, d2)
           recv == [rk |-> rk1, i |-> 0]
           send == [rk |-> rk2, i |-> 0]
           old == RetirePeerKey(s, dh)
           t == dh_ratchet_step(s, dh)
<1>0. s.root_key \in Seq(SUBSET PubKeys) /\ s.dhs \in PubKeys
  BY DEF Typed, RootKeys
<1>1. new_dhs \in PubKeys /\ new_dhs = <<s.dhs[1], s.dhs[2] + 1>>
  BY <1>0 DEF generate_x25519, PubKeys
<1>2. d1 \in SUBSET PubKeys /\ d2 \in SUBSET PubKeys
  BY <1>0, <1>1 DEF x25519_derive_shared
<1>4. t = [s EXCEPT
                !.previous_sending_chain_length = s.sending_msg_number,
                !.sending_msg_number = 0,
                !.receiving_msg_number = 0,
                !.retired_peer_dh_keys = old,
                !.dhr = dh,
                !.receiving_chain_key = recv,
                !.dhs = new_dhs,
                !.root_key = rk2,
                !.sending_chain_key = send]
  BY Zenon DEF dh_ratchet_step, kdf_rk
<1> HIDE DEF d1, d2, new_dhs
<1>3. Len(rk2) = Len(s.root_key) + 2
  BY <1>0, <1>2
<1> HIDE DEF t, rk1, rk2, old, recv, send
<1>5. /\ t.dhr = dh /\ t.dhs = new_dhs /\ t.root_key = rk2
      /\ t.receiving_msg_number = 0
      /\ t.skipped_keys = s.skipped_keys /\ t.skipped_key_order = s.skipped_key_order
      /\ t.retired_peer_dh_keys = old
  BY <1>4 DEF Typed
<1> QED BY <1>1, <1>3, <1>5 DEF t, old

LEMMA StepKnown ==
    ASSUME NEW p \in Party, NEW s, Typed(s), NEW R, Known(p, s, R), NEW dh, NextChain(p, s, dh),
           dh_ratchet_step(s, dh).receiving_chain_key # None
    PROVE  Known(p, dh_ratchet_step(s, dh), R)
<1> DEFINE t == dh_ratchet_step(s, dh)
<1>0. dh \in PubKeys /\ dh # None /\ dh[2] \in Nat /\ s.dhs \in PubKeys /\ Len(s.root_key) \in Nat
  BY NoneAssumption DEF NextChain, PubKeys, Typed, RootKeys
<1>1. /\ t.dhr = dh
      /\ t.dhs = <<s.dhs[1], s.dhs[2] + 1>>
      /\ Len(t.root_key) = Len(s.root_key) + 2
      /\ t.receiving_msg_number = 0
      /\ t.skipped_keys = s.skipped_keys
  BY <1>0, StepIs
<1> HIDE DEF t
<1>2. s.dhs[2] \in Nat /\ Base(p) \in {0, 1} /\ Parity(p) \in {0, 1}
  BY <1>0, BaseType DEF PubKeys
<1>3. s.dhr # None => s.dhr \in PubKeys /\ s.dhr[2] \in Nat
  BY DEF Typed, PubKeys
<1>4. ASSUME NEW d, NEW n, Reached(p, s, d, n) PROVE Reached(p, t, d, n)
  <2>1. s.dhr # None /\ d \in PubKeys /\ d[2] \in Nat /\ n \in Nat /\ d[2] <= s.dhr[2]
        /\ d[1] = Peer(p) /\ d[2] >= Base(p)
    BY <1>4 DEF Reached, PubKeys
  <2>2. dh[2] = s.dhr[2] + 1
    BY <2>1 DEF NextChain
  <2>3. d # dh /\ d[2] <= dh[2]
    BY <1>0, <1>3, <2>1, <2>2
  <2> QED BY <1>0, <1>1, <2>1, <2>3 DEF Reached
<1>5. Numbered(p, t)
  <2>1. s.dhs[1] = p /\ Len(s.root_key) = 2 * s.dhs[2] - Parity(p)
    BY DEF Known, Numbered
  <2>2. t.dhs[1] = p /\ t.dhs[2] = s.dhs[2] + 1
    BY <1>1, <2>1
  <2>3. Len(t.root_key) = 2 * t.dhs[2] - Parity(p)
    BY <1>1, <1>2, <2>1, <2>2
  <2>4. dh[1] = Peer(p) /\ dh[2] >= Base(p) /\ Len(t.root_key) = 2 * dh[2] + 1 - Base(p)
    <3>1. CASE s.dhr = None
      <4>1. Len(s.root_key) = 0 /\ Base(p) = 1
        BY <3>1 DEF Known, Numbered
      <4>2. dh[1] = Peer(p) /\ dh[2] = Base(p)
        BY <3>1 DEF NextChain
      <4> QED BY <1>1, <4>1, <4>2
    <3>2. CASE s.dhr # None
      <4>1. Len(s.root_key) = 2 * s.dhr[2] + 1 - Base(p) /\ s.dhr[2] >= Base(p)
        BY <3>2 DEF Known, Numbered
      <4>2. dh[1] = Peer(p) /\ dh[2] = s.dhr[2] + 1
        BY <3>2 DEF NextChain
      <4> QED BY <1>1, <1>2, <1>3, <3>2, <4>1, <4>2
    <3> QED BY <3>1, <3>2
  <2> QED BY <1>0, <1>1, <2>2, <2>3, <2>4 DEF Numbered
<1>6. Known(p, t, R)
  BY <1>1, <1>4, <1>5 DEF Known
<1> QED BY <1>6 DEF t

\* The chain that ends is remembered, the oldest one forgotten if need be.
LEMMA StepRemembers ==
    ASSUME NEW p \in Party, NEW s, Typed(s), s.retired_peer_dh_keys \in Seq(PubKeys),
           Numbered(p, s), NEW dh, NextChain(p, s, dh), Remembers(p, s)
    PROVE  Remembers(p, dh_ratchet_step(s, dh))
<1> DEFINE t == dh_ratchet_step(s, dh)
           L == s.retired_peer_dh_keys
           l == Len(L)
           c == s.dhr[2]
           M == t.retired_peer_dh_keys
<1>0. dh \in PubKeys /\ dh # None /\ dh[2] \in Nat /\ Base(p) \in {0, 1} /\ MAX_RETIRED_DH_KEYS \in Nat
  BY NoneAssumption, LimitsAssumption, BaseType DEF NextChain, PubKeys
<1>1. t.dhr = dh /\ M = RetirePeerKey(s, dh)
  BY <1>0, StepIs
<1> HIDE DEF t, M
<1>2. CASE s.dhr = None
  <2>1. L = <<>> /\ dh[2] = Base(p)
    BY <1>2 DEF Remembers, NextChain
  <2>2. M = <<>>
    BY <1>1, <1>2, <2>1 DEF RetirePeerKey
  <2>3. Len(M) = 0
    BY <2>2
  <2>4. Remembers(p, t)
    BY <1>0, <1>1, <2>1, <2>3 DEF Remembers, M
  <2> QED BY <2>4 DEF t
<1>3. CASE s.dhr # None
  <2>1. s.dhr \in PubKeys /\ c \in Nat /\ s.dhr = <<Peer(p), c>> /\ c >= Base(p)
    BY <1>3 DEF Typed, PubKeys, Numbered
  <2>2. dh[2] = c + 1 /\ dh[1] = Peer(p)
    BY <1>3 DEF NextChain
  <2>3. /\ l <= MAX_RETIRED_DH_KEYS /\ l <= c - Base(p)
        /\ l = MAX_RETIRED_DH_KEYS \/ l = c - Base(p)
        /\ \A i \in 1..l : L[i] = <<Peer(p), c - l + i - 1>>
    BY <1>3 DEF Remembers
  <2>4. l \in Nat /\ DOMAIN L = 1..l
    OBVIOUS
  <2> HIDE DEF L, l, c
  <2>5. s.dhr # dh
    BY <2>1, <2>2
  <2>6. s.dhr \notin Range(L)
    <3>1. ASSUME NEW i \in 1..l PROVE L[i] # s.dhr
      <4>1. L[i] = <<Peer(p), c - l + i - 1>>
        BY <2>3
      <4>2. c - l + i - 1 # c
        BY <2>1, <2>4
      <4> QED BY <2>1, <4>1, <4>2
    <3> QED BY <2>4, <3>1 DEF Range
  <2> DEFINE P == Append(L, s.dhr)
  <2>7. M = IF Len(P) > MAX_RETIRED_DH_KEYS THEN Tail(P) ELSE P
    BY <1>1, <1>3, <2>5, <2>6 DEF RetirePeerKey, L
  <2>8. L \in Seq(PubKeys)
    BY DEF L
  <2>9. /\ P \in Seq(PubKeys) /\ Len(P) = l + 1
        /\ \A i \in 1..l : P[i] = L[i]
        /\ P[l + 1] = s.dhr
    BY <2>1, <2>8 DEF l
  <2> HIDE DEF P
  <2>10. \A i \in 1..l + 1 : P[i] = <<Peer(p), c - l + i - 1>>
    <3>1. ASSUME NEW i \in 1..l + 1 PROVE P[i] = <<Peer(p), c - l + i - 1>>
      <4>1. CASE i \in 1..l
        BY <2>3, <2>9, <4>1
      <4>2. CASE i = l + 1
        <5>1. c - l + i - 1 = c
          BY <2>1, <2>4, <4>2
        <5> QED BY <2>1, <2>9, <4>2, <5>1
      <4> QED BY <2>4, <4>1, <4>2
    <3> QED BY <3>1
  <2>11. CASE l + 1 > MAX_RETIRED_DH_KEYS
    <3>1. M = Tail(P) /\ l = MAX_RETIRED_DH_KEYS
      BY <1>0, <2>3, <2>4, <2>7, <2>9, <2>11
    <3>2. Len(M) = l /\ \A i \in 1..l : M[i] = P[i + 1]
      <4>1. P # <<>>
        BY <2>4, <2>9
      <4>2. Len(Tail(P)) = Len(P) - 1 /\ \A i \in 1..Len(P) - 1 : Tail(P)[i] = P[i + 1]
        BY <2>9, <4>1
      <4>3. Len(P) - 1 = l
        BY <2>4, <2>9
      <4> QED BY <3>1, <4>2, <4>3
    <3>3. ASSUME NEW i \in 1..l PROVE M[i] = <<Peer(p), (c + 1) - l + i - 1>>
      <4>1. i + 1 \in 1..l + 1 /\ c - l + (i + 1) - 1 = (c + 1) - l + i - 1
        BY <2>1, <2>4
      <4> QED BY <2>10, <3>2, <4>1
    <3>4. l <= (c + 1) - Base(p)
      BY <1>0, <2>1, <2>3, <2>4
    <3>5. Remembers(p, t)
      BY <1>0, <1>1, <2>2, <2>3, <3>1, <3>2, <3>3, <3>4 DEF Remembers, M
    <3> QED BY <3>5 DEF t
  <2>12. CASE ~(l + 1 > MAX_RETIRED_DH_KEYS)
    <3>1. M = P
      BY <2>7, <2>9, <2>12
    <3>2. Len(M) = l + 1 /\ l + 1 <= MAX_RETIRED_DH_KEYS /\ l = c - Base(p)
      BY <1>0, <2>3, <2>4, <2>9, <2>12, <3>1
    <3>3. ASSUME NEW i \in 1..l + 1 PROVE M[i] = <<Peer(p), (c + 1) - (l + 1) + i - 1>>
      <4>1. c - l + i - 1 = (c + 1) - (l + 1) + i - 1
        BY <2>1, <2>4
      <4> QED BY <2>10, <3>1, <4>1
    <3>4. l + 1 = (c + 1) - Base(p)
      BY <1>0, <2>1, <2>4, <3>2
    <3>5. Remembers(p, t)
      BY <1>0, <1>1, <2>2, <3>2, <3>3, <3>4 DEF Remembers, M
    <3> QED BY <3>5 DEF t
  <2> QED BY <2>11, <2>12
<1> QED BY <1>2, <1>3

LEMMA RetiredType ==
    ASSUME NEW s, Typed(s), s.retired_peer_dh_keys \in Seq(PubKeys), NEW dh
    PROVE  RetirePeerKey(s, dh) \in Seq(PubKeys)
<1> DEFINE L == s.retired_peer_dh_keys
           P == Append(L, s.dhr)
<1>1. CASE s.dhr = None \/ s.dhr = dh \/ s.dhr \in Range(L)
  BY <1>1 DEF RetirePeerKey
<1>2. CASE ~(s.dhr = None \/ s.dhr = dh \/ s.dhr \in Range(L))
  <2>1. s.dhr \in PubKeys
    BY <1>2 DEF Typed
  <2>2. P \in Seq(PubKeys) /\ P # <<>>
    BY <2>1
  <2>3. RetirePeerKey(s, dh) = IF Len(P) > MAX_RETIRED_DH_KEYS THEN Tail(P) ELSE P
    BY <1>2, Zenon DEF RetirePeerKey
  <2> HIDE DEF P
  <2>4. Tail(P) \in Seq(PubKeys)
    BY <2>2
  <2> QED BY <2>2, <2>3, <2>4
<1> QED BY <1>1, <1>2

\* What the lists of p go through when it opens m: s before, t after.
ListsKept(p, s, m, t) ==
    /\ s.retired_peer_dh_keys \in Seq(PubKeys) => t.retired_peer_dh_keys \in Seq(PubKeys)
    /\ \A R : Known(p, s, R) => Known(p, t, R \cup {m})
    /\ \A R : /\ Known(p, s, R) /\ s.retired_peer_dh_keys \in Seq(PubKeys) /\ Remembers(p, s)
              => Remembers(p, t)

\* A banked key is used: its place is read now and no longer banked.
LEMMA SkippedKnown ==
    ASSUME NEW p \in Party, NEW s, Typed(s), NEW m, HasSkippedKey(s, m.header),
           try_skipped_message_key(s, m).err = "none"
    PROVE  ListsKept(p, s, m, try_skipped_message_key(s, m).s)
<1> DEFINE id == skipped_key_id(m.header.dh, m.header.n)
           K == s.skipped_keys
           L == {e \in K : e.id # id}
           r == retain(s.skipped_key_order, Range(s.skipped_key_order) \ {id})
           t == try_skipped_message_key(s, m).s
<1>1. t = [s EXCEPT !.skipped_keys = L, !.skipped_key_order = r]
  BY DEF try_skipped_message_key, Ok, Err
<1>2. PICK e \in K : e.id = id
  BY DEF HasSkippedKey, Ids
<1>3. e.id[1] = m.header.dh /\ e.id[2] = m.header.n
  BY <1>2 DEF skipped_key_id
<1> HIDE DEF id, K, L, r, t
<1>4. /\ t.skipped_keys = L
      /\ t.retired_peer_dh_keys = s.retired_peer_dh_keys
      /\ t.dhr = s.dhr /\ t.dhs = s.dhs /\ t.root_key = s.root_key
      /\ t.receiving_chain_key = s.receiving_chain_key
      /\ t.receiving_msg_number = s.receiving_msg_number
  BY <1>1 DEF Typed
<1>5. L \subseteq K /\ Ids(L) \subseteq Ids(K) /\ id \notin Ids(L)
  BY DEF Ids, L
<1>6. ASSUME NEW R, Known(p, s, R) PROVE Known(p, t, R \cup {m})
  <2>1. \A d, n : Reached(p, s, d, n) => Reached(p, t, d, n)
    BY <1>4 DEF Reached
  <2>2. Numbered(p, t)
    BY <1>4, <1>6 DEF Known, Numbered
  <2>3. \A x \in L : Reached(p, t, x.id[1], x.id[2])
    BY <1>5, <1>6, <2>1 DEF Known, K
  <2>4. Reached(p, t, m.header.dh, m.header.n)
    BY <1>2, <1>3, <1>6, <2>1 DEF Known, K
  <2>5. skipped_key_id(m.header.dh, m.header.n) \notin Ids(L)
    BY <1>5 DEF id
  <2>6. \A x \in R : /\ Reached(p, t, x.header.dh, x.header.n)
                     /\ skipped_key_id(x.header.dh, x.header.n) \notin Ids(L)
    BY <1>5, <1>6, <2>1 DEF Known, K
  <2> QED BY <1>4, <2>2, <2>3, <2>4, <2>5, <2>6 DEF Known
<1>7. Remembers(p, s) => Remembers(p, t)
  BY <1>4 DEF Remembers
<1>8. ListsKept(p, s, m, t)
  BY <1>4, <1>6, <1>7 DEF ListsKept
<1> QED BY <1>8 DEF t

\* The next key of the receiving chain is used, at the message's own number.
LEMMA OpenKnown ==
    ASSUME NEW p \in Party, NEW s, Typed(s), NEW m, OpenNext(s, m).err = "none",
           m.header.dh = s.dhr, s.dhr # None, m.header.n = s.receiving_msg_number
    PROVE  ListsKept(p, s, m, OpenNext(s, m).s)
<1> DEFINE next == kdf_ck(s.receiving_chain_key).next
           n1 == s.receiving_msg_number + 1
           t == OpenNext(s, m).s
<1>1. t = [s EXCEPT !.receiving_chain_key = next, !.receiving_msg_number = n1]
  BY DEF OpenNext, Err, Ok
<1>2. s.receiving_chain_key # None
  BY DEF OpenNext, Err, Ok
<1>3. s.receiving_msg_number \in Nat /\ s.dhr \in PubKeys /\ n1 \in Nat /\ n1 > s.receiving_msg_number
  BY DEF Typed
<1> HIDE DEF next, n1, t
<1>4. /\ t.skipped_keys = s.skipped_keys
      /\ t.retired_peer_dh_keys = s.retired_peer_dh_keys
      /\ t.dhr = s.dhr /\ t.dhs = s.dhs /\ t.root_key = s.root_key
      /\ t.receiving_msg_number = n1
  BY <1>1 DEF Typed
<1>5. ASSUME NEW R, Known(p, s, R) PROVE Known(p, t, R \cup {m})
  <2>1. ASSUME NEW d, NEW n, Reached(p, s, d, n) PROVE Reached(p, t, d, n)
    BY <1>3, <1>4, <2>1 DEF Reached
  <2>2. Numbered(p, t)
    BY <1>2, <1>4, <1>5 DEF Known, Numbered
  <2>3. s.dhr[1] = Peer(p) /\ s.dhr[2] >= Base(p) /\ s.dhr[2] \in Nat
    BY <1>3, <1>5 DEF Known, Numbered, PubKeys
  <2>4. Reached(p, t, m.header.dh, m.header.n)
    BY <1>3, <1>4, <2>3 DEF Reached
  <2>5. skipped_key_id(m.header.dh, m.header.n) \notin Ids(s.skipped_keys)
    <3>1. ASSUME NEW e \in s.skipped_keys, e.id = <<m.header.dh, m.header.n>> PROVE FALSE
      <4>1. e.id[1] = s.dhr /\ e.id[2] = s.receiving_msg_number
        BY <3>1
      <4>2. Reached(p, s, e.id[1], e.id[2])
        BY <1>5 DEF Known
      <4> QED BY <1>3, <4>1, <4>2 DEF Reached
    <3> QED BY <3>1 DEF Ids, skipped_key_id
  <2>6. \A e \in s.skipped_keys : Reached(p, t, e.id[1], e.id[2])
    BY <1>5, <2>1 DEF Known
  <2>7. \A x \in R : /\ Reached(p, t, x.header.dh, x.header.n)
                     /\ skipped_key_id(x.header.dh, x.header.n) \notin Ids(s.skipped_keys)
    BY <1>5, <2>1 DEF Known
  <2> QED BY <1>4, <2>2, <2>4, <2>5, <2>6, <2>7 DEF Known
<1>6. Remembers(p, s) => Remembers(p, t)
  BY <1>4 DEF Remembers
<1>7. ListsKept(p, s, m, t)
  BY <1>4, <1>5, <1>6 DEF ListsKept
<1> QED BY <1>7 DEF t

\* A message of a chain that is not the current one and yet opens is of the next.
LEMMA OpensNextChain ==
    ASSUME NEW p \in Party, NEW s, Typed(s), NEW m, NumberedMessage(Peer(p), m),
           Numbered(p, s), Len(m.sealed.key.rk) + 1 = Len(s.root_key) + 2
    PROVE  NextChain(p, s, m.header.dh)
<1> DEFINE dh == m.header.dh
           l == Len(s.root_key)
           k == Len(m.sealed.key.rk)
<1>1. dh \in PubKeys /\ dh[1] = Peer(p) /\ dh[2] \in Nat /\ k = 2 * dh[2] - Base(p)
  BY DEF NumberedMessage, PubKeys, Base
<1>2. Base(p) \in {0, 1} /\ l \in Nat
  BY BaseType DEF Typed, RootKeys
<1>3. CASE s.dhr = None
  <2>1. Base(p) = 1 /\ l = 0
    BY <1>3 DEF Numbered
  <2> DEFINE x == dh[2]
  <2>2. x \in Nat /\ k + 1 = l + 2 /\ k = 2 * x - Base(p)
    BY <1>1
  <2> HIDE DEF dh, l, k, x
  <2>3. x = 1
    BY <2>1, <2>2
  <2> QED BY <1>1, <1>3, <2>1, <2>3 DEF NextChain, dh, x
<1>4. CASE s.dhr # None
  <2>1. s.dhr[2] \in Nat /\ l = 2 * s.dhr[2] + 1 - Base(p)
    BY <1>4 DEF Numbered, Typed, PubKeys
  <2> DEFINE x == dh[2]
             y == s.dhr[2]
  <2>2. k + 1 = l + 2 /\ k = 2 * x - Base(p)
    BY <1>1
  <2> HIDE DEF dh, l, k, x, y
  <2>3. x = y + 1
    <3>1. x \in Nat /\ y \in Nat /\ l = 2 * y + 1 - Base(p)
      BY <1>1, <2>1 DEF x, y
    <3> QED BY <1>2, <2>2, <3>1
  <2> QED BY <1>1, <1>4, <2>3 DEF NextChain, dh, x, y
<1> QED BY <1>3, <1>4

\* Opening a message moves the receiving side to just behind it.
LEMMA DecryptLists ==
    ASSUME NEW p \in Party, NEW s, Safe(p, s), NEW m \in Messages, NumberedMessage(Peer(p), m),
           ratchet_decrypt(s, m).err = "none"
    PROVE  ListsKept(p, s, m, ratchet_decrypt(s, m).s)
<1> DEFINE r == ratchet_decrypt_inner(s, m)
           dh == m.header.dh
           n == m.header.n
           pn == m.header.pn
<1>1. r.err = "none" /\ ratchet_decrypt(s, m) = r
  BY DEF ratchet_decrypt, Err
<1>2. dh # None /\ dh \in PubKeys /\ n \in Nat /\ pn \in Nat /\ Typed(s) /\ m.header \in Headers
  BY <1>1 DEF ratchet_decrypt_inner, Err, Messages, Headers, Safe
<1>3. CASE HasSkippedKey(s, m.header)
  <2>1. r = try_skipped_message_key(s, m)
    BY <1>2, <1>3 DEF ratchet_decrypt_inner
  <2> QED BY <1>1, <1>2, <1>3, <2>1, SkippedKnown
<1>4. CASE ~HasSkippedKey(s, m.header)
  <2> DEFINE at == Forward(s, m.header)
  <2>1. at.err = "none" /\ r = OpenNext(at.s, m) /\ ~IsReplay(s, m.header)
    BY <1>1, <1>2, <1>4 DEF ratchet_decrypt_inner, Err
  <2>2. Safe(p, at.s)
    BY <1>2, <2>1, ForwardIsSafe
  <2>3. Typed(at.s) /\ at.s.receiving_chain_key # None
        /\ m.sealed.key = at.s.receiving_chain_key
    <3>1. Typed(at.s)
      BY <2>2 DEF Safe
    <3> HIDE DEF at
    <3> QED BY <1>1, <2>1, <3>1 DEF OpenNext, Err, Ok, kdf_ck, aes_gcm_decrypt
  <2>4. CASE s.dhr = dh
    <3>1. at = skip_message_keys(s, n)
      BY <2>4 DEF Forward
    <3>2. n >= s.receiving_msg_number
      BY <1>2, <2>1, <2>4 DEF IsReplay, Typed
    <3>3. Forwarded(s, at.s)
      BY <1>2, <2>1, <3>1, SkipForwards
    <3>4. s.receiving_chain_key # None
      BY <2>3, <3>3 DEF Forwarded
    <3>5. at.s.receiving_msg_number = n
      BY <1>2, <2>1, <2>4, <3>1, <3>2, <3>4, SkipForwards
    <3>6. at.s.dhr = dh /\ at.s.retired_peer_dh_keys = s.retired_peer_dh_keys
      BY <2>4, <3>3 DEF Forwarded
    <3> HIDE DEF at
    <3>7. ListsKept(p, at.s, m, r.s)
      BY <1>1, <1>2, <2>1, <2>3, <3>5, <3>6, OpenKnown
    <3>8. \A R : Known(p, s, R) => Known(p, at.s, R)
      BY <1>2, <3>3, ForwardedKnown
    <3>9. Remembers(p, s) => Remembers(p, at.s)
      BY <3>3, ForwardedRemembers
    <3> HIDE DEF r
    <3>10. ListsKept(p, s, m, r.s)
      BY <3>6, <3>7, <3>8, <3>9 DEF ListsKept
    <3> QED BY <1>1, <3>10
  <2>5. CASE s.dhr # dh
    <3> DEFINE a == skip_message_keys(s, pn)
               b == dh_ratchet_step(a.s, dh)
               c == skip_message_keys(b, n)
    <3>1. a.err = "none" /\ at = c
      BY <2>1, <2>5 DEF Forward
    <3>2. Safe(p, a.s) /\ Forwarded(s, a.s)
      BY <1>2, <3>1, SkipIsSafe, SkipForwards
    <3> HIDE DEF a
    <3>3. Safe(p, b) /\ b.receiving_chain_key # None /\ Typed(a.s)
      <4>1. Typed(a.s)
        BY <3>2 DEF Safe
      <4> QED BY <1>2, <3>2, <4>1, StepIsSafe
    <3>4. /\ b.dhr = dh /\ b.receiving_msg_number = 0
          /\ Len(b.root_key) = Len(a.s.root_key) + 2
          /\ b.retired_peer_dh_keys = RetirePeerKey(a.s, dh)
      BY <1>2, <3>3, StepIs
    <3>5. \A R : Known(p, a.s, R) /\ NextChain(p, a.s, dh) => Known(p, b, R)
      BY <3>3, StepKnown
    <3>6. a.s.retired_peer_dh_keys \in Seq(PubKeys) /\ Numbered(p, a.s) /\ NextChain(p, a.s, dh)
             /\ Remembers(p, a.s) => Remembers(p, b)
      BY <3>3, StepRemembers
    <3>7. a.s.retired_peer_dh_keys \in Seq(PubKeys) => b.retired_peer_dh_keys \in Seq(PubKeys)
      BY <3>3, <3>4, RetiredType
    <3> HIDE DEF b
    <3>8. Typed(b)
      BY <3>3 DEF Safe
    <3>9. Forwarded(b, c.s)
      BY <1>2, <2>1, <3>1, <3>8, SkipForwards
    <3>10. c.s.receiving_msg_number = n
      BY <1>2, <2>1, <3>1, <3>3, <3>4, <3>8, SkipForwards
    <3> HIDE DEF c
    <3>11. c.s.dhr = dh /\ c.s.root_key = b.root_key
           /\ c.s.retired_peer_dh_keys = b.retired_peer_dh_keys
      BY <3>4, <3>9 DEF Forwarded
    <3>12. ListsKept(p, c.s, m, r.s)
      BY <1>1, <1>2, <2>1, <2>3, <3>1, <3>10, <3>11, OpenKnown
    <3>13. Len(m.sealed.key.rk) + 1 = Len(a.s.root_key) + 2
      BY <2>2, <2>3, <3>1, <3>4, <3>11 DEF Safe
    <3>14. Numbered(p, a.s) => NextChain(p, a.s, dh)
      BY <3>3, <3>13, OpensNextChain
    <3>15. \A R : Known(p, s, R) => Known(p, a.s, R)
      BY <1>2, <3>2, ForwardedKnown
    <3>16. \A R : Known(p, a.s, R) => Numbered(p, a.s)
      BY DEF Known
    <3>17. Remembers(p, s) => Remembers(p, a.s)
      BY <3>2, ForwardedRemembers
    <3>18. \A R : Known(p, b, R) => Known(p, c.s, R)
      BY <3>8, <3>9, ForwardedKnown
    <3>19. Remembers(p, b) => Remembers(p, c.s)
      BY <3>9, ForwardedRemembers
    <3>20. a.s.retired_peer_dh_keys = s.retired_peer_dh_keys
      BY <3>2 DEF Forwarded
    <3> HIDE DEF r, at, dh
    <3>21. \A R : Known(p, s, R) => Known(p, c.s, R)
      BY <3>5, <3>14, <3>15, <3>16, <3>18
    <3>22. ListsKept(p, s, m, r.s)
      <4>1. s.retired_peer_dh_keys \in Seq(PubKeys) => r.s.retired_peer_dh_keys \in Seq(PubKeys)
        BY <3>7, <3>11, <3>12, <3>20 DEF ListsKept
      <4>2. \A R : Known(p, s, R) => Known(p, r.s, R \cup {m})
        BY <3>12, <3>21 DEF ListsKept
      <4>3. ASSUME NEW R, Known(p, s, R), s.retired_peer_dh_keys \in Seq(PubKeys), Remembers(p, s)
            PROVE  Remembers(p, r.s)
        <5>1. Known(p, a.s, R) /\ Numbered(p, a.s) /\ NextChain(p, a.s, dh)
          BY <3>14, <3>15, <3>16, <4>3
        <5>2. Remembers(p, c.s)
          BY <3>6, <3>17, <3>19, <3>20, <4>3, <5>1
        <5>3. c.s.retired_peer_dh_keys \in Seq(PubKeys) /\ Known(p, c.s, R)
          BY <3>7, <3>11, <3>20, <3>21, <4>3
        <5> QED BY <3>12, <5>2, <5>3 DEF ListsKept
      <4> QED BY <4>1, <4>2, <4>3 DEF ListsKept
    <3> QED BY <1>1, <3>22
  <2> QED BY <2>4, <2>5
<1> QED BY <1>3, <1>4

---------------------------------------------------------------------------
(* The session.                                                            *)

LEMMA InitBanked ==
    Init => BankedInv
<1> SUFFICES ASSUME Init PROVE BankedInv
  OBVIOUS
<1>1. Spk \in PubKeys /\ <<"initiator", 1>> \in PubKeys /\ Spk # None
  BY NoneAssumption DEF Spk, PubKeys, Party
<1>2. \A p \in Party : Range(sent[p]) = {} /\ Range(read[p]) = {}
  BY DEF Init, Range
<1>3. ASSUME NEW p \in Party, NEW s, s = st[p],
             s.skipped_keys = {}, s.skipped_key_order = <<>>, s.retired_peer_dh_keys = <<>>,
             Numbered(p, s), s.dhr # None => s.dhr[2] = Base(p)
      PROVE  ListsInv(p)
  <2>1. BankInv(s) /\ Complete(s)
    <3>1. IsFiniteSet({}) /\ Cardinality({}) = 0
      BY FS_EmptySet
    <3>2. Range(<<>>) = {} /\ IsInjective(<<>>) /\ <<>> \in Seq(SkippedIds)
      BY DEF Range, IsInjective
    <3>3. Ids({}) = {}
      BY DEF Ids
    <3>4. 0 <= MAX_SKIPPED_KEYS
      BY LimitsAssumption
    <3> QED BY <1>3, <3>1, <3>2, <3>3, <3>4 DEF BankInv, BankOf, Complete
  <2>2. Known(p, s, Range(read[p]))
    BY <1>2, <1>3 DEF Known
  <2>3. Remembers(p, s)
    <3>1. Len(<<>>) = 0 /\ MAX_RETIRED_DH_KEYS \in Nat /\ Base(p) \in {0, 1}
      BY LimitsAssumption, BaseType
    <3>2. Base(p) - Base(p) = 0
      BY <3>1
    <3> QED BY <1>3, <3>1, <3>2 DEF Remembers
  <2> QED BY <1>3, <2>1, <2>2, <2>3 DEF ListsInv
<1>4. ListsInv("initiator")
  <2> DEFINE s == st["initiator"]
             rk == <<{<<"initiator", 1>>, Spk}>>
  <2>1. s.root_key = rk /\ s.dhs = <<"initiator", 1>> /\ s.dhr = Spk
        /\ s.skipped_keys = {} /\ s.skipped_key_order = <<>> /\ s.retired_peer_dh_keys = <<>>
    BY DEF Init, Party, init_initiator, kdf_rk, x25519_derive_shared
  <2>2. Len(rk) = 1
    OBVIOUS
  <2> HIDE DEF rk, s
  <2>3. Peer("initiator") = "responder" /\ Base("initiator") = 0 /\ Parity("initiator") = 1
    BY DEF Peer, Base, Parity
  <2>4. Spk[1] = "responder" /\ Spk[2] = 0
    BY DEF Spk
  <2>5. Numbered("initiator", s)
    BY <1>1, <2>1, <2>2, <2>3, <2>4 DEF Numbered
  <2>6. "initiator" \in Party
    BY DEF Party
  <2> QED BY <1>3, <2>1, <2>3, <2>4, <2>5, <2>6 DEF s
<1>5. ListsInv("responder")
  <2> DEFINE s == st["responder"]
  <2>1. s.root_key = <<>> /\ s.dhs = Spk /\ s.dhr = None /\ s.receiving_chain_key = None
        /\ s.skipped_keys = {} /\ s.skipped_key_order = <<>> /\ s.retired_peer_dh_keys = <<>>
    BY DEF Init, Party, init_responder
  <2> HIDE DEF s
  <2>2. Peer("responder") = "initiator" /\ Base("responder") = 1 /\ Parity("responder") = 0
    BY DEF Peer, Base, Parity
  <2>3. Spk[1] = "responder" /\ Spk[2] = 0 /\ Len(<<>>) = 0
    BY DEF Spk
  <2>4. Numbered("responder", s)
    BY <2>1, <2>2, <2>3 DEF Numbered
  <2>5. "responder" \in Party
    BY DEF Party
  <2> QED BY <1>3, <2>1, <2>4, <2>5 DEF s
<1> QED BY <1>2, <1>4, <1>5 DEF BankedInv, Init, Party

\* What leaves the receiving side, the lists and the key pair alone keeps them.
LEMMA ListsUntouched ==
    ASSUME NEW p, NEW s, NEW t,
           t.root_key = s.root_key, t.dhs = s.dhs, t.dhr = s.dhr,
           t.receiving_chain_key = s.receiving_chain_key,
           t.receiving_msg_number = s.receiving_msg_number,
           t.skipped_keys = s.skipped_keys
    PROVE  /\ \A R : Known(p, s, R) => Known(p, t, R)
           /\ t.retired_peer_dh_keys = s.retired_peer_dh_keys /\ Remembers(p, s) => Remembers(p, t)
<1>1. \A dh, n : Reached(p, s, dh, n) => Reached(p, t, dh, n)
  BY DEF Reached
<1>2. Numbered(p, s) => Numbered(p, t)
  BY DEF Numbered
<1>3. ASSUME NEW R, Known(p, s, R) PROVE Known(p, t, R)
  BY <1>1, <1>2, <1>3 DEF Known
<1>4. t.retired_peer_dh_keys = s.retired_peer_dh_keys /\ Remembers(p, s) => Remembers(p, t)
  BY DEF Remembers
<1> QED BY <1>3, <1>4

\* The party that does not move.
LEMMA OthersLists ==
    ASSUME NEW q \in Party, ListsInv(q), st'[q] = st[q], read'[q] = read[q],
           q \notin upgraded' => q \notin upgraded
    PROVE  ListsInv(q)'
BY DEF ListsInv

\* A message carries the number of the key pair whose chain it is sealed on.
LEMMA EncryptBanked ==
    ASSUME Inv, BankedInv, NEW p \in Party, Encrypt(p)
    PROVE  BankedInv'
<1> DEFINE s == st[p]
           m == EncryptedMessage(s)
           t == ratchet_encrypt(s)
<1>1. SessionType /\ Safe(p, s) /\ s.sending_chain_key # None /\ ~Zeroed(s)
  BY DEF Inv, Encrypt, Zeroed
<1>2. /\ st' = [st EXCEPT ![p] = t] /\ sent' = [sent EXCEPT ![p] = Append(sent[p], m)]
      /\ read' = read /\ upgraded' = upgraded
  BY DEF Encrypt
<1>3. Typed(s) /\ s.sending_chain_key.rk = s.root_key
  BY <1>1 DEF Safe
<1>4. m.header.dh = s.dhs /\ m.sealed.key.rk = s.root_key
  BY <1>3 DEF EncryptedMessage, aes_gcm_encrypt, kdf_ck
<1>5. ListsInv(p) /\ Known(p, s, Range(read[p]))
  BY <1>1 DEF BankedInv, ListsInv
<1>6. NumberedMessage(p, m)
  BY <1>3, <1>4, <1>5 DEF NumberedMessage, Known, Numbered, Typed
<1>7. /\ t.root_key = s.root_key /\ t.dhs = s.dhs /\ t.dhr = s.dhr
      /\ t.receiving_chain_key = s.receiving_chain_key
      /\ t.receiving_msg_number = s.receiving_msg_number
      /\ t.skipped_keys = s.skipped_keys /\ t.skipped_key_order = s.skipped_key_order
      /\ t.retired_peer_dh_keys = s.retired_peer_dh_keys
  BY <1>3 DEF ratchet_encrypt, Typed
<1>8. m \in Messages
  BY <1>1, EncryptIsSafe
<1> HIDE DEF s, m, t
<1>9. st'[p] = t /\ \A q \in Party \ {p} : st'[q] = st[q]
  BY <1>1, <1>2 DEF SessionType
<1>10. \A q \in Party : \A x \in Range(sent'[q]) : NumberedMessage(q, x)
  <2>1. sent'[p] = Append(sent[p], m) /\ \A q \in Party \ {p} : sent'[q] = sent[q]
    BY <1>1, <1>2 DEF SessionType
  <2>2. Range(sent'[p]) = Range(sent[p]) \cup {m}
    BY <1>1, <1>8, <2>1, RangeAppend DEF SessionType
  <2> QED BY <1>6, <2>1, <2>2 DEF BankedInv
<1>11. BankKept(s, t)
  BY <1>7, BankUntouched
<1>12. Known(p, t, Range(read[p])) /\ (Remembers(p, s) => Remembers(p, t))
  BY <1>5, <1>7, ListsUntouched
<1>13. ListsInv(p)'
  <2>1. BankInv(t) /\ (p \notin upgraded => Complete(t)) /\ t.retired_peer_dh_keys \in Seq(PubKeys)
    BY <1>5, <1>7, <1>11 DEF ListsInv, BankKept, s
  <2>2. p \notin upgraded => Remembers(p, t)
    BY <1>1, <1>5, <1>12 DEF ListsInv, s
  <2> QED BY <1>2, <1>9, <1>12, <2>1, <2>2 DEF ListsInv
<1>14. \A q \in Party \ {p} : ListsInv(q)'
  BY <1>2, <1>9, OthersLists DEF BankedInv
<1> QED BY <1>2, <1>10, <1>13, <1>14 DEF BankedInv

LEMMA DecryptBanked ==
    ASSUME Inv, BankedInv, NEW p \in Party, NEW m \in OnTheWire, Decrypt(p, m)
    PROVE  BankedInv'
<1> DEFINE s == st[p]
           r == ratchet_decrypt(s, m)
           t == r.s
<1>1. SessionType
  BY DEF Inv
<1>2. CASE r.err # "none"
  <2>1. r.s = st[p]
    BY <1>2 DEF ratchet_decrypt, Err
  <2>2. st' = st /\ sent' = sent /\ read' = read /\ upgraded' = upgraded
    BY <1>1, <1>2, <2>1 DEF Decrypt, SessionType
  <2> QED BY <2>2 DEF BankedInv, ListsInv
<1>3. CASE r.err = "none"
  <2>1. /\ m \in Messages
        /\ m \in Range(sent[Peer(p)])
        /\ Safe(p, s)
    BY <1>3, OnlyNewMessagesOpen DEF Decrypt
  <2>2. /\ st' = [st EXCEPT ![p] = t]
        /\ sent' = sent
        /\ read' = [read EXCEPT ![p] = Append(read[p], m)]
        /\ upgraded' = upgraded
    BY <1>3 DEF Decrypt
  <2>3. Peer(p) \in Party
    BY BaseType
  <2>4. NumberedMessage(Peer(p), m)
    BY <2>1, <2>3 DEF BankedInv
  <2>5. BankKept(s, t) /\ ListsKept(p, s, m, t)
    BY <1>3, <2>1, <2>4, DecryptKeepsBank, DecryptLists
  <2>6. s.root_key # ZeroRoot
    BY <2>1 DEF Safe, Honest, ZeroRoot
  <2> HIDE DEF s, r, t
  <2>7. st'[p] = t /\ \A q \in Party \ {p} : st'[q] = st[q] /\ read'[q] = read[q]
    BY <1>1, <2>2 DEF SessionType
  <2>8. Range(read'[p]) = Range(read[p]) \cup {m}
    <3>1. read'[p] = Append(read[p], m)
      BY <1>1, <2>2 DEF SessionType
    <3> QED BY <1>1, <2>1, <3>1, RangeAppend DEF SessionType
  <2>9. ListsInv(p)'
    <3>1. /\ s.retired_peer_dh_keys \in Seq(PubKeys) /\ BankInv(s)
          /\ p \notin upgraded => Complete(s)
          /\ Known(p, s, Range(read[p]))
          /\ p \notin upgraded => Remembers(p, s)
      BY <2>6 DEF BankedInv, ListsInv, Zeroed, s
    <3>2. BankInv(t) /\ (p \notin upgraded => Complete(t))
      BY <2>5, <3>1 DEF BankKept
    <3>3. /\ t.retired_peer_dh_keys \in Seq(PubKeys)
          /\ Known(p, t, Range(read[p]) \cup {m})
          /\ p \notin upgraded => Remembers(p, t)
      BY <2>5, <3>1 DEF ListsKept
    <3> QED BY <2>2, <2>7, <2>8, <3>2, <3>3 DEF ListsInv
  <2>10. \A q \in Party \ {p} : ListsInv(q)'
    BY <2>2, <2>7, OthersLists DEF BankedInv
  <2> QED BY <2>2, <2>9, <2>10 DEF BankedInv
<1> QED BY <1>2, <1>3

\* A session of an older version comes without the lists: the map stays.
LEMMA UpgradeBanked ==
    ASSUME Inv, BankedInv, NEW p \in Party, Upgrade(p)
    PROVE  BankedInv'
<1> DEFINE s == st[p]
           t == LoadLegacy(s)
<1>1. SessionType /\ Typed(s)
  BY DEF Inv, Safe, Zeroed
<1>2. st' = [st EXCEPT ![p] = t] /\ sent' = sent /\ read' = read /\ upgraded' = upgraded \cup {p}
  BY DEF Upgrade
<1>3. t = [s EXCEPT !.skipped_key_order = <<>>, !.retired_peer_dh_keys = <<>>]
  BY DEF LoadLegacy
<1> HIDE DEF s, t
<1>4. /\ t.root_key = s.root_key /\ t.dhs = s.dhs /\ t.dhr = s.dhr
      /\ t.sending_chain_key = s.sending_chain_key
      /\ t.receiving_chain_key = s.receiving_chain_key
      /\ t.receiving_msg_number = s.receiving_msg_number
      /\ t.skipped_keys = s.skipped_keys
      /\ t.skipped_key_order = <<>> /\ t.retired_peer_dh_keys = <<>>
      /\ Typed(t)
  BY <1>1, <1>3 DEF Typed
<1>5. st'[p] = t /\ \A q \in Party \ {p} : st'[q] = st[q]
  BY <1>1, <1>2 DEF SessionType
<1>6. BankInv(t)
  <2>1. BankInv(s)
    BY DEF BankedInv, ListsInv, s
  <2>2. Range(<<>>) = {} /\ IsInjective(<<>>) /\ <<>> \in Seq(SkippedIds)
    BY DEF Range, IsInjective
  <2> QED BY <1>4, <2>1, <2>2 DEF BankInv, BankOf
<1>7. ~Zeroed(t) => Known(p, t, Range(read[p]))
  <2>1. ~Zeroed(t) => ~Zeroed(s)
    BY <1>4 DEF Zeroed
  <2>2. ~Zeroed(s) => Known(p, s, Range(read[p]))
    BY DEF BankedInv, ListsInv, s
  <2>3. \A R : Known(p, s, R) => Known(p, t, R)
    BY <1>4, ListsUntouched
  <2> QED BY <2>1, <2>2, <2>3
<1>8. ListsInv(p)'
  <2>1. p \in upgraded' /\ t.retired_peer_dh_keys \in Seq(PubKeys)
    BY <1>2, <1>4
  <2> QED BY <1>2, <1>5, <1>6, <1>7, <2>1 DEF ListsInv
<1>9. \A q \in Party \ {p} : ListsInv(q)'
  BY <1>2, <1>5, OthersLists DEF BankedInv
<1> QED BY <1>2, <1>8, <1>9 DEF BankedInv

LEMMA WipeBanked ==
    ASSUME Inv, BankedInv, NEW p \in Party, Wipe(p)
    PROVE  BankedInv'
<1> DEFINE s == st[p]
           t == zeroize_secrets(s)
<1>1. SessionType /\ Typed(s)
  BY DEF Inv, Safe, Zeroed
<1>2. st' = [st EXCEPT ![p] = t] /\ sent' = sent /\ read' = read /\ upgraded' = upgraded
  BY DEF Wipe
<1>3. t = [s EXCEPT !.root_key = ZeroRoot,
                    !.dhs = ZeroKey,
                    !.sending_chain_key = None,
                    !.receiving_chain_key = None,
                    !.skipped_keys = {},
                    !.skipped_key_order = <<>>]
  BY DEF zeroize_secrets
<1>4. ZeroRoot \in RootKeys /\ ZeroKey \in PubKeys
  BY DEF ZeroRoot, RootKeys, ZeroKey, PubKeys
<1> HIDE DEF s, t
<1>5. Zeroed(t) /\ t.skipped_keys = {} /\ t.skipped_key_order = <<>>
      /\ t.retired_peer_dh_keys = s.retired_peer_dh_keys
  BY <1>1, <1>3, <1>4 DEF Typed, Zeroed
<1>6. st'[p] = t /\ \A q \in Party \ {p} : st'[q] = st[q]
  BY <1>1, <1>2 DEF SessionType
<1>7. BankInv(t) /\ Complete(t)
  <2>1. IsFiniteSet({}) /\ Cardinality({}) = 0 /\ Ids({}) = {} /\ 0 <= MAX_SKIPPED_KEYS
    BY FS_EmptySet, LimitsAssumption DEF Ids
  <2>2. Range(<<>>) = {} /\ IsInjective(<<>>) /\ <<>> \in Seq(SkippedIds)
    BY DEF Range, IsInjective
  <2> QED BY <1>5, <2>1, <2>2 DEF BankInv, BankOf, Complete
<1>8. ListsInv(p)'
  BY <1>2, <1>5, <1>6, <1>7 DEF ListsInv, BankedInv, s
<1>9. \A q \in Party \ {p} : ListsInv(q)'
  BY <1>2, <1>6, OthersLists DEF BankedInv
<1> QED BY <1>2, <1>8, <1>9 DEF BankedInv

\* The lists of either party, for every reachable state: the bank and its order
\* agree, read and banked places are behind the receiving chain and apart, and
\* the completed chains are the last ones in their order.
THEOREM ListsInvariance ==
    Spec => [](Inv /\ BankedInv)
<1>1. Inv /\ BankedInv /\ [Next]_vars => BankedInv'
  <2> SUFFICES ASSUME Inv, BankedInv, [Next]_vars PROVE BankedInv'
    OBVIOUS
  <2>1. CASE UNCHANGED vars
    BY <2>1 DEF vars, BankedInv, ListsInv
  <2>2. ASSUME NEW p \in Party, Encrypt(p) PROVE BankedInv'
    BY <2>2, EncryptBanked
  <2>3. ASSUME NEW p \in Party, NEW m \in OnTheWire, Decrypt(p, m) PROVE BankedInv'
    BY <2>3, DecryptBanked
  <2>4. ASSUME NEW p \in Upgraders, Upgrade(p) PROVE BankedInv'
    BY <2>4, UpgradeBanked, BoundsAssumption
  <2>5. ASSUME NEW p \in Wipers, Wipe(p) PROVE BankedInv'
    BY <2>5, WipeBanked, BoundsAssumption
  <2> QED BY <2>1, <2>2, <2>3, <2>4, <2>5 DEF Next
<1> QED BY <1>1, InitBanked, Invariance, PTL DEF Spec

\* The type invariant, for every reachable state of the two parties.
THEOREM TypeInvariance ==
    Spec => []TypeOK
<1>1. Inv /\ BankedInv => TypeOK
  <2> SUFFICES ASSUME Inv, BankedInv PROVE TypeOK
    OBVIOUS
  <2>1. SessionType /\ upgraded \subseteq Party /\ dropped \subseteq Party
    BY DEF Inv, BankedInv, DroppedInv
  <2>2. ASSUME NEW p \in Party PROVE st[p] \in RatchetState
    <3> DEFINE s == st[p]
    <3>1. Typed(s)
      BY DEF Inv, Safe, Zeroed
    <3>2. s.retired_peer_dh_keys \in Seq(PubKeys) /\ s.skipped_key_order \in Seq(SkippedIds)
      BY DEF BankedInv, ListsInv, BankInv, BankOf
    <3> HIDE DEF s
    <3>3. s \in RatchetState
      BY <3>1, <3>2 DEF Typed, RatchetState
    <3> QED BY <3>3 DEF s
  <2>3. st \in [Party -> RatchetState]
    BY <2>1, <2>2 DEF SessionType
  <2> QED BY <2>1, <2>3 DEF TypeOK, SessionType
<1> QED BY <1>1, ListsInvariance, PTL

\* The bank of skipped keys, for every reachable state and every cap: the map
\* and the order list of bank_skipped_key, try_skipped_message_key and
\* evict_oldest_skipped_keys agree, and the cap is never exceeded.
THEOREM BankAgrees ==
    Spec => []BankOrder
<1>1. BankedInv => BankOrder
  <2> SUFFICES ASSUME BankedInv, NEW p \in Party
               PROVE  LET s == st[p] IN
                      /\ IsInjective(s.skipped_key_order)
                      /\ Range(s.skipped_key_order) \subseteq Ids(s.skipped_keys)
                      /\ p \in upgraded \/ Range(s.skipped_key_order) = Ids(s.skipped_keys)
                      /\ Cardinality(s.skipped_keys) = Cardinality(Ids(s.skipped_keys))
                      /\ Cardinality(s.skipped_keys) <= MAX_SKIPPED_KEYS
    BY DEF BankOrder
  <2> DEFINE s == st[p]
  <2>1. BankInv(s) /\ (p \notin upgraded => Complete(s))
    BY DEF BankedInv, ListsInv
  <2> HIDE DEF s
  <2>2. /\ IsFiniteSet(s.skipped_keys)
        /\ \A e, f \in s.skipped_keys : e.id = f.id => e = f
        /\ IsInjective(s.skipped_key_order)
        /\ Range(s.skipped_key_order) \subseteq Ids(s.skipped_keys)
        /\ Cardinality(s.skipped_keys) <= MAX_SKIPPED_KEYS
    BY <2>1 DEF BankInv, BankOf
  <2>3. Cardinality(Ids(s.skipped_keys)) = Cardinality(s.skipped_keys)
    BY <2>2, IdsCount
  <2>4. p \in upgraded \/ Range(s.skipped_key_order) = Ids(s.skipped_keys)
    BY <2>1 DEF Complete
  <2> QED BY <2>2, <2>3, <2>4 DEF s
<1> QED BY <1>1, ListsInvariance, PTL

\* Replays, for every reachable state and every number of remembered chains:
\* what was read is refused by ratchet_decrypt with Replay, not mistaken for a
\* message of a new chain, as long as its chain is current or remembered.
THEOREM ReplaysAreRefused ==
    Spec => []RecentReplayIsReplay
<1>1. Inv /\ BankedInv => RecentReplayIsReplay
  <2> SUFFICES ASSUME Inv, BankedInv, NEW p \in Party, p \notin upgraded,
                      NEW m \in Range(read[p]), ~Wiped(p),
                      ~(st[p].dhr[2] - m.header.dh[2] > MAX_RETIRED_DH_KEYS)
               PROVE  Verdict(p, m) = "Replay"
    BY DEF RecentReplayIsReplay
  <2> DEFINE s == st[p]
             L == s.retired_peer_dh_keys
             c == s.dhr[2]
             d == m.header.dh
             k == d[2]
  <2>1. Known(p, s, Range(read[p])) /\ Remembers(p, s) /\ L \in Seq(PubKeys) /\ Typed(s)
    BY DEF BankedInv, ListsInv, DroppedInv, Inv, Safe
  <2>2. Reached(p, s, d, m.header.n) /\ ~HasSkippedKey(s, m.header)
    BY <2>1 DEF Known, HasSkippedKey
  <2>3. /\ s.dhr # None /\ s.dhr \in PubKeys /\ c \in Nat /\ s.dhr[1] = Peer(p)
        /\ d \in PubKeys /\ d # None /\ k \in Nat /\ d = <<Peer(p), k>>
        /\ k >= Base(p) /\ k <= c
    BY <2>1, <2>2, NoneAssumption DEF Reached, Known, Numbered, Typed, PubKeys
  <2>4. IsReplay(s, m.header)
    <3>1. CASE d = s.dhr
      BY <2>2, <3>1 DEF Reached, IsReplay
    <3>2. CASE d # s.dhr
      <4>1. k < c
        BY <2>3, <3>2 DEF PubKeys
      <4>2. /\ Len(L) \in Nat
            /\ Len(L) = MAX_RETIRED_DH_KEYS \/ Len(L) = c - Base(p)
            /\ \A i \in 1..Len(L) : L[i] = <<Peer(p), c - Len(L) + i - 1>>
        BY <2>1, <2>3 DEF Remembers
      <4>3. Base(p) \in {0, 1} /\ MAX_RETIRED_DH_KEYS \in Nat /\ c - k <= MAX_RETIRED_DH_KEYS
        BY <2>3, BaseType, LimitsAssumption
      <4> DEFINE l == Len(L)
                 i == k - (c - l) + 1
      <4> HIDE DEF c, k, l
      <4>4. i \in 1..l
        <5>1. l \in Nat /\ (l = MAX_RETIRED_DH_KEYS \/ l = c - Base(p))
          BY <4>2 DEF l
        <5>2. c - k <= l
          BY <2>3, <4>3, <5>1
        <5> QED BY <2>3, <4>1, <5>1, <5>2
      <4>5. c - l + i - 1 = k
        <5>1. l \in Nat
          BY <4>2 DEF l
        <5>2. k \in Nat /\ c \in Nat
          BY <2>3
        <5> QED BY <5>1, <5>2
      <4> HIDE DEF i
      <4>6. L[i] = d
        BY <2>3, <4>2, <4>4, <4>5 DEF l
      <4>7. d \in Range(L)
        BY <2>1, <4>4, <4>6 DEF Range, l
      <4> QED BY <4>7 DEF IsReplay
    <3> QED BY <3>1, <3>2
  <2> QED BY <2>2, <2>3, <2>4 DEF Verdict, ratchet_decrypt, ratchet_decrypt_inner, Err
<1> QED BY <1>1, ListsInvariance, PTL
============================================================================
