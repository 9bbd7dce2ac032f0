---------------------------- MODULE RatchetOps ----------------------------
(***************************************************************************)
(* The functions of src/src/ratchet.rs as operators on a ratchet state.    *)
(*                                                                         *)
(* Cryptography is symbolic.  A key pair is named by its public half, a    *)
(* Diffie-Hellman output is the set of the two public keys it was made     *)
(* from, a root key is the sequence of the outputs mixed into the master   *)
(* secret (the empty sequence), and a chain key is the root derivation it  *)
(* came from with the number of times it was advanced.  Distinct           *)
(* derivations therefore give distinct keys, as with HKDF, and a           *)
(* ciphertext opens exactly under the key and header it was sealed with.   *)
(*                                                                         *)
(* Every function returns the state it leaves behind together with "none"  *)
(* or the RatchetError variant it failed with.                             *)
(***************************************************************************)
EXTENDS Integers, Sequences, FiniteSets, SequencesExt, Vectors

CONSTANTS
    MAX_SKIP,             \* keys skipped in one go (1000 in the code)
    MAX_SKIPPED_KEYS,     \* banked keys over all chains (2000 in the code)
    MAX_RETIRED_DH_KEYS,  \* remembered completed chains (8 in the code)
    None                  \* the Option::None of the state's fields

ASSUME LimitsAssumption ==
    /\ MAX_SKIP \in Nat
    /\ MAX_SKIPPED_KEYS \in Nat
    /\ MAX_RETIRED_DH_KEYS \in Nat

Party == {"initiator", "responder"}
Peer(p) == IF p = "initiator" THEN "responder" ELSE "initiator"

\* A public key: its owner and how many keys that owner had made before it.
\* Keys of "other" stand for every 32 bytes that neither side generated.  A
\* secret made with one of them is one nobody else has, which is also what
\* x25519_derive_shared makes of a low-order point: random bytes.
PubKeys == (Party \cup {"other"}) \X Nat

RootKeys == Seq(SUBSET PubKeys)
ChainKeys == [rk : RootKeys, i : Nat]
\* kdf_ck's two outputs are told apart by their info strings; the message key
\* it yields is named by the chain key it was derived from.
MsgKeys == ChainKeys

SkippedIds == PubKeys \X Nat
Headers == [dh : PubKeys \cup {None}, pn : Nat, n : Nat]
\* sealed = None is a nonce and ciphertext nobody sealed.
Messages == [header : Headers, sealed : [key : MsgKeys, ad : Headers] \cup {None}]

ASSUME NoneAssumption ==
    /\ None \notin PubKeys
    /\ None \notin ChainKeys
    /\ None \notin [key : MsgKeys, ad : Headers]

\* HashMap<String, [u8; 32]> as the set of its entries, Vec as a sequence.
RatchetState ==
    [root_key : RootKeys,
     dhs : PubKeys,
     dhr : PubKeys \cup {None},
     sending_chain_key : ChainKeys \cup {None},
     receiving_chain_key : ChainKeys \cup {None},
     sending_msg_number : Nat,
     receiving_msg_number : Nat,
     previous_sending_chain_length : Nat,
     skipped_keys : SUBSET [id : SkippedIds, mk : MsgKeys],
     skipped_key_order : Seq(SkippedIds),
     retired_peer_dh_keys : Seq(PubKeys)]

Ok(s) == [err |-> "none", s |-> s]
Err(e, s) == [err |-> e, s |-> s]

---------------------------------------------------------------------------
(* Key derivation and sealing.                                             *)

x25519_derive_shared(ours, theirs) == {ours, theirs}

\* A key pair never seen before, by the owner of the current one.
generate_x25519(current) == <<current[1], current[2] + 1>>

kdf_rk(rk, dh_out) == LET new_rk == Append(rk, dh_out)
                      IN  [rk |-> new_rk, ck |-> [rk |-> new_rk, i |-> 0]]

kdf_ck(ck) == [next |-> [rk |-> ck.rk, i |-> ck.i + 1], mk |-> ck]

\* The chain key k applications of kdf_ck later.
Advance(ck, k) == [rk |-> ck.rk, i |-> ck.i + k]

aes_gcm_encrypt(mk, header) == [key |-> mk, ad |-> header]

\* Mutant: pn is not part of the associated data.
AdWithoutPn(mk, m) ==
    /\ m.sealed # None
    /\ m.sealed.key = mk
    /\ m.sealed.ad.dh = m.header.dh /\ m.sealed.ad.n = m.header.n

aes_gcm_decrypt(mk, m) == m.sealed = [key |-> mk, ad |-> m.header]

---------------------------------------------------------------------------
(* Starting a session from the X3DH master secret.                         *)

init_initiator(their_spk) ==
    LET dhs == <<"initiator", 1>>
        kdf == kdf_rk(<<>>, x25519_derive_shared(dhs, their_spk))
    IN  [root_key |-> kdf.rk,
         dhs |-> dhs,
         dhr |-> their_spk,
         sending_chain_key |-> kdf.ck,
         receiving_chain_key |-> None,
         sending_msg_number |-> 0,
         receiving_msg_number |-> 0,
         previous_sending_chain_length |-> 0,
         skipped_keys |-> {},
         skipped_key_order |-> <<>>,
         retired_peer_dh_keys |-> <<>>]

init_responder(our_spk) ==
    [root_key |-> <<>>,
     dhs |-> our_spk,
     dhr |-> None,
     sending_chain_key |-> None,
     receiving_chain_key |-> None,
     sending_msg_number |-> 0,
     receiving_msg_number |-> 0,
     previous_sending_chain_length |-> 0,
     skipped_keys |-> {},
     skipped_key_order |-> <<>>,
     retired_peer_dh_keys |-> <<>>]

---------------------------------------------------------------------------
(* The bank of skipped message keys.                                       *)

skipped_key_id(dh, n) == <<dh, n>>
Ids(keys) == {e.id : e \in keys}

\* Keys of a session sealed before the order list existed go first.  The code
\* sorts them by their hex text, that is, in an order unrelated to their age:
\* SetToSeq is one fixed order.
adopt_unordered_skipped_keys(s) ==
    IF Len(s.skipped_key_order) = Cardinality(s.skipped_keys)
    THEN s
    ELSE [s EXCEPT !.skipped_key_order =
             SetToSeq(Ids(s.skipped_keys) \ Range(s.skipped_key_order)) \o @]

evict_oldest_skipped_keys(s) ==
    IF Cardinality(s.skipped_keys) <= MAX_SKIPPED_KEYS
    THEN s
    ELSE LET order == adopt_unordered_skipped_keys(s).skipped_key_order
             excess == Cardinality(s.skipped_keys) - MAX_SKIPPED_KEYS
             evicted == {order[j] : j \in 1..excess}
         IN  [s EXCEPT
                !.skipped_keys = {e \in @ : e.id \notin evicted},
                !.skipped_key_order = SubSeq(order, excess + 1, Len(order))]

\* The entries skip_message_keys banks on its way to message number `until`.
SkippedEntries(s, until) ==
    {[id |-> skipped_key_id(s.dhr, n),
      mk |-> Advance(s.receiving_chain_key, n - s.receiving_msg_number)] :
        n \in s.receiving_msg_number .. until - 1}

\* Mutant: the key of the message itself is banked too.
BanksOneMore(s, until) ==
    LET n0 == s.receiving_msg_number
        fresh == SkippedEntries(s, until + 1)
        ids == [j \in 1..(until + 1 - n0) |-> skipped_key_id(s.dhr, n0 + j - 1)]
    IN  evict_oldest_skipped_keys(
            [s EXCEPT
                !.skipped_keys = {e \in @ : e.id \notin Ids(fresh)} \cup fresh,
                !.skipped_key_order = @ \o retain(ids, Range(ids) \ Ids(s.skipped_keys))])

\* bank_skipped_key for each of them in turn.  Banking one key at a time and
\* evicting after each leaves what banking all and evicting once leaves:
\* module SkipLoop runs the loop of the code and compares.
bank_skipped_keys(s, until) ==
    LET n0 == s.receiving_msg_number
        fresh == SkippedEntries(s, until)
        ids == [j \in 1..(until - n0) |-> skipped_key_id(s.dhr, n0 + j - 1)]
    IN  evict_oldest_skipped_keys(
            [s EXCEPT
                !.skipped_keys = {e \in @ : e.id \notin Ids(fresh)} \cup fresh,
                !.skipped_key_order = @ \o retain(ids, Range(ids) \ Ids(s.skipped_keys))])

\* saturating_add cannot change the comparison: `until` is itself a u32.
skip_message_keys(s, until) ==
    IF s.receiving_chain_key = None
    THEN Ok(s)
    ELSE IF s.receiving_msg_number + MAX_SKIP < until
    THEN Err("TooManySkipped", s)
    ELSE IF s.dhr = None \/ until <= s.receiving_msg_number
    THEN Ok(s)
    ELSE Ok([bank_skipped_keys(s, until) EXCEPT
                !.receiving_msg_number = until,
                !.receiving_chain_key =
                    Advance(s.receiving_chain_key, until - s.receiving_msg_number)])

---------------------------------------------------------------------------
(* The Diffie-Hellman ratchet.                                             *)

\* Mutants: a missing peer key is retired as well; the list holds one less.
RetiresNone(s, peer_dh_pub) ==
    LET pushed == Append(s.retired_peer_dh_keys, s.dhr)
    IN  IF Len(pushed) > MAX_RETIRED_DH_KEYS THEN Tail(pushed) ELSE pushed

RetiresOneLess(s, peer_dh_pub) ==
    IF s.dhr = None \/ s.dhr = peer_dh_pub \/ s.dhr \in Range(s.retired_peer_dh_keys)
    THEN s.retired_peer_dh_keys
    ELSE LET pushed == Append(s.retired_peer_dh_keys, s.dhr)
         IN  IF Len(pushed) >= MAX_RETIRED_DH_KEYS THEN Tail(pushed) ELSE pushed

RetirePeerKey(s, peer_dh_pub) ==
    IF s.dhr = None \/ s.dhr = peer_dh_pub \/ s.dhr \in Range(s.retired_peer_dh_keys)
    THEN s.retired_peer_dh_keys
    ELSE LET pushed == Append(s.retired_peer_dh_keys, s.dhr)
         IN  IF Len(pushed) > MAX_RETIRED_DH_KEYS THEN Tail(pushed) ELSE pushed

dh_ratchet_step(s, peer_dh_pub) ==
    LET recv == kdf_rk(s.root_key, x25519_derive_shared(s.dhs, peer_dh_pub))
        new_dhs == generate_x25519(s.dhs)
        send == kdf_rk(recv.rk, x25519_derive_shared(new_dhs, peer_dh_pub))
    IN  [s EXCEPT
            !.previous_sending_chain_length = s.sending_msg_number,
            !.sending_msg_number = 0,
            !.receiving_msg_number = 0,
            !.retired_peer_dh_keys = RetirePeerKey(s, peer_dh_pub),
            !.dhr = peer_dh_pub,
            !.receiving_chain_key = recv.ck,
            !.dhs = new_dhs,
            !.root_key = send.rk,
            !.sending_chain_key = send.ck]

---------------------------------------------------------------------------
(* Encryption and decryption.                                              *)

\* Called only with a sending chain; without one the code returns
\* NoSendingChain and changes nothing.
EncryptedMessage(s) ==
    LET header == [dh |-> s.dhs, pn |-> s.previous_sending_chain_length,
                   n |-> s.sending_msg_number]
    IN  [header |-> header,
         sealed |-> aes_gcm_encrypt(kdf_ck(s.sending_chain_key).mk, header)]

\* Mutant: the sending chain is not advanced.
KeepsChainKey(s) == [s EXCEPT !.sending_msg_number = @ + 1]

ratchet_encrypt(s) ==
    [s EXCEPT !.sending_chain_key = kdf_ck(@).next,
              !.sending_msg_number = @ + 1]

HasSkippedKey(s, header) == skipped_key_id(header.dh, header.n) \in Ids(s.skipped_keys)

SkippedKey(s, header) ==
    (CHOOSE e \in s.skipped_keys : e.id = skipped_key_id(header.dh, header.n)).mk

\* Mutants: the used key, or its place in the order, is not removed.
KeepsUsedKey(s, m) ==
    IF aes_gcm_decrypt(SkippedKey(s, m.header), m) THEN Ok(s) ELSE Err("Crypto", s)

KeepsOrder(s, m) ==
    IF ~aes_gcm_decrypt(SkippedKey(s, m.header), m)
    THEN Err("Crypto", s)
    ELSE Ok([s EXCEPT !.skipped_keys =
                {e \in @ : e.id # skipped_key_id(m.header.dh, m.header.n)}])

\* Only called when the bank has the key.
try_skipped_message_key(s, m) ==
    LET id == skipped_key_id(m.header.dh, m.header.n)
    IN  IF ~aes_gcm_decrypt(SkippedKey(s, m.header), m)
        THEN Err("Crypto", s)
        ELSE Ok([s EXCEPT !.skipped_keys = {e \in @ : e.id # id},
                          !.skipped_key_order = retain(@, Range(@) \ {id})])

IsReplay(s, header) ==
    \/ header.dh \in Range(s.retired_peer_dh_keys)
    \/ s.dhr = header.dh /\ header.n < s.receiving_msg_number

\* Mutant: the rest of the old chain is not banked.
ForgetsOldChain(s, header) ==
    IF s.dhr = header.dh
    THEN skip_message_keys(s, header.n)
    ELSE skip_message_keys(dh_ratchet_step(s, header.dh), header.n)

\* Steps 2 and 3: move to the peer's new chain if the header names one, then
\* forward to the message's number.
Forward(s, header) ==
    LET old == skip_message_keys(s, header.pn)
    IN  IF s.dhr = header.dh
        THEN skip_message_keys(s, header.n)
        ELSE IF old.err # "none"
        THEN old
        ELSE skip_message_keys(dh_ratchet_step(old.s, header.dh), header.n)

\* Step 4: derive the message key and open the ciphertext.
OpenNext(s, m) ==
    IF s.receiving_chain_key = None
    THEN Err("NoReceivingChain", s)
    ELSE LET kdf == kdf_ck(s.receiving_chain_key)
             next == [s EXCEPT !.receiving_chain_key = kdf.next,
                               !.receiving_msg_number = @ + 1]
         IN  IF aes_gcm_decrypt(kdf.mk, m) THEN Ok(next) ELSE Err("Crypto", next)

\* A header whose key does not decode (decode_32) has dh = None.
ratchet_decrypt_inner(s, m) ==
    IF m.header.dh = None
    THEN Err("Crypto", s)
    ELSE IF HasSkippedKey(s, m.header)
    THEN try_skipped_message_key(s, m)
    ELSE IF IsReplay(s, m.header)
    THEN Err("Replay", s)
    ELSE LET at == Forward(s, m.header)
         IN  IF at.err # "none" THEN at ELSE OpenNext(at.s, m)

\* Mutant: no rollback.
NoRollback(s, m) == ratchet_decrypt_inner(s, m)

\* Transactional: the snapshot comes back on any failure.
ratchet_decrypt(s, m) ==
    LET r == ratchet_decrypt_inner(s, m)
    IN  IF r.err = "none" THEN r ELSE Err(r.err, s)

---------------------------------------------------------------------------
(* Dropping and reloading a session.                                       *)

\* All-zero keys, which everybody knows and no derivation of a session equals.
ZeroRoot == <<{}>>
ZeroKey == <<"other", 0>>

\* Mutant: the bank is left.
KeepsBank(s) ==
    [s EXCEPT !.root_key = ZeroRoot, !.dhs = ZeroKey,
              !.sending_chain_key = None, !.receiving_chain_key = None]

\* What drop leaves.  A state wiped this way would accept a message sealed under
\* keys anybody can derive from the zeros: it is only meaningful as the remains
\* of a session that is not used any more.  The code leaves the public half of
\* dhs, which is no secret.
zeroize_secrets(s) ==
    [s EXCEPT !.root_key = ZeroRoot,
              !.dhs = ZeroKey,
              !.sending_chain_key = None,
              !.receiving_chain_key = None,
              !.skipped_keys = {},
              !.skipped_key_order = <<>>]

\* A session sealed before skipped_key_order and retired_peer_dh_keys existed
\* loads with both empty (serde default).
LoadLegacy(s) ==
    [s EXCEPT !.skipped_key_order = <<>>, !.retired_peer_dh_keys = <<>>]
============================================================================
