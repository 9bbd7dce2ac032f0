----------------------------- MODULE Handshake -----------------------------
(***************************************************************************)
(* The prekeys of one account (src/src/identity.rs), the vault they are    *)
(* saved in (src/src/vault.rs) and the X3DH handshakes peers make with     *)
(* them (src/src/x3dh.rs), over crashes, restarts, rotations at any time   *)
(* and peers that keep a published bundle for as long as they like.        *)
(*                                                                         *)
(* A key pair is named by its public half and a Diffie-Hellman output is   *)
(* the set of the two public keys; HKDF's output is named by its input.    *)
(* The crate performs no I/O: when to rotate, seal and publish is up to    *)
(* the application, which is modelled from what the crate asks of it.      *)
(***************************************************************************)
EXTENDS Integers, Sequences, FiniteSets, SequencesExt, Vectors

CONSTANTS
    SPK_ROTATION_SECS,   \* age at which the signed prekey is replaced
    SPK_RETENTION_SECS,  \* how long a replaced one is kept
    OPK_COUNT,           \* one-time prekeys of a new identity
    None,                \* Option::None
    Locked,              \* no identity in memory
    MaxTime,             \* bound: last moment of the clock
    MaxKeys,             \* bound: signed prekeys ever generated
    MaxOlder             \* bound: rotations that an older version made

ASSUME TimesAssumption ==
    /\ SPK_ROTATION_SECS \in Nat \ {0}
    /\ SPK_RETENTION_SECS \in Nat
    /\ OPK_COUNT \in Nat
    /\ MaxTime \in Nat
    /\ MaxKeys \in Nat
    /\ MaxOlder \in Nat /\ MaxOlder < MaxKeys

\* What the functions return, None apart.
SignedPreKeys ==
    [id : Nat, keypair : {"spk"} \X Nat,
     signature : [by : {"account"}, over : {"spk"} \X Nat], created_at : Int]
Retired(times) == [prekey : SignedPreKeys, retired_at : times]
PublicKeys == {"ik", "ek", "spk", "opk"} \X ({"account", "peer"} \cup Nat)
Initiations ==
    [master_secret : Seq(SUBSET PublicKeys),
     message : [ik_dh_pub : PublicKeys, ek_pub : PublicKeys, spk_id : Nat, opk_id : {None}],
     associated_data : PublicKeys \X PublicKeys]
Responses ==
    [master_secret : Seq(SUBSET PublicKeys), associated_data : PublicKeys \X PublicKeys,
     spk_keypair : PublicKeys]

ASSUME NoneAssumption ==
    /\ None \notin Int
    /\ None \notin SignedPreKeys
    /\ None \notin Initiations
    /\ None \notin Responses

VARIABLES
    now,           \* the clock
    memory,        \* the unlocked Identity, or Locked
    vault,         \* the SerializedIdentity last sealed
    bundles,       \* PublicBundles handed out: peers keep them
    generated,     \* signed prekeys generated so far
    retired_when,  \* retired_when[k]: when key k last stopped being current
    spent,         \* one-time prekeys used since the vault was sealed
    spent_saved    \* those used before

vars == <<now, memory, vault, bundles, generated, retired_when, spent, spent_saved>>

---------------------------------------------------------------------------
(* Keys.                                                                   *)

Ik(who) == <<"ik", who>>
Ek == <<"ek", 0>>
Spk(k) == <<"spk", k>>
Opk(id) == <<"opk", id>>

ed25519_sign(signer, key) == [by |-> signer, over |-> key]
x25519_derive_shared(ours, theirs) == {ours, theirs}
hkdf_expand(dh_inputs) == dh_inputs

signed_prekey_created_at(id, k, created_at) ==
    [id |-> id, keypair |-> Spk(k), signature |-> ed25519_sign("account", Spk(k)),
     created_at |-> created_at]

create_identity(created_at) ==
    [signed_prekey |-> signed_prekey_created_at(1, 1, created_at),
     one_time_prekeys |-> [i \in 1..OPK_COUNT |-> i],
     retired_signed_prekeys |-> <<>>]

public_bundle_for(identity) ==
    [ik_dh_pub |-> Ik("account"),
     spk_id |-> identity.signed_prekey.id,
     spk_pub |-> identity.signed_prekey.keypair,
     spk_sig |-> identity.signed_prekey.signature,
     opk_id |-> None,
     id_sig |-> ed25519_sign("account", Ik("account"))]

\* The signed prekey only; that id_sig binds the other keys is checked by
\* verify_bundle_binding, which the handshake does not call (module GroupOps).
verify_bundle(bundle) == bundle.spk_sig = ed25519_sign("account", bundle.spk_pub)

---------------------------------------------------------------------------
(* Signed and one-time prekeys.                                            *)

\* The current key first, then the first retired one with that id.
signed_prekey_by_id(identity, spk_id) ==
    LET retired == identity.retired_signed_prekeys
        found == {i \in DOMAIN retired : retired[i].prekey.id = spk_id}
    IN  IF identity.signed_prekey.id = spk_id
        THEN identity.signed_prekey
        ELSE IF found = {} THEN None ELSE retired[Min(found)].prekey

RotationDue(identity, t) ==
    t - identity.signed_prekey.created_at >= SPK_ROTATION_SECS

NextId(identity) ==
    Max({identity.signed_prekey.id} \cup
        {r.prekey.id : r \in Range(identity.retired_signed_prekeys)}) + 1

\* Mutant: retention counts from creation.
RetainsFromCreation(identity, t, k) ==
    LET outgoing == [prekey |-> identity.signed_prekey, retired_at |-> t]
        rotated == IF ~RotationDue(identity, t)
                   THEN identity
                   ELSE [identity EXCEPT
                           !.signed_prekey = signed_prekey_created_at(NextId(identity), k, t),
                           !.retired_signed_prekeys = Append(@, outgoing)]
        retained == {r \in Range(rotated.retired_signed_prekeys) :
                        t - r.prekey.created_at < SPK_RETENTION_SECS}
    IN  [rotated EXCEPT !.retired_signed_prekeys = retain(@, retained)]

\* k names the fresh key pair, should one be needed.
rotate_signed_prekey_if_due(identity, t, k) ==
    LET outgoing == [prekey |-> identity.signed_prekey, retired_at |-> t]
        rotated == IF ~RotationDue(identity, t)
                   THEN identity
                   ELSE [identity EXCEPT
                           !.signed_prekey = signed_prekey_created_at(NextId(identity), k, t),
                           !.retired_signed_prekeys = Append(@, outgoing)]
        retained == {r \in Range(rotated.retired_signed_prekeys) :
                        t - r.retired_at < SPK_RETENTION_SECS}
    IN  [rotated EXCEPT !.retired_signed_prekeys = retain(@, retained)]

\* Mutant: looked up, not removed.
KeepsOpk(identity, opk_id) == identity

\* The ids are distinct: removing the first match removes the only one.
consume_one_time_prekey(identity, opk_id) ==
    [identity EXCEPT !.one_time_prekeys = retain(@, Range(@) \ {opk_id})]

---------------------------------------------------------------------------
(* The vault.                                                              *)

serialize_identity(identity) ==
    [signed_pre_key |-> identity.signed_prekey,
     one_time_pre_keys |-> identity.one_time_prekeys,
     retired_signed_pre_keys |-> identity.retired_signed_prekeys]

\* Mutant: the time of the latest rotation for every key.
LatestRotation(id, retired, current) == current.created_at

\* Rotation retires a key at the moment it creates the next one.
legacy_retired_at(id, retired, current) ==
    LET later == {spk \in {r.prekey : r \in Range(retired)} \cup {current} : spk.id > id}
        Next(spk) == \A other \in later : spk.id <= other.id
    IN  IF later = {} THEN current.created_at
                      ELSE (CHOOSE spk \in later : Next(spk)).created_at

\* Mutant: a missing time is left missing.
LeavesLegacy(s) ==
    [signed_prekey |-> s.signed_pre_key,
     one_time_prekeys |-> s.one_time_pre_keys,
     retired_signed_prekeys |-> s.retired_signed_pre_keys]

deserialize_identity(s) ==
    LET Load(r) == IF r.retired_at # None THEN r
                   ELSE [r EXCEPT !.retired_at =
                            legacy_retired_at(r.prekey.id, s.retired_signed_pre_keys,
                                              s.signed_pre_key)]
    IN  [signed_prekey |-> s.signed_pre_key,
         one_time_prekeys |-> s.one_time_pre_keys,
         retired_signed_prekeys |->
            [i \in DOMAIN s.retired_signed_pre_keys |-> Load(s.retired_signed_pre_keys[i])]]

---------------------------------------------------------------------------
(* X3DH.                                                                   *)

\* None is InvalidBundle.
initiate(bundle) ==
    IF ~verify_bundle(bundle)
    THEN None
    ELSE [master_secret |-> hkdf_expand(<<x25519_derive_shared(Ik("peer"), bundle.spk_pub),
                                          x25519_derive_shared(Ek, bundle.ik_dh_pub),
                                          x25519_derive_shared(Ek, bundle.spk_pub)>>),
          message |-> [ik_dh_pub |-> Ik("peer"), ek_pub |-> Ek, spk_id |-> bundle.spk_id,
                       opk_id |-> None],
          associated_data |-> <<Ik("peer"), bundle.ik_dh_pub>>]

HasOpk(identity, opk_id) == opk_id \in Range(identity.one_time_prekeys)

\* UnknownSpk is refused before, and UnknownOpk instead of, using up a
\* one-time prekey: None is the error.
respond(identity, msg) ==
    LET spk == signed_prekey_by_id(identity, msg.spk_id)
        dh4 == IF msg.opk_id = None THEN <<>>
               ELSE <<x25519_derive_shared(Opk(msg.opk_id), msg.ek_pub)>>
    IN  IF spk = None \/ (msg.opk_id # None /\ ~HasOpk(identity, msg.opk_id))
        THEN None
        ELSE [master_secret |->
                hkdf_expand(<<x25519_derive_shared(spk.keypair, msg.ik_dh_pub),
                              x25519_derive_shared(Ik("account"), msg.ek_pub),
                              x25519_derive_shared(spk.keypair, msg.ek_pub)>> \o dh4),
              associated_data |-> <<msg.ik_dh_pub, Ik("account")>>,
              spk_keypair |-> spk.keypair]

---------------------------------------------------------------------------
(* The account.  It starts with a new identity, or with the vault of an    *)
(* older version, which did not store when a retired key was retired, and  *)
(* whose bundles may be from before id_sig.                                *)

\* The signed prekeys an older version created at times[1], times[2], ...; it
\* still holds those from the first-th on.
OlderVault(times, first) ==
    LET spk == [k \in DOMAIN times |-> signed_prekey_created_at(k, k, times[k])]
        kept == SubSeq(spk, first, Len(times) - 1)
    IN  [signed_pre_key |-> spk[Len(times)],
         one_time_pre_keys |-> [i \in 1..OPK_COUNT |-> i],
         retired_signed_pre_keys |->
            [i \in DOMAIN kept |-> [prekey |-> kept[i], retired_at |-> None]]]

\* The bundle it published with its k-th key, with id_sig or without.
OlderBundle(k, bound) ==
    [public_bundle_for(create_identity(0)) EXCEPT
        !.spk_id = k, !.spk_pub = Spk(k), !.spk_sig = ed25519_sign("account", Spk(k)),
        !.id_sig = IF bound THEN @ ELSE None]

\* Bundles of keys that the older version dropped, which respond refuses, are
\* not among those in circulation.
Init ==
    /\ \E rotations \in 0..MaxOlder, bound \in BOOLEAN :
       \E times \in [1..rotations + 1 -> 0..MaxTime], first \in 1..rotations + 1 :
          /\ \A k \in 1..rotations : times[k + 1] - times[k] >= SPK_ROTATION_SECS
          /\ generated = rotations + 1
          /\ now = times[generated]
          /\ vault = OlderVault(times, first)
          /\ bundles = {OlderBundle(k, bound) : k \in first..generated}
          /\ retired_when = [k \in 1..MaxKeys |-> IF k <= rotations THEN times[k + 1] ELSE None]
    /\ memory = Locked
    /\ spent = {}
    /\ spent_saved = {}

Tick ==
    /\ now < MaxTime
    /\ now' = now + 1
    /\ UNCHANGED <<memory, vault, bundles, generated, retired_when, spent, spent_saved>>

\* The right passphrase and TOTP code; without them nothing changes.
unseal_vault ==
    /\ memory = Locked
    /\ memory' = deserialize_identity(vault)
    /\ spent' = {}
    /\ UNCHANGED <<now, vault, bundles, generated, retired_when, spent_saved>>

\* Lock, or crash: what was not sealed is gone.
Crash ==
    /\ memory # Locked
    /\ memory' = Locked
    /\ UNCHANGED <<now, vault, bundles, generated, retired_when, spent, spent_saved>>

Rotate ==
    /\ memory # Locked
    /\ RotationDue(memory, now) => generated < MaxKeys
    /\ memory' = rotate_signed_prekey_if_due(memory, now, generated + 1)
    /\ IF RotationDue(memory, now)
       THEN /\ generated' = generated + 1
            /\ retired_when' = [retired_when EXCEPT ![memory.signed_prekey.keypair[2]] = now]
       ELSE UNCHANGED <<generated, retired_when>>
    /\ UNCHANGED <<now, vault, bundles, spent, spent_saved>>

seal_vault ==
    /\ memory # Locked
    /\ vault' = serialize_identity(memory)
    /\ spent_saved' = spent_saved \cup spent
    /\ UNCHANGED <<now, memory, bundles, generated, retired_when, spent>>

\* "re-seal the vault and republish its bundle", in that order.
Publish ==
    /\ memory # Locked
    /\ vault.signed_pre_key = memory.signed_prekey
    /\ bundles' = bundles \cup {public_bundle_for(memory)}
    /\ UNCHANGED <<now, memory, vault, generated, retired_when, spent, spent_saved>>

\* The first message of a peer with a cached bundle, or of another client
\* that also names a one-time prekey.
Respond(bundle, opk_id) ==
    LET msg == [initiate(bundle).message EXCEPT !.opk_id = opk_id]
    IN  /\ memory # Locked
        /\ respond(memory, msg) # None
        /\ IF opk_id = None
           THEN UNCHANGED <<memory, spent>>
           ELSE /\ memory' = consume_one_time_prekey(memory, opk_id)
                /\ spent' = spent \cup {opk_id}
        /\ UNCHANGED <<now, vault, bundles, generated, retired_when, spent_saved>>

Next ==
    \/ Tick
    \/ unseal_vault
    \/ Crash
    \/ Rotate
    \/ seal_vault
    \/ Publish
    \/ \E bundle \in bundles, opk_id \in 0..OPK_COUNT \cup {None} : Respond(bundle, opk_id)

Spec == Init /\ [][Next]_vars

---------------------------------------------------------------------------
(* Properties.                                                             *)

TypeOK ==
    /\ now \in Nat
    /\ memory = Locked \/ memory \in
          [signed_prekey : SignedPreKeys, one_time_prekeys : Seq(Nat),
           retired_signed_prekeys : Seq(Retired(Int))]
    /\ vault \in [signed_pre_key : SignedPreKeys, one_time_pre_keys : Seq(Nat),
                  retired_signed_pre_keys : Seq(Retired(Int \cup {None}))]
    /\ generated \in 1..MaxKeys
    /\ retired_when \in [1..MaxKeys -> Int \cup {None}]
    /\ spent \cup spent_saved \subseteq 1..OPK_COUNT

\* Key k is current, or stopped being so less than the retention time ago.
InWindow(k) == \/ memory.signed_prekey.keypair = Spk(k)
               \/ retired_when[k] # None /\ now - retired_when[k] < SPK_RETENTION_SECS

\* A peer whose bundle is in the window gets through: respond finds the very
\* key of the bundle under its id, derives the initiator's master secret and
\* associated data, and hands the ratchet the key pair the initiator's ratchet
\* starts from; whatever the rotations, crashes, restarts and reloads of
\* older vaults in between.
CachedBundleWorks ==
    memory # Locked =>
        \A b \in bundles : InWindow(b.spk_pub[2]) =>
            LET i == initiate(b)
                r == respond(memory, i.message)
            IN  /\ i # None
                /\ r # None
                /\ r.master_secret = i.master_secret
                /\ r.associated_data = i.associated_data
                /\ r.spk_keypair = b.spk_pub

\* Right after rotate_signed_prekey_if_due no private key is left of a prekey
\* that stopped being current SPK_RETENTION_SECS ago or more, nor is the
\* current one due, also when the vault did not say when (legacy_retired_at).
RotationExpires ==
    [][Rotate =>
        /\ ~RotationDue(memory', now)
        /\ \A r \in Range(memory'.retired_signed_prekeys) :
              now - retired_when'[r.prekey.keypair[2]] < SPK_RETENTION_SECS]_vars

\* What the comment on PublicBundle::id_sig says of bundles without one:
\* verify_bundle rejects them, so no handshake starts from them.
LegacyBundleRejected == \A b \in bundles : b.id_sig = None => initiate(b) = None

\* A one-time prekey whose use was saved never serves again, and one used in
\* this session does not serve twice in it.
OpkUsedOnce ==
    /\ Range(vault.one_time_pre_keys) \cap spent_saved = {}
    /\ memory # Locked =>
          Range(memory.one_time_prekeys) \cap (spent \cup spent_saved) = {}
============================================================================
