-------------------------- MODULE HandshakeProofs --------------------------
(***************************************************************************)
(* Proofs about the prekeys and handshakes of module Handshake, for all    *)
(* rotation and retention times, numbers of prekeys and bounds.            *)
(***************************************************************************)
EXTENDS Handshake, VectorProofs

---------------------------------------------------------------------------
(* The inductive invariant.                                                *)

Identities ==
    [signed_prekey : SignedPreKeys, one_time_prekeys : Seq(Nat),
     retired_signed_prekeys : Seq(Retired(Int))]

Vaults ==
    [signed_pre_key : SignedPreKeys, one_time_pre_keys : Seq(Nat),
     retired_signed_pre_keys : Seq(Retired(Int \cup {None}))]

\* Key pairs are numbered as they are generated.
Number(spk) == spk.keypair[2]

\* The keys of an identity or a vault with this current one and these retired.
Held(current, retired) == {current} \cup {r.prekey : r \in retired}

Signed(spk) == spk.signature = ed25519_sign("account", spk.keypair)

\* Ids and numbers, up to n, grow with every rotation.
Ordered(current, retired, n) ==
    /\ Signed(current)
    /\ Number(current) \in 1..n
    /\ \A r \in retired :
          /\ r.prekey.id < current.id
          /\ Number(r.prekey) \in 1..n
          /\ Number(r.prekey) < Number(current)

\* A cached bundle's id stands for its key, which is there for as long as it has
\* not been out of use, since when[..], for the retention time.
Serves(b, current, retired, when, t) ==
    /\ \A spk \in Held(current, retired) : spk.id = b.spk_id <=> spk.keypair = b.spk_pub
    /\ /\ when[b.spk_pub[2]] # None
       /\ t - when[b.spk_pub[2]] < SPK_RETENTION_SECS
       => \E spk \in Held(current, retired) : spk.id = b.spk_id

InMemory == Range(memory.retired_signed_prekeys)
InVault == Range(vault.retired_signed_pre_keys)

MemoryInv ==
    /\ Ordered(memory.signed_prekey, InMemory, generated)
    /\ \A r \in InMemory : r.retired_at = retired_when[Number(r.prekey)]
    /\ vault.signed_pre_key.id <= memory.signed_prekey.id
    /\ Number(vault.signed_pre_key) <= Number(memory.signed_prekey)
    /\ Range(memory.one_time_prekeys) \subseteq 1..OPK_COUNT
    /\ \A b \in bundles : Serves(b, memory.signed_prekey, InMemory, retired_when, now)

\* When r of vault v was retired, as deserialize_identity has it.
RetiredAt(v, r) ==
    IF r.retired_at # None THEN r.retired_at
    ELSE legacy_retired_at(r.prekey.id, v.retired_signed_pre_keys, v.signed_pre_key)

VaultInv ==
    /\ Ordered(vault.signed_pre_key, InVault, generated)
    /\ \A r \in InVault :
          /\ RetiredAt(vault, r) = retired_when[Number(r.prekey)]
          /\ RetiredAt(vault, r) \in Int
    /\ Range(vault.one_time_pre_keys) \subseteq 1..OPK_COUNT
    /\ \A b \in bundles : Serves(b, vault.signed_pre_key, InVault, retired_when, now)

\* What is published was saved before.
Published(b, saved) ==
    /\ b \in [ik_dh_pub : {Ik("account")}, spk_id : Nat, spk_pub : {"spk"} \X Nat,
              spk_sig : {ed25519_sign("account", b.spk_pub)}, opk_id : {None}, id_sig : {b.id_sig}]
    /\ b.spk_id <= saved.id
    /\ b.spk_pub[2] \in 1..Number(saved)

Inv ==
    /\ TypeOK
    /\ OpkUsedOnce
    /\ memory # Locked => MemoryInv
    /\ VaultInv
    /\ \A b \in bundles : Published(b, vault.signed_pre_key)

---------------------------------------------------------------------------
(* Rotation.                                                               *)

\* The current key has the highest id, so the next one gets the id after it.
LEMMA NextIdIs ==
    ASSUME NEW identity \in Identities,
           \A r \in Range(identity.retired_signed_prekeys) :
               r.prekey.id < identity.signed_prekey.id
    PROVE  NextId(identity) = identity.signed_prekey.id + 1
<1> DEFINE n == identity.signed_prekey.id
           S == {n} \cup {r.prekey.id : r \in Range(identity.retired_signed_prekeys)}
<1>1. n \in Int /\ \A r \in Range(identity.retired_signed_prekeys) : r.prekey.id \in Int
  <2>1. /\ identity.signed_prekey \in SignedPreKeys
        /\ identity.retired_signed_prekeys \in Seq(Retired(Int))
    BY DEF Identities
  <2>2. \A r \in Range(identity.retired_signed_prekeys) : r \in Retired(Int)
    BY <2>1, RangeIn
  <2> QED BY <2>1, <2>2 DEF SignedPreKeys, Retired
<1>2. n \in S /\ \A y \in S : y \in Int /\ n >= y
  BY <1>1
<1>3. NextId(identity) = Max(S) + 1
  BY Zenon DEF NextId
<1> HIDE DEF S, n
<1>4. Max(S) = n
  <2>1. \A x \in S : (\A y \in S : x >= y) => x = n
    BY <1>1, <1>2
  <2> QED BY <1>2, <2>1 DEF Max
<1> QED BY <1>3, <1>4 DEF n

Outgoing(identity, t) == [prekey |-> identity.signed_prekey, retired_at |-> t]

LEMMA RotateBuilds ==
    ASSUME NEW identity \in Identities, NEW t \in Int, NEW k \in Nat, NEW new,
           \A r \in Range(identity.retired_signed_prekeys) :
               r.prekey.id < identity.signed_prekey.id,
           new = rotate_signed_prekey_if_due(identity, t, k)
    PROVE  /\ new \in Identities
           /\ new.one_time_prekeys = identity.one_time_prekeys
           /\ new.signed_prekey =
                 IF RotationDue(identity, t)
                 THEN signed_prekey_created_at(identity.signed_prekey.id + 1, k, t)
                 ELSE identity.signed_prekey
           /\ Range(new.retired_signed_prekeys) =
                 {r \in Range(identity.retired_signed_prekeys) \cup
                        (IF RotationDue(identity, t) THEN {Outgoing(identity, t)} ELSE {}) :
                    t - r.retired_at < SPK_RETENTION_SECS}
<1> DEFINE rs == identity.retired_signed_prekeys
           due == RotationDue(identity, t)
           spk == signed_prekey_created_at(identity.signed_prekey.id + 1, k, t)
           out == Outgoing(identity, t)
           rotated == IF ~due THEN identity
                      ELSE [identity EXCEPT !.signed_prekey = spk,
                                            !.retired_signed_prekeys = Append(@, out)]
           all == rotated.retired_signed_prekeys
           kept == {r \in Range(all) : t - r.retired_at < SPK_RETENTION_SECS}
<1>1. new = [rotated EXCEPT !.retired_signed_prekeys = retain(@, kept)]
  <2>1. NextId(identity) = identity.signed_prekey.id + 1
    BY NextIdIs
  <2> QED BY <2>1, Zenon DEF rotate_signed_prekey_if_due, Outgoing
<1>2. rs \in Seq(Retired(Int)) /\ identity.signed_prekey \in SignedPreKeys
  BY DEF Identities
<1>3. spk \in SignedPreKeys
  <2>1. identity.signed_prekey.id + 1 \in Nat
    BY <1>2 DEF SignedPreKeys
  <2> QED BY <2>1 DEF signed_prekey_created_at, SignedPreKeys, Spk, ed25519_sign
<1>4. out \in Retired(Int) /\ Append(rs, out) \in Seq(Retired(Int))
  BY <1>2 DEF Outgoing, Retired
<1>5. Range(Append(rs, out)) = Range(rs) \cup {out}
  <2> HIDE DEF out, rs
  <2> QED BY <1>2, <1>4, RangeAppend
<1> HIDE DEF spk, out, due
<1>6. /\ rotated \in Identities
      /\ rotated.one_time_prekeys = identity.one_time_prekeys
      /\ rotated.signed_prekey = IF due THEN spk ELSE identity.signed_prekey
      /\ rotated.retired_signed_prekeys = IF due THEN Append(rs, out) ELSE rs
  BY <1>3, <1>4 DEF Identities
<1>7. Range(all) = Range(rs) \cup (IF due THEN {out} ELSE {})
  BY <1>5, <1>6
<1> HIDE DEF rotated
<1>8. all \in Seq(Retired(Int))
  BY <1>6 DEF Identities
<1>9. retain(all, kept) \in Seq(Retired(Int)) /\ Range(retain(all, kept)) = kept
  <2>1. Range(all) \cap kept = kept
    OBVIOUS
  <2> HIDE DEF all, kept
  <2> QED BY <1>8, <2>1, RetainRange
<1>10. /\ new \in Identities
       /\ new.one_time_prekeys = rotated.one_time_prekeys
       /\ new.signed_prekey = rotated.signed_prekey
       /\ new.retired_signed_prekeys = retain(all, kept)
  <2> HIDE DEF kept
  <2> QED BY <1>1, <1>6, <1>9 DEF Identities
<1>11. kept = {r \in Range(rs) \cup (IF due THEN {out} ELSE {}) :
                 t - r.retired_at < SPK_RETENTION_SECS}
  BY <1>7
<1> QED BY <1>6, <1>9, <1>10, <1>11 DEF due, spk, out

---------------------------------------------------------------------------
(* Loading a vault.                                                        *)

LEMMA LoadBuilds ==
    ASSUME NEW v \in Vaults, NEW identity, identity = deserialize_identity(v),
           \A r \in Range(v.retired_signed_pre_keys) : RetiredAt(v, r) \in Int
    PROVE  /\ identity \in Identities
           /\ identity.signed_prekey = v.signed_pre_key
           /\ identity.one_time_prekeys = v.one_time_pre_keys
           /\ Range(identity.retired_signed_prekeys) =
                 {[prekey |-> r.prekey, retired_at |-> RetiredAt(v, r)] :
                    r \in Range(v.retired_signed_pre_keys)}
<1> DEFINE rs == v.retired_signed_pre_keys
           Load(r) == IF r.retired_at # None THEN r
                      ELSE [r EXCEPT !.retired_at =
                              legacy_retired_at(r.prekey.id, rs, v.signed_pre_key)]
           Loaded(r) == [prekey |-> r.prekey, retired_at |-> RetiredAt(v, r)]
           ls == [i \in DOMAIN rs |-> Load(rs[i])]
<1>1. /\ identity = [signed_prekey |-> v.signed_pre_key, one_time_prekeys |-> v.one_time_pre_keys,
                     retired_signed_prekeys |-> ls]
  BY Zenon DEF deserialize_identity
<1>2. rs \in Seq(Retired(Int \cup {None}))
  BY DEF Vaults
<1>3. ASSUME NEW r \in Range(rs) PROVE Load(r) = Loaded(r) /\ Loaded(r) \in Retired(Int)
  <2>1. r \in [prekey : SignedPreKeys, retired_at : Int \cup {None}]
    BY <1>2, RangeIn DEF Retired
  <2>2. RetiredAt(v, r) \in Int
    OBVIOUS
  <2>3. Loaded(r) \in Retired(Int)
    BY <2>1, <2>2 DEF Retired
  <2>4. Load(r) = Loaded(r)
    <3> DEFINE l == legacy_retired_at(r.prekey.id, rs, v.signed_pre_key)
    <3>1. RetiredAt(v, r) = IF r.retired_at # None THEN r.retired_at ELSE l
      BY Zenon DEF RetiredAt
    <3> HIDE DEF l
    <3>2. CASE r.retired_at # None
      BY <2>1, <3>1, <3>2
    <3>3. CASE r.retired_at = None
      <4>1. Load(r) = [r EXCEPT !.retired_at = l]
        BY <3>3 DEF l
      <4> QED BY <2>1, <3>1, <3>3, <4>1
    <3> QED BY <3>2, <3>3
  <2> QED BY <2>3, <2>4
<1> HIDE DEF Load
<1>4. ls \in Seq(Retired(Int)) /\ Range(ls) = {Loaded(r) : r \in Range(rs)}
  <2>1. /\ DOMAIN rs = 1..Len(rs) /\ Len(rs) \in Nat
        /\ \A i \in DOMAIN rs : rs[i] \in Range(rs)
    BY <1>2 DEF Range
  <2>2. \A i \in DOMAIN rs : ls[i] = Loaded(rs[i]) /\ ls[i] \in Retired(Int)
    BY <1>3, <2>1
  <2> HIDE DEF Loaded
  <2>3. DOMAIN ls = DOMAIN rs
    OBVIOUS
  <2>4. ls \in [1..Len(rs) -> Retired(Int)]
    BY <2>1, <2>2, <2>3
  <2> HIDE DEF ls
  <2>5. ls \in Seq(Retired(Int))
    BY <2>1, <2>4
  <2>6. Range(ls) = {Loaded(r) : r \in Range(rs)}
    BY <2>1, <2>2, <2>3 DEF Range
  <2> QED BY <2>5, <2>6
<1> HIDE DEF ls
<1>5. identity \in Identities
  BY <1>1, <1>4 DEF Identities, Vaults
<1> QED BY <1>1, <1>4, <1>5

---------------------------------------------------------------------------
(* Each action keeps the invariant.                                        *)

LEMMA Types ==
    ASSUME Inv
    PROVE  /\ memory # Locked => memory \in Identities
           /\ vault \in Vaults
           /\ vault.signed_pre_key \in SignedPreKeys
           /\ now \in Nat /\ generated \in 1..MaxKeys
           /\ retired_when \in [1..MaxKeys -> Int \cup {None}]
           /\ MaxKeys \in Nat
BY TimesAssumption DEF Inv, TypeOK, Identities, Vaults

\* The number of a bundle's key.
LEMMA BundleNumber ==
    ASSUME Inv, NEW b \in bundles
    PROVE  /\ b.spk_pub = Spk(b.spk_pub[2])
           /\ b.spk_pub[2] \in 1..generated
           /\ b.spk_pub[2] \in 1..MaxKeys
           /\ b.spk_pub[2] \in 1..Number(vault.signed_pre_key)
           /\ b.spk_id \in Nat
           /\ b.spk_id <= vault.signed_pre_key.id
<1>1. /\ b.spk_pub \in {"spk"} \X Nat /\ b.spk_id \in Nat
      /\ b.spk_pub[2] \in 1..Number(vault.signed_pre_key)
      /\ b.spk_id <= vault.signed_pre_key.id
  BY DEF Inv, Published
<1>2. Number(vault.signed_pre_key) \in 1..generated
  BY DEF Inv, VaultInv, Ordered
<1>3. b.spk_pub = Spk(b.spk_pub[2])
  BY <1>1 DEF Spk
<1>4. b.spk_pub[2] \in 1..generated
  BY <1>1, <1>2, Types
<1> QED BY <1>1, <1>3, <1>4, Types

LEMMA TickInv == Inv /\ Tick => Inv'
<1> SUFFICES ASSUME Inv, Tick PROVE Inv'
  OBVIOUS
<1>1. /\ now' = now + 1
      /\ memory' = memory /\ vault' = vault /\ bundles' = bundles /\ generated' = generated
      /\ retired_when' = retired_when /\ spent' = spent /\ spent_saved' = spent_saved
  BY DEF Tick
<1>2. ASSUME NEW b \in bundles, NEW c, NEW R, Serves(b, c, R, retired_when, now)
      PROVE  Serves(b, c, R, retired_when, now')
  <2>1. b.spk_pub[2] \in 1..MaxKeys
    BY BundleNumber
  <2>2. retired_when[b.spk_pub[2]] \in Int \cup {None} /\ now \in Nat
    BY <2>1, Types
  <2>3. /\ retired_when[b.spk_pub[2]] # None
        /\ now' - retired_when[b.spk_pub[2]] < SPK_RETENTION_SECS
        => now - retired_when[b.spk_pub[2]] < SPK_RETENTION_SECS
    BY <1>1, <2>2, TimesAssumption
  <2> QED BY <1>2, <2>3 DEF Serves
<1>3. InMemory' = InMemory /\ InVault' = InVault
  BY <1>1 DEF InMemory, InVault
<1>4. memory # Locked => MemoryInv'
  BY <1>1, <1>2, <1>3 DEF Inv, MemoryInv
<1>5. VaultInv'
  BY <1>1, <1>2, <1>3 DEF Inv, VaultInv
<1>6. TypeOK'
  BY <1>1 DEF Inv, TypeOK
<1>7. OpkUsedOnce'
  BY <1>1 DEF Inv, OpkUsedOnce
<1> QED BY <1>1, <1>4, <1>5, <1>6, <1>7 DEF Inv

LEMMA UnsealInv == Inv /\ unseal_vault => Inv'
<1> SUFFICES ASSUME Inv, unseal_vault PROVE Inv'
  OBVIOUS
<1>1. /\ memory' = deserialize_identity(vault) /\ spent' = {}
      /\ now' = now /\ vault' = vault /\ bundles' = bundles /\ generated' = generated
      /\ retired_when' = retired_when /\ spent_saved' = spent_saved
  BY DEF unseal_vault
<1> DEFINE Loaded(r) == [prekey |-> r.prekey, retired_at |-> RetiredAt(vault, r)]
<1>2. /\ memory' \in Identities
      /\ memory'.signed_prekey = vault.signed_pre_key
      /\ memory'.one_time_prekeys = vault.one_time_pre_keys
      /\ InMemory' = {Loaded(r) : r \in InVault}
  <2>1. vault \in Vaults
    BY Types
  <2>2. \A r \in Range(vault.retired_signed_pre_keys) : RetiredAt(vault, r) \in Int
    BY DEF Inv, VaultInv, InVault
  <2> QED BY <1>1, <2>1, <2>2, LoadBuilds DEF InMemory, InVault
<1>3. \A r \in InVault : Loaded(r).prekey = r.prekey /\ Loaded(r).retired_at = RetiredAt(vault, r)
  OBVIOUS
<1> HIDE DEF Loaded
<1>4. Held(vault.signed_pre_key, InMemory') = Held(vault.signed_pre_key, InVault)
  BY <1>2, <1>3 DEF Held
<1>5. InVault' = InVault
  BY <1>1 DEF InVault
<1>6. MemoryInv'
  <2>1. Ordered(memory'.signed_prekey, InMemory', generated')
    BY <1>1, <1>2, <1>3 DEF Inv, VaultInv, Ordered
  <2>2. \A r \in InMemory' : r.retired_at = retired_when'[Number(r.prekey)]
    BY <1>1, <1>2, <1>3 DEF Inv, VaultInv
  <2>3. vault.signed_pre_key.id \in Nat /\ Number(vault.signed_pre_key) \in Nat
    BY Types DEF SignedPreKeys, Number
  <2>4. /\ vault'.signed_pre_key.id <= memory'.signed_prekey.id
        /\ Number(vault'.signed_pre_key) <= Number(memory'.signed_prekey)
    BY <1>1, <1>2, <2>3
  <2>5. Range(memory'.one_time_prekeys) \subseteq 1..OPK_COUNT
    BY <1>2 DEF Inv, VaultInv
  <2>6. \A b \in bundles' : Serves(b, memory'.signed_prekey, InMemory', retired_when', now')
    <3>1. memory'.signed_prekey = vault.signed_pre_key
          /\ bundles' = bundles /\ retired_when' = retired_when /\ now' = now
      BY <1>1, <1>2
    <3> SUFFICES ASSUME NEW b \in bundles
                 PROVE  Serves(b, vault.signed_pre_key, InMemory', retired_when, now)
      BY <3>1
    <3>2. Serves(b, vault.signed_pre_key, InVault, retired_when, now)
      BY DEF Inv, VaultInv
    <3> QED BY <1>4, <3>2 DEF Serves
  <2> QED BY <2>1, <2>2, <2>4, <2>5, <2>6 DEF MemoryInv
<1>7. VaultInv'
  BY <1>1, <1>5 DEF Inv, VaultInv
<1>8. TypeOK'
  BY <1>1, <1>2 DEF Inv, TypeOK, Identities
<1>9. OpkUsedOnce'
  BY <1>1, <1>2 DEF Inv, OpkUsedOnce
<1> QED BY <1>1, <1>6, <1>7, <1>8, <1>9 DEF Inv

LEMMA CrashInv == Inv /\ Crash => Inv'
<1> SUFFICES ASSUME Inv, Crash PROVE Inv'
  OBVIOUS
<1>1. /\ memory' = Locked
      /\ now' = now /\ vault' = vault /\ bundles' = bundles /\ generated' = generated
      /\ retired_when' = retired_when /\ spent' = spent /\ spent_saved' = spent_saved
  BY DEF Crash
<1>2. VaultInv'
  BY <1>1 DEF Inv, VaultInv, InVault
<1>3. TypeOK' /\ OpkUsedOnce'
  BY <1>1 DEF Inv, TypeOK, OpkUsedOnce
<1> QED BY <1>1, <1>2, <1>3 DEF Inv

LEMMA SealInv == Inv /\ seal_vault => Inv'
<1> SUFFICES ASSUME Inv, seal_vault PROVE Inv'
  OBVIOUS
<1>1. /\ memory # Locked /\ vault' = serialize_identity(memory)
      /\ spent_saved' = spent_saved \cup spent
      /\ now' = now /\ memory' = memory /\ bundles' = bundles /\ generated' = generated
      /\ retired_when' = retired_when /\ spent' = spent
  BY DEF seal_vault
<1>2. memory \in Identities /\ MemoryInv
  BY <1>1, Types DEF Inv
<1>3. /\ vault'.signed_pre_key = memory.signed_prekey
      /\ vault'.one_time_pre_keys = memory.one_time_prekeys
      /\ vault'.retired_signed_pre_keys = memory.retired_signed_prekeys
  BY <1>1 DEF serialize_identity
<1>4. InVault' = InMemory /\ InMemory' = InMemory
  BY <1>1, <1>3 DEF InVault, InMemory
<1>5. memory.signed_prekey \in SignedPreKeys
      /\ memory.retired_signed_prekeys \in Seq(Retired(Int))
  BY <1>2 DEF Identities
<1>6. ASSUME NEW r \in InMemory
      PROVE  RetiredAt(vault', r) = retired_when[Number(r.prekey)] /\ RetiredAt(vault', r) \in Int
  <2>1. r \in Retired(Int)
    BY <1>5, RangeIn DEF InMemory
  <2>2. r.retired_at \in Int /\ r.retired_at # None
    BY <2>1, NoneAssumption DEF Retired
  <2>3. RetiredAt(vault', r) = r.retired_at
    BY <2>2, Zenon DEF RetiredAt
  <2> QED BY <1>2, <2>2, <2>3 DEF MemoryInv
<1>7. VaultInv'
  BY <1>1, <1>2, <1>3, <1>4, <1>6 DEF VaultInv, MemoryInv
<1>8. memory.signed_prekey.id \in Nat /\ Number(memory.signed_prekey) \in Nat
  BY <1>5 DEF SignedPreKeys, Number
<1>9. MemoryInv'
  BY <1>1, <1>2, <1>3, <1>4, <1>8 DEF MemoryInv
<1>10. ASSUME NEW b \in bundles PROVE Published(b, vault'.signed_pre_key)
  <2>1. Published(b, vault.signed_pre_key)
    BY DEF Inv
  <2>2. vault.signed_pre_key.id \in Nat /\ Number(vault.signed_pre_key) \in Nat
    BY Types DEF SignedPreKeys, Number
  <2>3. b.spk_id <= memory.signed_prekey.id /\ b.spk_pub[2] \in 1..Number(memory.signed_prekey)
    BY <1>2, <1>8, <2>2, BundleNumber DEF MemoryInv
  <2> QED BY <1>3, <2>1, <2>3 DEF Published
<1>11. TypeOK'
  <2>1. memory.retired_signed_prekeys \in Seq(Retired(Int \cup {None}))
    <3>1. Retired(Int) \subseteq Retired(Int \cup {None})
      BY DEF Retired
    <3> QED BY <1>5, <3>1, SeqOfMore
  <2>2. vault' \in Vaults
    BY <1>1, <1>2, <2>1 DEF serialize_identity, Vaults, Identities
  <2> QED BY <1>1, <2>2 DEF Inv, TypeOK, Vaults
<1>12. OpkUsedOnce'
  BY <1>1, <1>3 DEF Inv, OpkUsedOnce
<1> QED BY <1>1, <1>7, <1>9, <1>10, <1>11, <1>12 DEF Inv

LEMMA PublishInv == Inv /\ Publish => Inv'
<1> SUFFICES ASSUME Inv, Publish PROVE Inv'
  OBVIOUS
<1> DEFINE new == public_bundle_for(memory)
           c == vault.signed_pre_key
<1>1. /\ memory # Locked /\ c = memory.signed_prekey
      /\ bundles' = bundles \cup {new}
      /\ now' = now /\ memory' = memory /\ vault' = vault /\ generated' = generated
      /\ retired_when' = retired_when /\ spent' = spent /\ spent_saved' = spent_saved
  BY DEF Publish
<1>2. c \in SignedPreKeys /\ MemoryInv /\ VaultInv
  BY <1>1, Types DEF Inv
<1>3. /\ new.spk_id = c.id /\ new.spk_pub = c.keypair /\ new.spk_sig = c.signature
  BY <1>1 DEF public_bundle_for
<1>4. c.signature = ed25519_sign("account", c.keypair)
  BY <1>2 DEF VaultInv, Ordered, Signed
<1>5. Published(new, c)
  BY <1>1, <1>2, <1>4 DEF Published, public_bundle_for, SignedPreKeys, VaultInv, Ordered, Number
<1> HIDE DEF new
<1>6. ASSUME NEW R, Ordered(c, R, generated),
             \A r \in R : r.prekey \in SignedPreKeys
      PROVE  Serves(new, c, R, retired_when, now)
  <2>1. ASSUME NEW r \in R PROVE r.prekey.id # c.id /\ r.prekey.keypair # c.keypair
    <3>1. /\ r.prekey.id < c.id /\ Number(r.prekey) < Number(c)
          /\ r.prekey.id \in Nat /\ c.id \in Nat /\ Number(r.prekey) \in Nat /\ Number(c) \in Nat
      BY <1>2, <1>6 DEF Ordered, SignedPreKeys, Number
    <3> QED BY <3>1 DEF Number
  <2> QED BY <1>3, <2>1 DEF Serves, Held
<1>7. InMemory' = InMemory /\ InVault' = InVault
  BY <1>1 DEF InMemory, InVault
<1>8. (\A r \in InMemory : r.prekey \in SignedPreKeys) /\ (\A r \in InVault : r.prekey \in SignedPreKeys)
  <2>1. /\ memory.retired_signed_prekeys \in Seq(Retired(Int))
        /\ vault.retired_signed_pre_keys \in Seq(Retired(Int \cup {None}))
    BY <1>1, Types DEF Identities, Vaults
  <2>2. (\A r \in InMemory : r \in Retired(Int)) /\ (\A r \in InVault : r \in Retired(Int \cup {None}))
    BY <2>1, RangeIn DEF InMemory, InVault
  <2> QED BY <2>2 DEF Retired
<1>9. MemoryInv'
  BY <1>1, <1>2, <1>6, <1>7, <1>8 DEF MemoryInv
<1>10. VaultInv'
  BY <1>1, <1>2, <1>6, <1>7, <1>8 DEF VaultInv
<1>11. TypeOK' /\ OpkUsedOnce'
  BY <1>1 DEF Inv, TypeOK, OpkUsedOnce
<1> QED BY <1>1, <1>5, <1>9, <1>10, <1>11 DEF Inv

LEMMA RespondInv ==
    ASSUME Inv, NEW bundle \in bundles, NEW opk_id \in 0..OPK_COUNT \cup {None},
           Respond(bundle, opk_id)
    PROVE  Inv'
<1> DEFINE msg == [initiate(bundle).message EXCEPT !.opk_id = opk_id]
<1>1. /\ memory # Locked /\ respond(memory, msg) # None
      /\ now' = now /\ vault' = vault /\ bundles' = bundles /\ generated' = generated
      /\ retired_when' = retired_when /\ spent_saved' = spent_saved
  BY DEF Respond
<1>2. CASE opk_id = None
  <2>1. memory' = memory /\ spent' = spent
    BY <1>2 DEF Respond
  <2>2. (memory # Locked => MemoryInv') /\ VaultInv'
    BY <1>1, <2>1 DEF Inv, MemoryInv, VaultInv, InMemory, InVault
  <2>3. TypeOK' /\ OpkUsedOnce'
    BY <1>1, <2>1 DEF Inv, TypeOK, OpkUsedOnce
  <2> QED BY <1>1, <2>1, <2>2, <2>3 DEF Inv
<1>3. CASE opk_id # None
  <2>1. memory' = consume_one_time_prekey(memory, opk_id) /\ spent' = spent \cup {opk_id}
    BY <1>3 DEF Respond
  <2>2. memory \in Identities /\ MemoryInv /\ VaultInv
    BY <1>1, Types DEF Inv
  <2>3. opk_id \in Range(memory.one_time_prekeys)
    <3>1. verify_bundle(bundle)
      BY DEF Inv, Published, verify_bundle
    <3>2. msg.opk_id = opk_id
      BY <3>1 DEF initiate
    <3> HIDE DEF msg
    <3>3. HasOpk(memory, msg.opk_id)
      BY <1>1, <1>3, <3>2 DEF respond
    <3> QED BY <3>2, <3>3 DEF HasOpk
  <2> DEFINE left == retain(memory.one_time_prekeys, Range(memory.one_time_prekeys) \ {opk_id})
  <2>4. memory' = [memory EXCEPT !.one_time_prekeys = left]
    BY <2>1 DEF consume_one_time_prekey
  <2>5. left \in Seq(Nat) /\ Range(left) = Range(memory.one_time_prekeys) \ {opk_id}
    <3>1. memory.one_time_prekeys \in Seq(Nat)
      BY <2>2 DEF Identities
    <3> QED BY <3>1, RetainRange
  <2> HIDE DEF left
  <2>6. /\ memory' \in Identities
        /\ memory'.signed_prekey = memory.signed_prekey
        /\ memory'.retired_signed_prekeys = memory.retired_signed_prekeys
        /\ memory'.one_time_prekeys = left
    BY <2>2, <2>4, <2>5 DEF Identities
  <2>7. InMemory' = InMemory /\ InVault' = InVault
    BY <1>1, <2>6 DEF InMemory, InVault
  <2>8. MemoryInv'
    BY <1>1, <2>2, <2>5, <2>6, <2>7 DEF MemoryInv
  <2>9. VaultInv'
    BY <1>1, <2>2, <2>7 DEF VaultInv
  <2>10. TypeOK'
    <3>1. opk_id \in 1..OPK_COUNT
      BY <2>2, <2>3 DEF MemoryInv
    <3> QED BY <1>1, <2>1, <2>6, <3>1 DEF Inv, TypeOK, Identities
  <2>11. OpkUsedOnce'
    <3>1. opk_id \notin spent_saved
      BY <1>1, <2>3 DEF Inv, OpkUsedOnce
    <3> QED BY <1>1, <2>1, <2>5, <2>6, <3>1 DEF Inv, OpkUsedOnce
  <2> QED BY <1>1, <2>8, <2>9, <2>10, <2>11 DEF Inv
<1> QED BY <1>2, <1>3

\* What rotation keeps serves every cached bundle that the old keys served and
\* whose key is still in its retention time; and so does the vault.
LEMMA RotateInv == Inv /\ Rotate => Inv'
<1> SUFFICES ASSUME Inv, Rotate PROVE Inv'
  OBVIOUS
<1> DEFINE c == memory.signed_prekey
           k == Number(c)
           new == signed_prekey_created_at(c.id + 1, generated + 1, now)
           out == Outgoing(memory, now)
           due == RotationDue(memory, now)
<1>1. /\ memory # Locked /\ memory' = rotate_signed_prekey_if_due(memory, now, generated + 1)
      /\ now' = now /\ vault' = vault /\ bundles' = bundles
      /\ spent' = spent /\ spent_saved' = spent_saved
  BY DEF Rotate
<1>2. memory \in Identities /\ MemoryInv /\ VaultInv
  BY <1>1, Types DEF Inv
<1>3. /\ c \in SignedPreKeys /\ c.id \in Nat /\ k \in 1..generated /\ c.keypair = Spk(k)
      /\ k \in 1..MaxKeys
  <2>1. c \in SignedPreKeys
    BY <1>2 DEF Identities
  <2>2. k \in 1..generated
    BY <1>2 DEF MemoryInv, Ordered
  <2>3. c.id \in Nat /\ c.keypair \in {"spk"} \X Nat
    BY <2>1 DEF SignedPreKeys
  <2>4. c.keypair = Spk(k)
    BY <2>3 DEF Spk, Number
  <2> QED BY <2>1, <2>2, <2>3, <2>4, Types
<1>4. /\ due => /\ generated < MaxKeys
                /\ generated' = generated + 1
                /\ retired_when' = [retired_when EXCEPT ![k] = now]
      /\ ~due => generated' = generated /\ retired_when' = retired_when
  BY DEF Rotate, Number
<1>5. generated \in Nat /\ generated' \in Nat /\ generated <= generated' /\ generated' \in 1..MaxKeys
  BY <1>4, Types
<1>6. /\ memory' \in Identities
      /\ memory'.one_time_prekeys = memory.one_time_prekeys
      /\ memory'.signed_prekey = IF due THEN new ELSE c
      /\ InMemory' = {r \in InMemory \cup (IF due THEN {out} ELSE {}) :
                        now - r.retired_at < SPK_RETENTION_SECS}
  <2>1. \A r \in Range(memory.retired_signed_prekeys) : r.prekey.id < memory.signed_prekey.id
    BY <1>2 DEF MemoryInv, Ordered, InMemory
  <2>2. now \in Int /\ generated + 1 \in Nat
    BY <1>5, Types
  <2> QED BY <1>1, <1>2, <2>1, <2>2, RotateBuilds DEF InMemory
<1>7. new.id = c.id + 1 /\ new.keypair = Spk(generated + 1) /\ Number(new) = generated + 1
      /\ Signed(new)
  BY DEF signed_prekey_created_at, Number, Spk, Signed
<1>8. out.prekey = c /\ out.retired_at = now
  BY DEF Outgoing
<1> HIDE DEF new, out, due, c, k
<1>9. ASSUME NEW n \in 1..MaxKeys
      PROVE  retired_when'[n] = IF due /\ n = k THEN now ELSE retired_when[n]
  BY <1>3, <1>4, Types
<1>10. ASSUME NEW r \in InMemory
       PROVE  /\ r.prekey.id \in Nat /\ r.prekey.id < c.id
              /\ Number(r.prekey) \in 1..generated /\ Number(r.prekey) < k
              /\ r.prekey.keypair = Spk(Number(r.prekey))
              /\ retired_when'[Number(r.prekey)] = r.retired_at
  <2>1. r \in Retired(Int)
    <3>1. memory.retired_signed_prekeys \in Seq(Retired(Int))
      BY <1>2 DEF Identities
    <3> QED BY <3>1, RangeIn DEF InMemory
  <2>2. r.prekey.id \in Nat /\ r.prekey.keypair \in {"spk"} \X Nat
    BY <2>1 DEF Retired, SignedPreKeys
  <2>3. r.prekey.id < c.id /\ Number(r.prekey) \in 1..generated /\ Number(r.prekey) < k
    BY <1>2 DEF MemoryInv, Ordered, c, k
  <2>4. Number(r.prekey) \in 1..MaxKeys /\ Number(r.prekey) # k
    BY <1>3, <2>3, Types
  <2>5. retired_when[Number(r.prekey)] = r.retired_at
    BY <1>2 DEF MemoryInv
  <2>6. r.prekey.keypair = Spk(Number(r.prekey))
    BY <2>2 DEF Spk, Number
  <2> QED BY <1>9, <2>2, <2>3, <2>4, <2>5, <2>6
<1>11. ASSUME NEW r \in InMemory'
       PROVE  r \in InMemory \/ (due /\ r = out)
  BY <1>6
<1>12. Ordered(memory'.signed_prekey, InMemory', generated')
  <2>1. CASE due
    <3>1. memory'.signed_prekey = new /\ generated' = generated + 1
      BY <1>4, <1>6, <2>1
    <3>2. Number(new) \in 1..generated'
      BY <1>5, <1>7, <3>1
    <3>3. ASSUME NEW r \in InMemory'
          PROVE  /\ r.prekey.id < new.id /\ Number(r.prekey) \in 1..generated'
                 /\ Number(r.prekey) < Number(new)
      <4>1. CASE r \in InMemory
        BY <1>3, <1>5, <1>7, <1>10, <3>1, <4>1
      <4>2. CASE r = out
        <5>1. r.prekey = c /\ Number(r.prekey) = k
          BY <1>8, <4>2 DEF k
        <5> QED BY <1>3, <1>5, <1>7, <3>1, <5>1
      <4> QED BY <1>11, <4>1, <4>2
    <3> QED BY <1>7, <3>1, <3>2, <3>3 DEF Ordered
  <2>2. CASE ~due
    <3>1. memory'.signed_prekey = c /\ generated' = generated
      BY <1>4, <1>6, <2>2
    <3>2. Ordered(c, InMemory, generated)
      BY <1>2 DEF MemoryInv, c
    <3> QED BY <1>11, <2>2, <3>1, <3>2 DEF Ordered
  <2> QED BY <2>1, <2>2
<1>13. ASSUME NEW r \in InMemory' PROVE r.retired_at = retired_when'[Number(r.prekey)]
  <2>1. CASE r \in InMemory
    BY <1>10, <2>1
  <2>2. CASE due /\ r = out
    <3>1. r.retired_at = now /\ Number(r.prekey) = k
      BY <1>8, <2>2 DEF k
    <3> QED BY <1>3, <1>9, <2>2, <3>1
  <2> QED BY <1>11, <2>1, <2>2
<1>14. /\ vault.signed_pre_key.id \in Nat /\ Number(vault.signed_pre_key) \in Nat
       /\ vault.signed_pre_key.id <= c.id /\ Number(vault.signed_pre_key) <= k
  BY <1>2, Types DEF MemoryInv, SignedPreKeys, Number, c, k
<1>15. /\ vault'.signed_pre_key.id <= memory'.signed_prekey.id
       /\ Number(vault'.signed_pre_key) <= Number(memory'.signed_prekey)
  <2>1. CASE due
    BY <1>1, <1>3, <1>5, <1>6, <1>7, <1>14, <2>1
  <2>2. CASE ~due
    BY <1>1, <1>6, <1>14, <2>2 DEF k
  <2> QED BY <2>1, <2>2
<1>16. ASSUME NEW b \in bundles
       PROVE  Serves(b, memory'.signed_prekey, InMemory', retired_when', now)
  <2> DEFINE j == b.spk_pub[2]
  <2>1. /\ b.spk_pub = Spk(j) /\ j \in 1..generated /\ j \in 1..MaxKeys
        /\ b.spk_id \in Nat /\ b.spk_id <= c.id
    BY <1>3, <1>14, BundleNumber
  <2> HIDE DEF j
  <2>2. Serves(b, c, InMemory, retired_when, now)
    BY <1>2 DEF MemoryInv, c
  <2>3. new.id # b.spk_id /\ new.keypair # b.spk_pub
    BY <1>3, <1>5, <1>7, <2>1 DEF Spk
  <2>4. c.id = b.spk_id <=> c.keypair = b.spk_pub
    BY <2>2 DEF Serves, Held
  <2>5. \A r \in InMemory : r.prekey.id = b.spk_id <=> r.prekey.keypair = b.spk_pub
    BY <2>2 DEF Serves, Held
  <2>6. ASSUME NEW spk \in Held(memory'.signed_prekey, InMemory')
        PROVE  spk.id = b.spk_id <=> spk.keypair = b.spk_pub
    <3>1. spk = new \/ spk = c \/ \E r \in InMemory : spk = r.prekey
      BY <1>6, <1>8, <1>11 DEF Held
    <3> QED BY <2>3, <2>4, <2>5, <3>1
  <2>7. ASSUME retired_when'[j] # None, now - retired_when'[j] < SPK_RETENTION_SECS
        PROVE  \E spk \in Held(memory'.signed_prekey, InMemory') : spk.id = b.spk_id
    <3>1. CASE due /\ j = k
      <4>1. c.id = b.spk_id
        BY <1>3, <2>1, <2>4, <3>1
      <4>2. out \in InMemory'
        BY <1>6, <1>8, <1>9, <2>1, <2>7, <3>1
      <4> QED BY <1>8, <4>1, <4>2 DEF Held
    <3>2. CASE ~(due /\ j = k)
      <4>1. retired_when[j] = retired_when'[j]
        BY <1>9, <2>1, <3>2
      <4>2. PICK spk \in Held(c, InMemory) : spk.id = b.spk_id
        BY <2>2, <2>7, <4>1 DEF Serves, j
      <4>3. CASE spk = c
        <5>1. Spk(k) = Spk(j)
          BY <1>3, <2>1, <2>4, <4>2, <4>3
        <5>2. k = j
          BY <5>1 DEF Spk
        <5>3. memory'.signed_prekey = c
          BY <1>6, <3>2, <5>2
        <5> QED BY <4>2, <4>3, <5>3 DEF Held
      <4>4. CASE spk # c
        <5>1. PICK r \in InMemory : spk = r.prekey
          BY <4>4 DEF Held
        <5>2. r.prekey.keypair = Spk(j)
          BY <2>1, <2>5, <4>2, <5>1
        <5>3. Number(r.prekey) = j
          BY <5>2 DEF Number, Spk
        <5>4. r.retired_at = retired_when'[j]
          BY <1>10, <5>3
        <5>5. r \in InMemory'
          BY <1>6, <2>7, <5>4
        <5> QED BY <4>2, <5>1, <5>5 DEF Held
      <4> QED BY <4>3, <4>4
    <3> QED BY <3>1, <3>2
  <2> QED BY <2>6, <2>7 DEF Serves, j
<1>17. MemoryInv'
  <2>1. Range(memory'.one_time_prekeys) \subseteq 1..OPK_COUNT
    BY <1>2, <1>6 DEF MemoryInv
  <2> QED BY <1>1, <1>12, <1>13, <1>15, <1>16, <2>1 DEF MemoryInv
<1>18. InVault' = InVault
  BY <1>1 DEF InVault
<1>19. Ordered(vault.signed_pre_key, InVault, generated')
  <2>1. Ordered(vault.signed_pre_key, InVault, generated)
    BY <1>2 DEF VaultInv
  <2>2. \A n \in 1..generated : n \in 1..generated'
    BY <1>5
  <2> QED BY <2>1, <2>2 DEF Ordered
<1>20. ASSUME NEW r \in InVault
       PROVE  RetiredAt(vault, r) = retired_when'[Number(r.prekey)] /\ RetiredAt(vault, r) \in Int
  <2>1. /\ RetiredAt(vault, r) = retired_when[Number(r.prekey)]
        /\ RetiredAt(vault, r) \in Int
        /\ Number(r.prekey) \in 1..generated /\ Number(r.prekey) < Number(vault.signed_pre_key)
    BY <1>2 DEF VaultInv, Ordered
  <2>2. Number(r.prekey) \in 1..MaxKeys /\ Number(r.prekey) # k
    BY <1>3, <1>14, <2>1, Types
  <2> QED BY <1>9, <2>1, <2>2
<1>21. ASSUME NEW b \in bundles
       PROVE  Serves(b, vault.signed_pre_key, InVault, retired_when', now)
  <2> DEFINE j == b.spk_pub[2]
             v == vault.signed_pre_key
  <2>1. /\ b.spk_pub = Spk(j) /\ j \in 1..MaxKeys /\ j \in 1..Number(v)
    BY BundleNumber
  <2>2. Serves(b, v, InVault, retired_when, now)
    BY <1>2 DEF VaultInv
  <2>3. CASE j # k
    <3>1. retired_when'[j] = retired_when[j]
      BY <1>9, <2>1, <2>3
    <3> QED BY <2>2, <3>1 DEF Serves
  <2>4. CASE j = k
    <3>1. Number(v) = k
      BY <1>3, <1>14, <2>1, <2>4
    <3>2. v.keypair \in {"spk"} \X Nat
      BY Types DEF SignedPreKeys
    <3>3. v.keypair = b.spk_pub
      <4>1. v.keypair = Spk(k)
        BY <3>1, <3>2 DEF Spk, Number
      <4> QED BY <2>1, <2>4, <4>1
    <3> QED BY <2>2, <3>3 DEF Serves, Held
  <2> QED BY <2>3, <2>4
<1>22. VaultInv'
  BY <1>1, <1>2, <1>18, <1>19, <1>20, <1>21 DEF VaultInv
<1>23. TypeOK'
  <2>1. retired_when' \in [1..MaxKeys -> Int \cup {None}]
    <3>1. now \in Int /\ retired_when \in [1..MaxKeys -> Int \cup {None}]
      BY Types
    <3> QED BY <1>3, <1>4, <3>1
  <2> QED BY <1>1, <1>5, <1>6, <2>1 DEF Inv, TypeOK, Identities
<1>24. OpkUsedOnce'
  BY <1>1, <1>6 DEF Inv, OpkUsedOnce
<1> QED BY <1>1, <1>17, <1>22, <1>23, <1>24 DEF Inv

---------------------------------------------------------------------------
(* The start: a new identity, or an older version's vault.                 *)

\* The key that an older version generated k-th.
Nth(times, k) == signed_prekey_created_at(k, k, times[k])

LEMMA NthIs ==
    ASSUME NEW n \in Nat, NEW times \in [1..n -> 0..MaxTime], NEW k \in 1..n
    PROVE  /\ Nth(times, k) \in SignedPreKeys
           /\ Nth(times, k).id = k
           /\ Nth(times, k).keypair = Spk(k)
           /\ Number(Nth(times, k)) = k
           /\ Nth(times, k).created_at = times[k]
           /\ Signed(Nth(times, k))
<1>1. k \in Nat /\ times[k] \in Int
  BY TimesAssumption
<1> QED BY <1>1 DEF Nth, signed_prekey_created_at, SignedPreKeys, Spk, ed25519_sign, Number, Signed

\* A retired key of an older vault.
Undated(times, k) == [prekey |-> Nth(times, k), retired_at |-> None]

LEMMA OlderVaultIs ==
    ASSUME NEW rotations \in Nat, NEW times \in [1..rotations + 1 -> 0..MaxTime],
           NEW first \in 1..rotations + 1, NEW v, v = OlderVault(times, first)
    PROVE  /\ v \in Vaults
           /\ v.signed_pre_key = Nth(times, rotations + 1)
           /\ Range(v.one_time_pre_keys) = 1..OPK_COUNT
           /\ Range(v.retired_signed_pre_keys) = {Undated(times, k) : k \in first..rotations}
<1> DEFINE n == rotations + 1
           spk == [k \in DOMAIN times |-> Nth(times, k)]
           kept == SubSeq(spk, first, n - 1)
           opks == [i \in 1..OPK_COUNT |-> i]
           rs == [i \in DOMAIN kept |-> [prekey |-> kept[i], retired_at |-> None]]
<1>1. n \in Nat /\ n - 1 = rotations /\ DOMAIN times = 1..n /\ Len(times) = n
  <2>1. n \in Nat /\ n - 1 = rotations /\ DOMAIN times = 1..n
    OBVIOUS
  <2> QED BY <2>1, FunctionIsSeq
<1>2. v = [signed_pre_key |-> spk[n], one_time_pre_keys |-> opks, retired_signed_pre_keys |-> rs]
  <2> DEFINE sp == [k \in DOMAIN times |-> signed_prekey_created_at(k, k, times[k])]
             kp == SubSeq(sp, first, Len(times) - 1)
  <2>1. v = [signed_pre_key |-> sp[Len(times)], one_time_pre_keys |-> opks,
             retired_signed_pre_keys |->
                [i \in DOMAIN kp |-> [prekey |-> kp[i], retired_at |-> None]]]
    BY Zenon DEF OlderVault
  <2>2. sp = spk
    BY Zenon DEF Nth
  <2> HIDE DEF sp, spk
  <2> QED BY <1>1, <2>1, <2>2
<1>3. spk \in [1..n -> SignedPreKeys] /\ \A k \in 1..n : spk[k] = Nth(times, k)
  BY <1>1, NthIs
<1> HIDE DEF spk
<1>4. spk \in Seq(SignedPreKeys) /\ Len(spk) = n
  BY <1>1, <1>3
<1>5. /\ kept \in Seq(SignedPreKeys)
      /\ Len(kept) = rotations + 1 - first
      /\ \A i \in 1..Len(kept) : kept[i] = spk[first + i - 1]
  <2>1. first \in 1..n /\ first <= rotations + 1
    BY <1>1
  <2> QED BY <1>1, <1>4, <2>1
<1>6. DOMAIN kept = 1..Len(kept) /\ Len(kept) \in Nat
  BY <1>5
<1> HIDE DEF kept
<1>7. ASSUME NEW i \in 1..Len(kept)
      PROVE  first + i - 1 \in first..rotations /\ rs[i] = Undated(times, first + i - 1)
  <2>1. first + i - 1 \in first..rotations /\ first + i - 1 \in 1..n
    BY <1>5, <1>6
  <2> QED BY <1>3, <1>5, <1>6, <2>1 DEF Undated
<1>8. ASSUME NEW k \in first..rotations
      PROVE  k - first + 1 \in 1..Len(kept) /\ rs[k - first + 1] = Undated(times, k)
  <2>1. k - first + 1 \in 1..Len(kept) /\ first + (k - first + 1) - 1 = k
    <3> DEFINE l == Len(kept)
    <3>1. l = rotations + 1 - first /\ first \in Nat /\ k \in Nat /\ first <= k /\ k <= rotations
          /\ first >= 1
      BY <1>5
    <3> HIDE DEF l
    <3>2. k - first + 1 \in 1..l /\ first + (k - first + 1) - 1 = k
      BY <3>1
    <3> QED BY <3>2 DEF l
  <2> QED BY <1>7, <2>1
<1>9. DOMAIN rs = 1..Len(kept)
  BY <1>6
<1>10. ASSUME NEW k \in first..rotations
       PROVE  Undated(times, k) \in Retired(Int \cup {None})
  <2>1. k \in 1..n
    BY <1>1
  <2>2. Nth(times, k) \in SignedPreKeys
    BY <1>1, <2>1, NthIs
  <2> QED BY <2>2 DEF Undated, Retired
<1>11. rs \in [1..Len(kept) -> Retired(Int \cup {None})]
  <2>1. \A i \in 1..Len(kept) : rs[i] \in Retired(Int \cup {None})
    BY <1>7, <1>10
  <2> QED BY <1>6, <2>1
<1> HIDE DEF rs
<1>12. rs \in Seq(Retired(Int \cup {None}))
  BY <1>6, <1>11, FunctionIsSeq
<1>13. Range(rs) = {Undated(times, k) : k \in first..rotations}
  BY <1>7, <1>8, <1>9 DEF Range
<1>14. opks \in Seq(Nat) /\ Range(opks) = 1..OPK_COUNT
  <2>1. opks \in [1..OPK_COUNT -> Nat] /\ DOMAIN opks = 1..OPK_COUNT
    OBVIOUS
  <2>2. Range(opks) = 1..OPK_COUNT
    BY <2>1 DEF Range
  <2> QED BY <2>1, <2>2, TimesAssumption
<1> HIDE DEF opks
<1>15. spk[n] = Nth(times, n) /\ spk[n] \in SignedPreKeys
  BY <1>1, <1>3
<1>16. v \in Vaults
  BY <1>2, <1>12, <1>14, <1>15 DEF Vaults
<1> QED BY <1>2, <1>13, <1>14, <1>15, <1>16

\* Without a time, a key counts as retired when the next one was created.
LEMMA UndatedIs ==
    ASSUME NEW rotations \in Nat, NEW times \in [1..rotations + 1 -> 0..MaxTime],
           NEW first \in 1..rotations + 1, NEW v, v = OlderVault(times, first),
           NEW k \in first..rotations
    PROVE  RetiredAt(v, Undated(times, k)) = times[k + 1]
<1> DEFINE n == rotations + 1
           rs == v.retired_signed_pre_keys
           c == v.signed_pre_key
           all == {r.prekey : r \in Range(rs)} \cup {c}
           later == {spk \in all : spk.id > k}
           Nearest(spk) == \A other \in later : spk.id <= other.id
<1>1. c = Nth(times, n) /\ Range(rs) = {Undated(times, j) : j \in first..rotations}
  BY OlderVaultIs
<1>2. /\ n \in Nat /\ k \in 1..n /\ k + 1 \in 1..n /\ k + 1 \in first..n /\ n \in first..n
      /\ \A j \in first..n : j \in 1..n /\ (j \in first..rotations \/ j = n)
      /\ \A j \in first..rotations : j \in first..n
  OBVIOUS
<1>3. \A j \in 1..n : Nth(times, j).id = j /\ Nth(times, j).created_at = times[j]
  BY <1>2, NthIs
<1>4. \A j \in first..rotations : Undated(times, j).prekey = Nth(times, j)
  BY DEF Undated
<1>5. all = {Nth(times, j) : j \in first..n}
  <2> DEFINE A == {Nth(times, j) : j \in first..n}
             N(j) == Nth(times, j)
             U(j) == Undated(times, j)
  <2>1. \A j \in first..rotations : U(j).prekey = N(j)
    BY <1>4
  <2>2. c = N(n) /\ \A r \in Range(rs) : \E j \in first..rotations : r = U(j)
    BY <1>1
  <2>3. \A j \in first..rotations : U(j) \in Range(rs)
    BY <1>1
  <2>4. A = {N(j) : j \in first..n}
    OBVIOUS
  <2> HIDE DEF N, U, rs, c, A, n
  <2>5. ASSUME NEW x \in all PROVE x \in A
    BY <1>2, <2>1, <2>2, <2>4
  <2>6. ASSUME NEW x \in A PROVE x \in all
    <3>1. PICK j \in first..n : x = N(j)
      BY <2>4
    <3>2. CASE j \in first..rotations
      BY <2>1, <2>3, <3>1, <3>2
    <3>3. CASE j = n
      BY <2>2, <3>1, <3>3
    <3> QED BY <1>2, <3>2, <3>3
  <2>7. all = A
    BY <2>5, <2>6
  <2> QED BY <2>7 DEF A
<1> HIDE DEF all, c, rs, n
<1>6. ASSUME NEW spk \in later PROVE \E j \in 1..n : j > k /\ spk = Nth(times, j)
  BY <1>2, <1>3, <1>5
<1>7. Nth(times, k + 1) \in later
  BY <1>2, <1>3, <1>5
<1>8. Nearest(Nth(times, k + 1))
  <2> SUFFICES ASSUME NEW other \in later PROVE Nth(times, k + 1).id <= other.id
    OBVIOUS
  <2>1. PICK j \in 1..n : j > k /\ other = Nth(times, j)
    BY <1>6
  <2> QED BY <1>2, <1>3, <2>1
<1>9. ASSUME NEW spk \in later, Nearest(spk) PROVE spk = Nth(times, k + 1)
  <2>1. PICK j \in 1..n : j > k /\ spk = Nth(times, j)
    BY <1>6
  <2>2. spk.id <= Nth(times, k + 1).id
    BY <1>7, <1>9
  <2>3. j <= k + 1
    BY <1>2, <1>3, <2>1, <2>2
  <2> QED BY <1>2, <2>1, <2>3
<1>10. later # {} /\ (CHOOSE spk \in later : Nearest(spk)) = Nth(times, k + 1)
  <2> HIDE DEF later, Nearest
  <2> QED BY <1>7, <1>8, <1>9
<1>11. Undated(times, k).prekey.id = k /\ Undated(times, k).retired_at = None
  BY <1>2, <1>3 DEF Undated
<1>12. legacy_retired_at(k, rs, c) = (CHOOSE spk \in later : Nearest(spk)).created_at
  BY <1>10, Zenon DEF legacy_retired_at, all
<1>13. RetiredAt(v, Undated(times, k)) = legacy_retired_at(k, rs, c)
  BY <1>11, Zenon DEF RetiredAt, rs, c
<1> QED BY <1>2, <1>3, <1>10, <1>12, <1>13

\* A bundle of the older version.
LEMMA OlderBundleIs ==
    ASSUME NEW k \in Nat, NEW bound \in BOOLEAN, NEW b, b = OlderBundle(k, bound)
    PROVE  /\ b \in [ik_dh_pub : {Ik("account")}, spk_id : Nat, spk_pub : {"spk"} \X Nat,
                     spk_sig : {ed25519_sign("account", b.spk_pub)}, opk_id : {None},
                     id_sig : {b.id_sig}]
           /\ b.spk_id = k
           /\ b.spk_pub = Spk(k)
<1> DEFINE base == public_bundle_for(create_identity(0))
           sig == ed25519_sign("account", Spk(k))
           ids == IF bound THEN base.id_sig ELSE None
<1>1. /\ base \in [ik_dh_pub : {Ik("account")}, spk_id : {base.spk_id}, spk_pub : {base.spk_pub},
                   spk_sig : {base.spk_sig}, opk_id : {None}, id_sig : {base.id_sig}]
  BY DEF public_bundle_for
<1>2. b = [base EXCEPT !.spk_id = k, !.spk_pub = Spk(k), !.spk_sig = sig, !.id_sig = ids]
  BY Zenon DEF OlderBundle
<1> HIDE DEF base, sig, ids
<1>3. /\ b \in [ik_dh_pub : {Ik("account")}, spk_id : {k}, spk_pub : {Spk(k)}, spk_sig : {sig},
                opk_id : {None}, id_sig : {ids}]
  BY <1>1, <1>2
<1>4. Spk(k) \in {"spk"} \X Nat
  BY DEF Spk
<1> QED BY <1>3, <1>4 DEF sig

LEMMA InitInv == Init => Inv
<1> SUFFICES ASSUME Init PROVE Inv
  OBVIOUS
<1>1. PICK rotations \in 0..MaxOlder, bound \in BOOLEAN :
      \E times \in [1..rotations + 1 -> 0..MaxTime], first \in 1..rotations + 1 :
          /\ \A k \in 1..rotations : times[k + 1] - times[k] >= SPK_ROTATION_SECS
          /\ generated = rotations + 1
          /\ now = times[generated]
          /\ vault = OlderVault(times, first)
          /\ bundles = {OlderBundle(k, bound) : k \in first..generated}
          /\ retired_when = [k \in 1..MaxKeys |-> IF k <= rotations THEN times[k + 1] ELSE None]
  BY Zenon DEF Init
<1>2. PICK times \in [1..rotations + 1 -> 0..MaxTime], first \in 1..rotations + 1 :
          /\ \A k \in 1..rotations : times[k + 1] - times[k] >= SPK_ROTATION_SECS
          /\ generated = rotations + 1
          /\ now = times[generated]
          /\ vault = OlderVault(times, first)
          /\ bundles = {OlderBundle(k, bound) : k \in first..generated}
          /\ retired_when = [k \in 1..MaxKeys |-> IF k <= rotations THEN times[k + 1] ELSE None]
  BY <1>1
<1> DEFINE n == rotations + 1
           c == vault.signed_pre_key
<1>3. memory = Locked /\ spent = {} /\ spent_saved = {}
  BY DEF Init
<1>4. /\ rotations \in Nat /\ n \in 1..MaxKeys /\ n \in Nat /\ n \in 1..n /\ n \in first..n
      /\ \A k \in first..n : k \in 1..n /\ k \in Nat /\ (k = n \/ k \in first..rotations)
      /\ \A k \in first..rotations : k \in 1..rotations /\ k \in 1..n /\ k \in 1..MaxKeys /\ k < n
      /\ \A k \in 1..rotations : k + 1 \in 1..n
  BY TimesAssumption
<1>5. /\ vault \in Vaults
      /\ c = Nth(times, n)
      /\ Range(vault.one_time_pre_keys) = 1..OPK_COUNT
      /\ InVault = {Undated(times, k) : k \in first..rotations}
  <2>1. vault = OlderVault(times, first) /\ rotations \in Nat
    BY <1>2, <1>4
  <2>2. /\ vault \in Vaults
        /\ vault.signed_pre_key = Nth(times, rotations + 1)
        /\ Range(vault.one_time_pre_keys) = 1..OPK_COUNT
        /\ Range(vault.retired_signed_pre_keys) = {Undated(times, k) : k \in first..rotations}
    BY <2>1, OlderVaultIs, SMTT(60)
  <2> QED BY <2>2, Zenon DEF InVault
<1>6. ASSUME NEW k \in 1..n
      PROVE  /\ Nth(times, k).id = k
             /\ Nth(times, k).keypair = Spk(k)
             /\ Number(Nth(times, k)) = k
             /\ Signed(Nth(times, k))
  BY <1>4, NthIs
<1>7. \A k \in first..rotations : Undated(times, k).prekey = Nth(times, k)
  BY DEF Undated
<1>8. Held(c, InVault) = {Nth(times, k) : k \in first..n}
  BY <1>4, <1>5, <1>7 DEF Held
<1>9. generated = n
  BY <1>2
<1>10. \A k \in 1..n : times[k] \in Nat
  BY <1>4, TimesAssumption
<1>11. ASSUME NEW b \in bundles
       PROVE  \E k \in first..n :
                /\ b \in [ik_dh_pub : {Ik("account")}, spk_id : Nat, spk_pub : {"spk"} \X Nat,
                          spk_sig : {ed25519_sign("account", b.spk_pub)}, opk_id : {None},
                          id_sig : {b.id_sig}]
                /\ b.spk_id = k
                /\ b.spk_pub = Spk(k)
  <2>1. PICK k \in first..n : b = OlderBundle(k, bound)
    BY <1>2, <1>9
  <2>2. k \in Nat
    BY <1>4
  <2> QED BY <2>1, <2>2, OlderBundleIs
<1> HIDE DEF n, c
<1>12. Ordered(c, InVault, generated)
  <2>1. Signed(c) /\ Number(c) = n /\ c.id = n
    BY <1>4, <1>5, <1>6
  <2>2. ASSUME NEW r \in InVault
        PROVE  r.prekey.id < n /\ Number(r.prekey) \in 1..n /\ Number(r.prekey) < n
    <3>1. PICK k \in first..rotations : r.prekey = Nth(times, k)
      BY <1>5, <1>7
    <3>2. k \in 1..n /\ k < n
      BY <1>4
    <3>3. Nth(times, k).id = k /\ Number(Nth(times, k)) = k
      BY <1>6, <3>2
    <3> QED BY <3>1, <3>2, <3>3
  <2> QED BY <1>4, <1>9, <2>1, <2>2 DEF Ordered
<1>13. ASSUME NEW r \in InVault
       PROVE  RetiredAt(vault, r) = retired_when[Number(r.prekey)] /\ RetiredAt(vault, r) \in Int
  <2>1. PICK k \in first..rotations : r = Undated(times, k)
    BY <1>5
  <2>2. RetiredAt(vault, r) = times[k + 1]
    <3>1. vault = OlderVault(times, first) /\ rotations \in Nat
      BY <1>2, <1>4
    <3> QED BY <2>1, <3>1, UndatedIs
  <2>3. Number(r.prekey) = k
    BY <1>4, <1>6, <1>7, <2>1
  <2>4. k \in 1..MaxKeys /\ k <= rotations /\ k + 1 \in 1..n
    BY <1>4
  <2>5. retired_when[k] = times[k + 1]
    BY <1>2, <2>4
  <2>6. times[k + 1] \in Int
    BY <1>10, <2>4
  <2> QED BY <2>2, <2>3, <2>5, <2>6
<1>14. ASSUME NEW b \in bundles PROVE Serves(b, c, InVault, retired_when, now)
  <2>1. PICK k \in first..n : b.spk_id = k /\ b.spk_pub = Spk(k)
    BY <1>11
  <2>2. \A j \in 1..n : j = k <=> Spk(j) = Spk(k)
    BY DEF Spk
  <2>3. \A j \in first..n : Nth(times, j).id = b.spk_id <=> Nth(times, j).keypair = b.spk_pub
    BY <1>4, <1>6, <2>1, <2>2
  <2>4. Nth(times, k).id = b.spk_id
    BY <1>4, <1>6, <2>1
  <2> QED BY <1>8, <2>3, <2>4 DEF Serves
<1>15. ASSUME NEW b \in bundles PROVE Published(b, c)
  <2>1. PICK k \in first..n :
                /\ b \in [ik_dh_pub : {Ik("account")}, spk_id : Nat, spk_pub : {"spk"} \X Nat,
                          spk_sig : {ed25519_sign("account", b.spk_pub)}, opk_id : {None},
                          id_sig : {b.id_sig}]
                /\ b.spk_id = k
                /\ b.spk_pub = Spk(k)
    BY <1>11
  <2>2. Number(c) = n /\ c.id = n
    BY <1>4, <1>5, <1>6
  <2>3. b.spk_pub[2] = k /\ k \in 1..n /\ k <= n
    BY <1>4, <2>1 DEF Spk
  <2> QED BY <2>1, <2>2, <2>3 DEF Published
<1>16. VaultInv
  BY <1>5, <1>12, <1>13, <1>14 DEF VaultInv, c
<1>17. TypeOK
  <2>1. generated \in 1..MaxKeys /\ now \in Nat
    BY <1>2, <1>4, <1>9, <1>10
  <2>2. retired_when \in [1..MaxKeys -> Int \cup {None}]
    <3>1. \A k \in 1..MaxKeys : k <= rotations => times[k + 1] \in Int
      BY <1>4, <1>10
    <3> QED BY <1>2, <3>1
  <2> QED BY <1>3, <1>5, <2>1, <2>2 DEF TypeOK, Vaults
<1>18. OpkUsedOnce
  BY <1>3 DEF OpkUsedOnce
<1> QED BY <1>3, <1>15, <1>16, <1>17, <1>18 DEF Inv, c

---------------------------------------------------------------------------
(* The theorems.                                                           *)

LEMMA NextInv == Inv /\ [Next]_vars => Inv'
<1> SUFFICES ASSUME Inv, [Next]_vars PROVE Inv'
  OBVIOUS
<1>1. CASE UNCHANGED vars
  <2>1. /\ now' = now /\ memory' = memory /\ vault' = vault /\ bundles' = bundles
        /\ generated' = generated /\ retired_when' = retired_when
        /\ spent' = spent /\ spent_saved' = spent_saved
    BY <1>1 DEF vars
  <2>2. (memory # Locked => MemoryInv') /\ VaultInv'
    BY <2>1 DEF Inv, MemoryInv, VaultInv, InMemory, InVault
  <2>3. TypeOK' /\ OpkUsedOnce'
    BY <2>1 DEF Inv, TypeOK, OpkUsedOnce
  <2> QED BY <2>1, <2>2, <2>3 DEF Inv
<1>2. CASE Next
  BY <1>2, TickInv, UnsealInv, CrashInv, RotateInv, SealInv, PublishInv, RespondInv DEF Next
<1> QED BY <1>1, <1>2

\* In every reachable state the keys in memory and in the vault are ordered, are
\* dated as they were retired, and serve the bundles that peers may have cached;
\* what is published has been saved.
THEOREM Invariance == Spec => []Inv
BY InitInv, NextInv, PTL DEF Spec

\* The identity, its vault and the bookkeeping stay well formed over rotations,
\* crashes and reloads (rotate_signed_prekey_if_due, deserialize_identity).
THEOREM TypeInvariance == Spec => []TypeOK
<1>1. Inv => TypeOK
  BY DEF Inv
<1> QED BY <1>1, Invariance, PTL

\* A one-time prekey whose use was saved never serves again, and none serves
\* twice in a session (consume_one_time_prekey, seal_vault).
THEOREM OneTimePrekeys == Spec => []OpkUsedOnce
<1>1. Inv => OpkUsedOnce
  BY DEF Inv
<1> QED BY <1>1, Invariance, PTL

\* Looking up an id finds a key with that id if there is one.
LEMMA FindsById ==
    ASSUME NEW identity \in Identities, NEW id,
           \E spk \in Held(identity.signed_prekey, Range(identity.retired_signed_prekeys)) :
               spk.id = id
    PROVE  /\ signed_prekey_by_id(identity, id) \in
                 Held(identity.signed_prekey, Range(identity.retired_signed_prekeys))
           /\ signed_prekey_by_id(identity, id).id = id
           /\ signed_prekey_by_id(identity, id) \in SignedPreKeys
<1> DEFINE rs == identity.retired_signed_prekeys
           found == {i \in DOMAIN rs : rs[i].prekey.id = id}
<1>1. /\ identity.signed_prekey \in SignedPreKeys
      /\ rs \in Seq(Retired(Int))
  BY DEF Identities
<1>2. CASE identity.signed_prekey.id = id
  <2>1. signed_prekey_by_id(identity, id) = identity.signed_prekey
    BY <1>2, Zenon DEF signed_prekey_by_id
  <2> QED BY <1>1, <1>2, <2>1 DEF Held
<1>3. CASE identity.signed_prekey.id # id
  <2>1. PICK r \in Range(rs) : r.prekey.id = id
    BY <1>3 DEF Held
  <2>2. PICK i \in DOMAIN rs : rs[i] = r
    BY DEF Range
  <2>3. found # {}
    BY <2>1, <2>2
  <2>4. signed_prekey_by_id(identity, id) = rs[Min(found)].prekey
    BY <1>3, <2>3, Zenon DEF signed_prekey_by_id
  <2>5. found \in SUBSET Nat
    BY <1>1
  <2> HIDE DEF found
  <2>6. \E x \in found : \A y \in found : x <= y
    BY <2>3, <2>5, LeastNat
  <2>7. Min(found) \in found
    BY <2>6 DEF Min
  <2>8. /\ Min(found) \in DOMAIN rs /\ rs[Min(found)].prekey.id = id
    BY <2>7 DEF found
  <2>9. rs[Min(found)] \in Range(rs) /\ rs[Min(found)] \in Retired(Int)
    BY <1>1, <2>8 DEF Range
  <2> QED BY <2>4, <2>8, <2>9 DEF Held, Retired
<1> QED BY <1>2, <1>3

\* A handshake with a key found by its id agrees on everything.
LEMMA Agrees ==
    ASSUME NEW identity, NEW b, NEW spk, spk = signed_prekey_by_id(identity, b.spk_id),
           spk \in SignedPreKeys, spk.keypair = b.spk_pub,
           b.ik_dh_pub = Ik("account"), b.spk_id \in Nat, verify_bundle(b)
    PROVE  LET i == initiate(b)
               r == respond(identity, i.message)
           IN  /\ i # None
               /\ r # None
               /\ r.master_secret = i.master_secret
               /\ r.associated_data = i.associated_data
               /\ r.spk_keypair = b.spk_pub
<1> DEFINE P == Ik("peer")
           A == Ik("account")
           S == b.spk_pub
           msg == [ik_dh_pub |-> P, ek_pub |-> Ek, spk_id |-> b.spk_id, opk_id |-> None]
           secret == <<{P, S}, {Ek, A}, {Ek, S}>>
           i == [master_secret |-> secret, message |-> msg, associated_data |-> <<P, A>>]
           r == [master_secret |-> secret, associated_data |-> <<P, A>>, spk_keypair |-> S]
<1>1. P \in PublicKeys /\ A \in PublicKeys /\ Ek \in PublicKeys /\ S \in PublicKeys
  <2>1. S \in {"spk"} \X Nat
    BY DEF SignedPreKeys
  <2> QED BY <2>1 DEF Ik, Ek, PublicKeys
<1>2. initiate(b) = i
  BY Zenon DEF initiate, hkdf_expand, x25519_derive_shared
<1> HIDE DEF P, A, S
<1>3. {P, S} \in SUBSET PublicKeys /\ {Ek, A} \in SUBSET PublicKeys /\ {Ek, S} \in SUBSET PublicKeys
  BY <1>1
<1>4. secret \in Seq(SUBSET PublicKeys)
  BY <1>3
<1>5. secret \o <<>> = secret
  OBVIOUS
<1> HIDE DEF secret
<1>6. i \in Initiations
  BY <1>1, <1>4 DEF Initiations
<1>7. r \in Responses
  BY <1>1, <1>4 DEF Responses
<1>8. respond(identity, msg) = r
  <2>1. msg.spk_id = b.spk_id /\ msg.opk_id = None /\ msg.ik_dh_pub = P /\ msg.ek_pub = Ek
    OBVIOUS
  <2> HIDE DEF msg
  <2>2. spk # None
    BY NoneAssumption
  <2>3. signed_prekey_by_id(identity, msg.spk_id) = spk
    BY <2>1
  <2> DEFINE s2 == <<{spk.keypair, msg.ik_dh_pub}, {Ik("account"), msg.ek_pub},
                     {spk.keypair, msg.ek_pub}>>
  <2>4. respond(identity, msg) =
          [master_secret |-> s2 \o <<>>,
           associated_data |-> <<msg.ik_dh_pub, Ik("account")>>, spk_keypair |-> spk.keypair]
    BY <2>1, <2>2, <2>3 DEF respond, hkdf_expand, x25519_derive_shared
  <2>5. s2 = secret
    <3>1. {spk.keypair, P} = {P, S} /\ {Ik("account"), Ek} = {Ek, A} /\ {spk.keypair, Ek} = {Ek, S}
      BY DEF A, S
    <3> QED BY <2>1, <3>1 DEF secret
  <2> HIDE DEF s2
  <2> QED BY <1>5, <2>1, <2>4, <2>5 DEF A, S
<1>9. i.message = msg
  OBVIOUS
<1>10. i # None /\ r # None
  BY <1>6, <1>7, NoneAssumption
<1>11. /\ r.master_secret = i.master_secret
       /\ r.associated_data = i.associated_data
       /\ r.spk_keypair = b.spk_pub
  BY DEF S
<1> HIDE DEF i, r, msg
<1> QED BY <1>2, <1>8, <1>9, <1>10, <1>11

\* A peer that starts from a bundle it cached gets through as long as the
\* bundle's key is current or has been retired for less than the retention
\* time: the account finds the key, and both derive the same secret (respond,
\* signed_prekey_by_id, rotate_signed_prekey_if_due, legacy_retired_at).
THEOREM CachedBundles == Spec => []CachedBundleWorks
<1>1. Inv => CachedBundleWorks
  <2> SUFFICES ASSUME Inv, memory # Locked, NEW b \in bundles, InWindow(b.spk_pub[2])
               PROVE  LET i == initiate(b)
                          r == respond(memory, i.message)
                      IN  /\ i # None
                          /\ r # None
                          /\ r.master_secret = i.master_secret
                          /\ r.associated_data = i.associated_data
                          /\ r.spk_keypair = b.spk_pub
    BY Zenon DEF CachedBundleWorks
  <2> DEFINE c == memory.signed_prekey
             spk == signed_prekey_by_id(memory, b.spk_id)
  <2>1. memory \in Identities /\ Serves(b, c, InMemory, retired_when, now)
    BY Types DEF Inv, MemoryInv
  <2>2. \E k \in Held(c, InMemory) : k.id = b.spk_id
    <3>1. CASE c.keypair = Spk(b.spk_pub[2])
      <4>1. c.keypair = b.spk_pub
        BY <3>1, BundleNumber
      <4> QED BY <2>1, <4>1 DEF Serves, Held
    <3>2. CASE c.keypair # Spk(b.spk_pub[2])
      BY <2>1, <3>2 DEF InWindow, Serves
    <3> QED BY <3>1, <3>2
  <2>3. spk \in Held(c, InMemory) /\ spk.id = b.spk_id /\ spk \in SignedPreKeys
    BY <2>1, <2>2, FindsById DEF InMemory
  <2> HIDE DEF spk
  <2>4. spk.keypair = b.spk_pub
    BY <2>1, <2>3 DEF Serves
  <2>5. b.ik_dh_pub = Ik("account") /\ b.spk_id \in Nat /\ verify_bundle(b)
    BY DEF Inv, Published, verify_bundle
  <2> QED BY <2>3, <2>4, <2>5, Agrees DEF spk
<1> QED BY <1>1, Invariance, PTL

\* Rotation leaves no key that stopped being current a retention time ago, even
\* when an older vault did not say when that was, nor a current key that is due
\* (rotate_signed_prekey_if_due).
THEOREM ExpiredKeysGo == Spec => RotationExpires
<1> DEFINE A == Rotate =>
                  /\ ~RotationDue(memory', now)
                  /\ \A r \in Range(memory'.retired_signed_prekeys) :
                        now - retired_when'[r.prekey.keypair[2]] < SPK_RETENTION_SECS
<1>1. Inv /\ [Next]_vars => [A]_vars
  <2> SUFFICES ASSUME Inv, Rotate
               PROVE  /\ ~RotationDue(memory', now)
                      /\ \A r \in Range(memory'.retired_signed_prekeys) :
                            now - retired_when'[r.prekey.keypair[2]] < SPK_RETENTION_SECS
    OBVIOUS
  <2> DEFINE c == memory.signed_prekey
             due == RotationDue(memory, now)
             new == signed_prekey_created_at(c.id + 1, generated + 1, now)
  <2>1. memory # Locked /\ memory' = rotate_signed_prekey_if_due(memory, now, generated + 1)
    BY DEF Rotate
  <2>2. memory \in Identities /\ MemoryInv /\ now \in Int /\ generated + 1 \in Nat /\ MemoryInv
        /\ generated \in 1..MaxKeys
    BY <2>1, Types DEF Inv
  <2>3. \A r \in Range(memory.retired_signed_prekeys) : r.prekey.id < memory.signed_prekey.id
    BY <2>2 DEF MemoryInv, Ordered, InMemory
  <2>4. /\ memory'.signed_prekey = IF due THEN new ELSE c
        /\ Range(memory'.retired_signed_prekeys) =
              {r \in Range(memory.retired_signed_prekeys) \cup
                     (IF due THEN {Outgoing(memory, now)} ELSE {}) :
                 now - r.retired_at < SPK_RETENTION_SECS}
    BY <2>1, <2>2, <2>3, RotateBuilds
  <2>5. ~RotationDue(memory', now)
    <3>1. CASE due
      <4>1. memory'.signed_prekey.created_at = now
        BY <2>4, <3>1 DEF signed_prekey_created_at
      <4> QED BY <2>2, <4>1, TimesAssumption DEF RotationDue
    <3>2. CASE ~due
      BY <2>4, <3>2 DEF RotationDue
    <3> QED BY <3>1, <3>2
  <2>6. ASSUME NEW r \in Range(memory'.retired_signed_prekeys)
        PROVE  r.retired_at = retired_when'[Number(r.prekey)]
    <3>1. r \in Range(memory.retired_signed_prekeys) \/ (due /\ r = Outgoing(memory, now))
      BY <2>4
    <3>2. /\ due => retired_when' = [retired_when EXCEPT ![Number(c)] = now]
          /\ ~due => retired_when' = retired_when
      BY DEF Rotate, Number
    <3>3. Number(c) \in 1..MaxKeys /\ retired_when \in [1..MaxKeys -> Int \cup {None}]
      BY <2>2, Types DEF MemoryInv, Ordered
    <3>4. CASE r \in Range(memory.retired_signed_prekeys)
      <4>1. /\ r.retired_at = retired_when[Number(r.prekey)]
            /\ Number(r.prekey) \in 1..generated /\ Number(r.prekey) < Number(c)
        BY <2>2, <3>4 DEF MemoryInv, Ordered, InMemory
      <4>2. Number(r.prekey) \in 1..MaxKeys /\ Number(r.prekey) # Number(c)
        BY <2>2, <3>3, <4>1, Types
      <4> QED BY <3>2, <3>3, <4>1, <4>2
    <3>5. CASE due /\ r = Outgoing(memory, now)
      <4>1. r.prekey = c /\ r.retired_at = now
        BY <3>5 DEF Outgoing
      <4> QED BY <3>2, <3>3, <3>5, <4>1
    <3> QED BY <3>1, <3>4, <3>5
  <2>7. \A r \in Range(memory'.retired_signed_prekeys) : now - r.retired_at < SPK_RETENTION_SECS
    BY <2>4
  <2> QED BY <2>5, <2>6, <2>7 DEF Number
<1> QED BY <1>1, Invariance, PTL DEF Spec, RotationExpires
============================================================================
