---------------------------- MODULE UnlockProofs ----------------------------
(***************************************************************************)
(* Proofs about unlocking the vault, module Unlock, for all sizes of its   *)
(* parts, steps of the one-time code, clocks and bounds.                   *)
(***************************************************************************)
EXTENDS Unlock, VectorProofs

---------------------------------------------------------------------------
(* The inductive invariant.                                                *)

Seals == [passphrase : Passphrases, version : {VAULT_VERSION, VAULT_VERSION + 1}]

VersionByte(version) == [part |-> "version", of |-> version, i |-> 1]
ZeroByte == [part |-> "zero", of |-> 0, i |-> 1]

IsForeign(byte) == byte.part = "foreign"

\* Writes go from front to back, so what was there before a vault is behind what
\* is left of one; and bytes stay at the place they were written to.
FileInv ==
    /\ file \in Seq(Byte)
    /\ \A i, j \in DOMAIN file : i < j /\ IsForeign(file[i]) => IsForeign(file[j])
    /\ 3 \in DOMAIN file => IsForeign(file[3]) \/ file[3] = VersionByte(file[3].of)
    /\ 4 \in DOMAIN file => IsForeign(file[4]) \/ file[4] = ZeroByte

\* A code comes from the authenticator.
TypedInv ==
    /\ typed.time \in Nat
    /\ typed.code = None \/ typed.code = totp_code(typed.time)
    /\ typed.time < WORD - 2 * DEFAULT_STEP

\* The file does not change under an attempt.
AttemptInv ==
    attempt # None =>
        /\ attempt.passphrase \in Passphrases
        /\ attempt.blob = decode_vault(file)
        /\ attempt.blob.err = "none"
        /\ attempt.blob.version = VAULT_VERSION

Inv ==
    /\ now \in 0..MaxTime
    /\ seals \in Seq(Seals)
    /\ FileInv
    /\ TypedInv
    /\ AttemptInv
    /\ result # None => result.opened \in DOMAIN seals \cup {None}
    /\ OpensOnlyWithBoth
    /\ BothOpen

---------------------------------------------------------------------------
(* Bytes and their places.                                                 *)

\* s is n bytes of a part of the k-th vault.
IsPart(s, part, k, n) ==
    /\ s \in Seq(Byte)
    /\ Len(s) = n
    /\ \A i \in 1..n : s[i] = [part |-> part, of |-> k, i |-> i]

LEMMA BytesAre ==
    ASSUME NEW part \in PartNames, NEW k \in Nat, NEW n \in Nat
    PROVE  IsPart(Bytes(part, k, n), part, k, n)
<1> DEFINE s == [i \in 1..n |-> [part |-> part, of |-> k, i |-> i]]
<1>1. \A i \in 1..n : [part |-> part, of |-> k, i |-> i] \in Byte
  BY DEF Byte
<1>2. s \in [1..n -> Byte]
  BY <1>1
<1>3. Bytes(part, k, n) = s
  BY DEF Bytes
<1>4. \A i \in 1..n : s[i] = [part |-> part, of |-> k, i |-> i]
  OBVIOUS
<1> HIDE DEF s
<1>5. s \in Seq(Byte) /\ Len(s) = n
  BY <1>2, FunctionIsSeq
<1> QED BY <1>3, <1>4, <1>5 DEF IsPart

\* u is s followed by t.
Joins(u, s, t) == u = s \o t

\* ... byte by byte.
Follows(u, s, t) ==
    /\ u \in Seq(Byte)
    /\ Len(u) = Len(s) + Len(t)
    /\ \A i \in 1..Len(s) : u[i] = s[i]
    /\ \A i \in 1..Len(t) : u[Len(s) + i] = t[i]

LEMMA Joined ==
    ASSUME NEW s \in Seq(Byte), NEW t \in Seq(Byte), NEW u, Joins(u, s, t)
    PROVE  Follows(u, s, t)
<1>1. s \o t \in Seq(Byte) /\ Len(s \o t) = Len(s) + Len(t)
  OBVIOUS
<1>2. \A i \in 1..Len(s) : (s \o t)[i] = s[i]
  OBVIOUS
<1>3. \A i \in 1..Len(t) : (s \o t)[Len(s) + i] = t[i]
  OBVIOUS
<1> QED BY <1>1, <1>2, <1>3 DEF Joins, Follows

LEMMA SubSeqIs ==
    ASSUME NEW S, NEW s \in Seq(S), NEW m \in 1..Len(s) + 1, NEW n \in m - 1..Len(s)
    PROVE  /\ SubSeq(s, m, n) \in Seq(S)
           /\ Len(SubSeq(s, m, n)) = n - m + 1
           /\ \A i \in 1..n - m + 1 : SubSeq(s, m, n)[i] = s[m + i - 1]
<1>1. Len(SubSeq(s, m, n)) = n - m + 1 /\ \A i \in 1..n - m + 1 : SubSeq(s, m, n)[i] = s[m + i - 1]
  OBVIOUS
<1>2. SubSeq(s, m, n) \in Seq(S)
  OBVIOUS
<1> QED BY <1>1, <1>2

\* Sequences of the same length with the same elements.
LEMMA SameSeq ==
    ASSUME NEW S, NEW s \in Seq(S), NEW t \in Seq(S), Len(s) = Len(t),
           \A i \in 1..Len(s) : s[i] = t[i]
    PROVE  s = t
OBVIOUS

LEMMA Magic == IsPart(VAULT_MAGIC, "magic", 0, 2)
<1>1. IsPart(Bytes("magic", 0, 2), "magic", 0, 2)
  BY BytesAre DEF PartNames
<1> QED BY <1>1 DEF VAULT_MAGIC

\* Where the parts begin: 4 bytes of magic, version and zero come first.
Salt == 4
Nonce == 4 + SALT_SIZE
Cipher == 4 + SALT_SIZE + NONCE_SIZE

LEMMA Places == Salt \in Nat /\ Nonce \in Nat /\ Cipher \in Nat /\ SALT_SIZE \in Nat /\ NONCE_SIZE \in Nat
                /\ Nonce = Salt + SALT_SIZE /\ Cipher = Nonce + NONCE_SIZE /\ Cipher >= 4
BY UnlockAssumption DEF Salt, Nonce, Cipher

\* v is the k-th vault, sealed by that version; what it has then.
Sealed(v, k, version) == v = seal_vault(k, version)

HasParts(v, k, version) ==
    /\ v.version = version
    /\ IsPart(v.salt, "salt", k, SALT_SIZE)
    /\ IsPart(v.nonce, "nonce", k, NONCE_SIZE)
    /\ IsPart(v.ciphertext, "ciphertext", k, 2 + (k % 2))

LEMMA SealIs ==
    ASSUME NEW k \in Nat, NEW version, NEW v, Sealed(v, k, version)
    PROVE  HasParts(v, k, version)
<1>1. /\ v.version = version
      /\ v.salt = Bytes("salt", k, SALT_SIZE)
      /\ v.nonce = Bytes("nonce", k, NONCE_SIZE)
      /\ v.ciphertext = Bytes("ciphertext", k, 2 + (k % 2))
  BY DEF seal_vault, Sealed
<1>2. 2 + (k % 2) \in Nat
  OBVIOUS
<1>3. /\ IsPart(Bytes("salt", k, SALT_SIZE), "salt", k, SALT_SIZE)
      /\ IsPart(Bytes("nonce", k, NONCE_SIZE), "nonce", k, NONCE_SIZE)
  BY BytesAre, Places DEF PartNames
<1>4. IsPart(Bytes("ciphertext", k, 2 + (k % 2)), "ciphertext", k, 2 + (k % 2))
  BY <1>2, BytesAre DEF PartNames
<1> QED BY <1>1, <1>3, <1>4 DEF HasParts

\* The bytes of an encoded vault.
Encoded(e, v, version) ==
    /\ e \in Seq(Byte)
    /\ Len(e) = Cipher + Len(v.ciphertext)
    /\ \A i \in 1..2 : e[i] = VAULT_MAGIC[i]
    /\ e[3] = VersionByte(version)
    /\ e[4] = ZeroByte
    /\ \A i \in 1..SALT_SIZE : e[Salt + i] = v.salt[i]
    /\ \A i \in 1..NONCE_SIZE : e[Nonce + i] = v.nonce[i]
    /\ \A i \in 1..Len(v.ciphertext) : e[Cipher + i] = v.ciphertext[i]

LEMMA EncodeIs ==
    ASSUME NEW k \in Nat, NEW version \in Nat, NEW v, HasParts(v, k, version)
    PROVE  Encoded(encode_vault(v), v, version)
<1> DEFINE vb == Bytes("version", version, 1)
           zb == Bytes("zero", 0, 1)
           e1 == VAULT_MAGIC \o vb
           e2 == e1 \o zb
           e3 == e2 \o v.salt
           e4 == e3 \o v.nonce
           e5 == e4 \o v.ciphertext
<1>1. encode_vault(v) = e5
  <2>1. v.version = version
    BY DEF HasParts
  <2> QED BY <2>1, Zenon DEF encode_vault
<1>2. /\ vb \in Seq(Byte) /\ Len(vb) = 1 /\ vb[1] = VersionByte(version)
      /\ zb \in Seq(Byte) /\ Len(zb) = 1 /\ zb[1] = ZeroByte
  <2>1. IsPart(vb, "version", version, 1) /\ IsPart(zb, "zero", 0, 1)
    <3> HIDE DEF e1, e2, e3, e4, e5
    <3> QED BY BytesAre DEF PartNames
  <2> HIDE DEF vb, zb
  <2> QED BY <2>1 DEF IsPart, VersionByte, ZeroByte
<1>3. /\ v.salt \in Seq(Byte) /\ Len(v.salt) = SALT_SIZE
      /\ v.nonce \in Seq(Byte) /\ Len(v.nonce) = NONCE_SIZE
      /\ v.ciphertext \in Seq(Byte) /\ Len(v.ciphertext) \in Nat
  <2> HIDE DEF vb, zb, e1, e2, e3, e4, e5
  <2> QED BY DEF HasParts, IsPart
<1>4. /\ Joins(e1, VAULT_MAGIC, vb) /\ Joins(e2, e1, zb) /\ Joins(e3, e2, v.salt)
      /\ Joins(e4, e3, v.nonce) /\ Joins(e5, e4, v.ciphertext)
  BY Zenon DEF Joins
<1>14. VAULT_MAGIC \in Seq(Byte) /\ Len(VAULT_MAGIC) = 2
  BY Magic DEF IsPart
<1> HIDE DEF vb, zb, e1, e2, e3, e4, e5
<1>5. /\ e1 \in Seq(Byte) /\ Len(e1) = 3
      /\ \A i \in 1..2 : e1[i] = VAULT_MAGIC[i]
      /\ e1[3] = VersionByte(version)
  <2>1. Follows(e1, VAULT_MAGIC, vb)
    BY <1>2, <1>4, <1>14, Joined
  <2> QED BY <1>2, <1>14, <2>1 DEF Follows
<1>6. /\ e2 \in Seq(Byte) /\ Len(e2) = 4
      /\ \A i \in 1..3 : e2[i] = e1[i]
      /\ e2[4] = ZeroByte
  <2>1. Follows(e2, e1, zb)
    BY <1>2, <1>4, <1>5, Joined
  <2> QED BY <1>2, <1>5, <2>1 DEF Follows
<1>7. /\ e3 \in Seq(Byte) /\ Len(e3) = Nonce
      /\ \A i \in 1..4 : e3[i] = e2[i]
      /\ \A i \in 1..SALT_SIZE : e3[Salt + i] = v.salt[i]
  <2>1. Follows(e3, e2, v.salt)
    BY <1>3, <1>4, <1>6, Joined
  <2> QED BY <1>3, <1>6, Places, <2>1 DEF Follows, Salt
<1>8. /\ e4 \in Seq(Byte) /\ Len(e4) = Cipher
      /\ \A i \in 1..Nonce : e4[i] = e3[i]
      /\ \A i \in 1..NONCE_SIZE : e4[Nonce + i] = v.nonce[i]
  <2>1. Follows(e4, e3, v.nonce)
    BY <1>3, <1>4, <1>7, Joined
  <2> QED BY <1>3, <1>7, Places, <2>1 DEF Follows
<1>13. /\ e5 \in Seq(Byte) /\ Len(e5) = Cipher + Len(v.ciphertext)
       /\ \A i \in 1..Cipher : e5[i] = e4[i]
       /\ \A i \in 1..Len(v.ciphertext) : e5[Cipher + i] = v.ciphertext[i]
  <2>1. Follows(e5, e4, v.ciphertext)
    BY <1>3, <1>4, <1>8, Joined
  <2> QED BY <1>3, <1>8, Places, <2>1 DEF Follows
<1>9. \A i \in 1..4 : e5[i] = e2[i]
  <2>1. \A i \in 1..4 : i \in 1..Nonce /\ i \in 1..Cipher
    BY Places DEF Salt
  <2> QED BY <1>7, <1>8, <1>13, <2>1
<1>10. \A i \in 1..SALT_SIZE : e5[Salt + i] = v.salt[i]
  <2>1. \A i \in 1..SALT_SIZE : Salt + i \in 1..Nonce /\ Salt + i \in 1..Cipher
    BY Places
  <2> QED BY <1>7, <1>8, <1>13, <2>1
<1>11. \A i \in 1..NONCE_SIZE : e5[Nonce + i] = v.nonce[i]
  <2>1. \A i \in 1..NONCE_SIZE : Nonce + i \in 1..Cipher
    BY Places
  <2> QED BY <1>8, <1>13, <2>1
<1>12. /\ \A i \in 1..2 : e5[i] = VAULT_MAGIC[i]
       /\ e5[3] = VersionByte(version) /\ e5[4] = ZeroByte
  BY <1>5, <1>6, <1>9
<1> QED BY <1>1, <1>13, <1>10, <1>11, <1>12 DEF Encoded

\* A vault's bytes are its own: none is foreign.
LEMMA OwnBytes ==
    ASSUME NEW k \in Nat, NEW version \in Nat, NEW v, HasParts(v, k, version),
           NEW e, Encoded(e, v, version), NEW i \in 1..Len(e)
    PROVE  ~IsForeign(e[i])
<1>1. CASE i \in 1..2
  <2>1. e[i] = [part |-> "magic", of |-> 0, i |-> i]
    BY <1>1, Magic DEF Encoded, IsPart
  <2> QED BY <2>1 DEF IsForeign
<1>2. CASE i = 3
  BY <1>2 DEF Encoded, VersionByte, IsForeign
<1>3. CASE i = 4
  BY <1>3 DEF Encoded, ZeroByte, IsForeign
<1>4. CASE i \in Salt + 1..Nonce
  <2>1. PICK j \in 1..SALT_SIZE : i = Salt + j
    BY <1>4, Places
  <2>2. e[i] = [part |-> "salt", of |-> k, i |-> j]
    BY <2>1 DEF Encoded, HasParts, IsPart
  <2> QED BY <2>2 DEF IsForeign
<1>5. CASE i \in Nonce + 1..Cipher
  <2>1. PICK j \in 1..NONCE_SIZE : i = Nonce + j
    BY <1>5, Places
  <2>2. e[i] = [part |-> "nonce", of |-> k, i |-> j]
    BY <2>1 DEF Encoded, HasParts, IsPart
  <2> QED BY <2>2 DEF IsForeign
<1>6. CASE i > Cipher
  <2>1. PICK j \in 1..Len(v.ciphertext) : i = Cipher + j
    <3>1. Len(v.ciphertext) \in Nat /\ Len(e) = Cipher + Len(v.ciphertext)
      BY DEF Encoded, HasParts, IsPart
    <3> DEFINE c == Len(v.ciphertext)
               m == Len(e)
    <3>2. c \in Nat /\ m = Cipher + c /\ i \in 1..m /\ Cipher \in Nat
      BY <3>1, Places
    <3> HIDE DEF c, m
    <3>3. i - Cipher \in 1..c /\ i = Cipher + (i - Cipher)
      BY <1>6, <3>2
    <3> QED BY <3>3 DEF c
  <2>2. e[i] = [part |-> "ciphertext", of |-> k, i |-> j]
    BY <2>1 DEF Encoded, HasParts, IsPart
  <2> QED BY <2>2 DEF IsForeign
<1> QED BY <1>1, <1>2, <1>3, <1>4, <1>5, <1>6, Places DEF Salt

---------------------------------------------------------------------------
(* What decode_vault makes of a file.                                      *)

Decoded(d, bytes) ==
    /\ d.err \in {"none", "Corrupted", "BadMagic"}
    /\ d.err = "none" <=> /\ Len(bytes) >= Cipher
                          /\ bytes[1] = VAULT_MAGIC[1] /\ bytes[2] = VAULT_MAGIC[2]
    /\ d.err = "none" =>
          /\ d.version = bytes[3].of
          /\ d.salt \in Seq(Byte) /\ Len(d.salt) = SALT_SIZE
          /\ \A i \in 1..SALT_SIZE : d.salt[i] = bytes[Salt + i]
          /\ d.nonce \in Seq(Byte) /\ Len(d.nonce) = NONCE_SIZE
          /\ \A i \in 1..NONCE_SIZE : d.nonce[i] = bytes[Nonce + i]
          /\ d.ciphertext \in Seq(Byte) /\ Len(d.ciphertext) = Len(bytes) - Cipher
          /\ \A i \in 1..Len(bytes) - Cipher : d.ciphertext[i] = bytes[Cipher + i]

\* s is that many bytes from that place on.
IsSlice(s, bytes, off, n) ==
    /\ s \in Seq(Byte) /\ Len(s) = n
    /\ \A i \in 1..n : s[i] = bytes[off + i]

LEMMA SliceIs ==
    ASSUME NEW bytes \in Seq(Byte), NEW off \in Nat, NEW n \in Nat, off + n <= Len(bytes)
    PROVE  IsSlice(SubSeq(bytes, off + 1, off + n), bytes, off, n)
<1>1. off + 1 \in 1..Len(bytes) + 1 /\ off + n \in off + 1 - 1..Len(bytes)
  OBVIOUS
<1>2. /\ SubSeq(bytes, off + 1, off + n) \in Seq(Byte)
      /\ Len(SubSeq(bytes, off + 1, off + n)) = off + n - (off + 1) + 1
      /\ \A i \in 1..off + n - (off + 1) + 1 : SubSeq(bytes, off + 1, off + n)[i] = bytes[off + 1 + i - 1]
  BY <1>1, SubSeqIs
<1>3. off + n - (off + 1) + 1 = n /\ \A i \in 1..n : off + 1 + i - 1 = off + i
  OBVIOUS
<1> QED BY <1>2, <1>3 DEF IsSlice

LEMMA DecodeIs ==
    ASSUME NEW bytes \in Seq(Byte)
    PROVE  Decoded(decode_vault(bytes), bytes)
<1> DEFINE d == decode_vault(bytes)
<1>1. Len(VAULT_MAGIC) = 2 /\ VAULT_MAGIC \in Seq(Byte)
  BY Magic DEF IsPart
<1>2. Cipher = 2 + 2 + SALT_SIZE + NONCE_SIZE /\ Len(bytes) \in Nat /\ Cipher \in Nat
  BY Places DEF Salt
<1>3. CASE Len(bytes) < Cipher
  <2>1. d = [err |-> "Corrupted"]
    BY <1>1, <1>2, <1>3 DEF decode_vault
  <2>2. ~(Len(bytes) >= Cipher)
    BY <1>2, <1>3
  <2> HIDE DEF d
  <2>3. Decoded(d, bytes)
    BY <2>1, <2>2 DEF Decoded
  <2> QED BY <2>3 DEF d
<1>4. CASE Len(bytes) >= Cipher
  <2> DEFINE head == SubSeq(bytes, 0 + 1, 0 + 2)
  <2>0. 0 \in Nat /\ 2 \in Nat /\ 0 + 2 <= Len(bytes) /\ Cipher >= 4
    BY <1>2, <1>4, Places
  <2>1. IsSlice(head, bytes, 0, 2)
    BY <2>0, SliceIs
  <2>2. Slice(bytes, 0, Len(VAULT_MAGIC)) = head
    BY <2>0, <1>1, Zenon DEF Slice
  <2> HIDE DEF head
  <2>3. head = VAULT_MAGIC <=> bytes[1] = VAULT_MAGIC[1] /\ bytes[2] = VAULT_MAGIC[2]
    <3>1. head \in Seq(Byte) /\ Len(head) = 2 /\ head[1] = bytes[1] /\ head[2] = bytes[2]
      <4>1. \A i \in 1..2 : head[i] = bytes[0 + i]
        BY <2>1 DEF IsSlice
      <4> QED BY <2>1, <4>1 DEF IsSlice
    <3>2. ASSUME bytes[1] = VAULT_MAGIC[1], bytes[2] = VAULT_MAGIC[2]
          PROVE  head = VAULT_MAGIC
      <4>1. \A i \in 1..Len(head) : head[i] = VAULT_MAGIC[i]
        BY <3>1, <3>2
      <4> QED BY <3>1, <1>1, <4>1, SameSeq
    <3> QED BY <3>1, <3>2
  <2>4. ~(Len(bytes) < Len(VAULT_MAGIC) + 2 + SALT_SIZE + NONCE_SIZE)
    BY <1>1, <1>2, <1>4
  <2>5. CASE head # VAULT_MAGIC
    <3>1. d = [err |-> "BadMagic"]
      BY <2>2, <2>4, <2>5, Zenon DEF decode_vault
    <3> HIDE DEF d
    <3>2. Decoded(d, bytes)
      BY <3>1, <2>3, <2>5 DEF Decoded
    <3> QED BY <3>2 DEF d
  <2>6. CASE head = VAULT_MAGIC
    <3>1. d = Parts(bytes)
      BY <2>2, <2>4, <2>6, Zenon DEF decode_vault
    <3> DEFINE s == SubSeq(bytes, Salt + 1, Salt + SALT_SIZE)
               n == SubSeq(bytes, Nonce + 1, Nonce + NONCE_SIZE)
               m == Len(bytes) - Cipher
               c == SubSeq(bytes, Cipher + 1, Len(bytes))
    <3>2. /\ Len(VAULT_MAGIC) + 2 = Salt /\ Len(VAULT_MAGIC) + 1 = 3
          /\ Len(VAULT_MAGIC) + 2 + SALT_SIZE = Nonce
          /\ Len(VAULT_MAGIC) + 2 + SALT_SIZE + NONCE_SIZE = Cipher
      BY <1>1, Places DEF Salt
    <3>3. /\ Salt + SALT_SIZE <= Len(bytes) /\ Nonce + NONCE_SIZE <= Len(bytes)
          /\ m \in Nat /\ Cipher + m = Len(bytes)
      BY <1>2, <1>4, Places
    <3>4. IsSlice(s, bytes, Salt, SALT_SIZE) /\ IsSlice(n, bytes, Nonce, NONCE_SIZE)
      <4> HIDE DEF m
      <4> QED BY <3>3, SliceIs, Places
    <3>5. IsSlice(c, bytes, Cipher, m)
      <4> HIDE DEF m
      <4>1. IsSlice(SubSeq(bytes, Cipher + 1, Cipher + m), bytes, Cipher, m)
        BY <3>3, SliceIs, Places
      <4> QED BY <4>1, <3>3
    <3>6. /\ d.err = "none" /\ d.version = bytes[3].of
          /\ d.salt = Slice(bytes, Salt, SALT_SIZE) /\ d.nonce = Slice(bytes, Nonce, NONCE_SIZE)
          /\ d.ciphertext = c
      <4> DEFINE x == [err |-> "none", version |-> bytes[3].of,
                       salt |-> Slice(bytes, Salt, SALT_SIZE),
                       nonce |-> Slice(bytes, Nonce, NONCE_SIZE), ciphertext |-> c]
      <4>1. Parts(bytes) = x
        BY <3>2, Zenon DEF Parts
      <4> HIDE DEF c
      <4>2. /\ x.err = "none" /\ x.version = bytes[3].of
            /\ x.salt = Slice(bytes, Salt, SALT_SIZE) /\ x.nonce = Slice(bytes, Nonce, NONCE_SIZE)
            /\ x.ciphertext = c
        OBVIOUS
      <4> HIDE DEF x, d
      <4> QED BY <3>1, <4>1, <4>2
    <3>7. Slice(bytes, Salt, SALT_SIZE) = s /\ Slice(bytes, Nonce, NONCE_SIZE) = n
      BY <3>3, Zenon DEF Slice
    <3> HIDE DEF d, s, n, c
    <3>8. Decoded(d, bytes)
      BY <3>4, <3>5, <3>6, <3>7, <2>3, <2>6, <1>4 DEF Decoded, IsSlice
    <3> QED BY <3>8 DEF d
  <2> QED BY <2>5, <2>6
<1> QED BY <1>2, <1>3, <1>4

\* A whole file of version 1 decodes, and to the parts that went in.
LEMMA DecodeEncoded ==
    ASSUME NEW k \in Nat, NEW v, HasParts(v, k, VAULT_VERSION),
           NEW e, Encoded(e, v, VAULT_VERSION), NEW d, Decoded(d, e)
    PROVE  /\ d.err = "none" /\ d.version = VAULT_VERSION
           /\ d.salt = v.salt /\ d.nonce = v.nonce /\ d.ciphertext = v.ciphertext
<1> DEFINE n == Len(v.ciphertext)
<1>1. n \in Nat /\ Len(e) = Cipher + n /\ Len(e) - Cipher = n /\ Len(e) >= Cipher
  <2>1. n \in Nat /\ Len(e) = Cipher + n
    BY DEF HasParts, IsPart, Encoded
  <2> HIDE DEF n
  <2> QED BY <2>1, Places
<1>2. d.err = "none"
  BY <1>1 DEF Decoded, Encoded
<1>3. e[3].of = VAULT_VERSION
  BY DEF Encoded, VersionByte
<1>4. d.version = VAULT_VERSION
  BY <1>2, <1>3 DEF Decoded
<1>5. d.salt = v.salt
  <2>1. d.salt \in Seq(Byte) /\ v.salt \in Seq(Byte) /\ Len(d.salt) = SALT_SIZE /\ Len(v.salt) = SALT_SIZE
    BY <1>2 DEF Decoded, HasParts, IsPart
  <2>2. \A i \in 1..SALT_SIZE : d.salt[i] = v.salt[i]
    BY <1>2 DEF Decoded, Encoded
  <2> QED BY <2>1, <2>2, SameSeq
<1>6. d.nonce = v.nonce
  <2>1. d.nonce \in Seq(Byte) /\ v.nonce \in Seq(Byte) /\ Len(d.nonce) = NONCE_SIZE /\ Len(v.nonce) = NONCE_SIZE
    BY <1>2 DEF Decoded, HasParts, IsPart
  <2>2. \A i \in 1..NONCE_SIZE : d.nonce[i] = v.nonce[i]
    BY <1>2 DEF Decoded, Encoded
  <2> QED BY <2>1, <2>2, SameSeq
<1>7. d.ciphertext = v.ciphertext
  <2>1. d.ciphertext \in Seq(Byte) /\ v.ciphertext \in Seq(Byte) /\ Len(d.ciphertext) = n
    BY <1>1, <1>2 DEF Decoded, HasParts, IsPart
  <2>2. \A i \in 1..n : d.ciphertext[i] = v.ciphertext[i]
    BY <1>1, <1>2 DEF Decoded, Encoded
  <2> QED BY <2>1, <2>2, SameSeq
<1> QED BY <1>2, <1>4, <1>5, <1>6, <1>7

\* A file of version 1 whose parts are all one vault's is that vault, whole: a
\* write that stopped before the ciphertext has left none of it.
LEMMA Reassembled ==
    ASSUME NEW k \in Nat, NEW v, HasParts(v, k, VAULT_VERSION),
           NEW e, Encoded(e, v, VAULT_VERSION), FileInv,
           NEW d, Decoded(d, file), d.err = "none", d.version = VAULT_VERSION,
           d.salt = v.salt, d.nonce = v.nonce, d.ciphertext = v.ciphertext
    PROVE  file = e
<1> DEFINE n == Len(v.ciphertext)
<1>1. file \in Seq(Byte) /\ e \in Seq(Byte) /\ Len(e) = Cipher + n /\ Len(file) \in Nat
  BY DEF FileInv, Encoded
<1>2. n \in Nat /\ n >= 2 /\ v.ciphertext[1] = [part |-> "ciphertext", of |-> k, i |-> 1]
  <2> DEFINE w == 2 + (k % 2)
  <2>1. w \in Nat /\ w >= 2 /\ 1 \in 1..w
    OBVIOUS
  <2>2. IsPart(v.ciphertext, "ciphertext", k, w)
    BY Zenon DEF HasParts
  <2> HIDE DEF w
  <2>3. n = w /\ \A i \in 1..w : v.ciphertext[i] = [part |-> "ciphertext", of |-> k, i |-> i]
    BY <2>2, Zenon DEF IsPart
  <2> QED BY <2>1, <2>3
<1>3. n = Len(file) - Cipher /\ \A i \in 1..n : file[Cipher + i] = v.ciphertext[i]
  BY DEF Decoded
<1> HIDE DEF n
<1>4. /\ Len(file) = Cipher + n /\ Cipher + 1 \in DOMAIN file /\ 3 \in DOMAIN file /\ 4 \in DOMAIN file
      /\ 3 < Cipher + 1 /\ 4 < Cipher + 1
  BY <1>1, <1>2, <1>3, Places
<1>5. ~IsForeign(file[Cipher + 1])
  <2>1. file[Cipher + 1] = v.ciphertext[1]
    BY <1>2, <1>3
  <2> QED BY <2>1, <1>2 DEF IsForeign
<1>6. file[3] = VersionByte(VAULT_VERSION)
  <2>1. ~IsForeign(file[3])
    BY <1>4, <1>5 DEF FileInv
  <2>2. file[3] = VersionByte(file[3].of)
    BY <1>4, <2>1 DEF FileInv
  <2>3. file[3].of = VAULT_VERSION
    BY DEF Decoded
  <2> QED BY <2>2, <2>3
<1>7. file[4] = ZeroByte
  <2>1. ~IsForeign(file[4])
    BY <1>4, <1>5 DEF FileInv
  <2> QED BY <1>4, <2>1 DEF FileInv
<1>8. \A i \in 1..2 : file[i] = e[i]
  BY DEF Decoded, Encoded
<1>9. \A i \in 1..SALT_SIZE : file[Salt + i] = e[Salt + i]
  BY DEF Decoded, Encoded
<1>10. \A i \in 1..NONCE_SIZE : file[Nonce + i] = e[Nonce + i]
  BY DEF Decoded, Encoded
<1>11. \A i \in 1..n : file[Cipher + i] = e[Cipher + i]
  BY <1>3 DEF Encoded, n
<1>12. ASSUME NEW i \in 1..Len(file) PROVE file[i] = e[i]
  <2>1. CASE i \in 1..2
    BY <1>8, <2>1
  <2>2. CASE i = 3
    BY <1>6, <2>2 DEF Encoded
  <2>3. CASE i = 4
    BY <1>7, <2>3 DEF Encoded
  <2>4. CASE i \in Salt + 1..Nonce
    <3>1. i - Salt \in 1..SALT_SIZE /\ Salt + (i - Salt) = i
      BY <2>4, Places
    <3> QED BY <3>1, <1>9
  <2>5. CASE i \in Nonce + 1..Cipher
    <3>1. i - Nonce \in 1..NONCE_SIZE /\ Nonce + (i - Nonce) = i
      BY <2>5, Places
    <3> QED BY <3>1, <1>10
  <2>6. CASE i > Cipher
    <3>1. i - Cipher \in 1..n /\ Cipher + (i - Cipher) = i
      BY <2>6, <1>4, <1>2, <1>1, Places
    <3> QED BY <3>1, <1>11
  <2> QED BY <1>1, <2>1, <2>2, <2>3, <2>4, <2>5, <2>6, Places DEF Salt
<1> QED BY <1>1, <1>4, <1>12, SameSeq

\* Two vaults have no ciphertext in common.
LEMMA OneVault ==
    ASSUME NEW k \in Nat, NEW j \in Nat, NEW v, NEW w, NEW a, NEW b,
           HasParts(v, k, a), HasParts(w, j, b), v.ciphertext = w.ciphertext
    PROVE  k = j
<1>1. 2 + (k % 2) \in Nat /\ 2 + (k % 2) >= 1 /\ 2 + (j % 2) \in Nat /\ 2 + (j % 2) >= 1
  OBVIOUS
<1>2. v.ciphertext[1] = [part |-> "ciphertext", of |-> k, i |-> 1]
  BY <1>1 DEF HasParts, IsPart
<1>3. w.ciphertext[1] = [part |-> "ciphertext", of |-> j, i |-> 1]
  BY <1>1 DEF HasParts, IsPart
<1> QED BY <1>2, <1>3

---------------------------------------------------------------------------
(* The window of one step to either side.                                  *)

LEMMA ModSmall ==
    ASSUME NEW w \in Nat, NEW x \in Nat, x < w
    PROVE  x % w = x
OBVIOUS

LEMMA ModNeg ==
    ASSUME NEW w \in Nat, NEW x \in Int, x < 0, -w <= x, w > 0
    PROVE  x % w = x + w
OBVIOUS

LEMMA DivIs ==
    ASSUME NEW s \in Nat \ {0}, NEW x \in Nat
    PROVE  /\ x \div s \in Nat
           /\ s * (x \div s) <= x
           /\ x < s * (x \div s) + s
OBVIOUS

LEMMA DivUnique ==
    ASSUME NEW s \in Nat \ {0}, NEW x \in Nat, NEW q \in Nat, s * q <= x, x < s * q + s
    PROVE  x \div s = q
OBVIOUS

LEMMA DivStep ==
    ASSUME NEW s \in Nat \ {0}, NEW x \in Nat
    PROVE  (x + s) \div s = x \div s + 1
OBVIOUS

\* Times a step or less apart are in the same step or in steps next to another.
LEMMA StepsApart ==
    ASSUME NEW s \in Nat \ {0}, NEW x \in Nat, NEW y \in Nat, x - y <= s, y <= x
    PROVE  x \div s = y \div s \/ (x >= s /\ (x - s) \div s = y \div s)
<1> DEFINE q == y \div s
<1>1. q \in Nat /\ s * q <= y /\ y < s * q + s
  BY DivIs
<1> HIDE DEF q
<1>2. s * q \in Nat
  BY <1>1
<1>3. CASE x < s * q + s
  <2>1. x \div s = q
    BY <1>1, <1>2, <1>3, DivUnique
  <2> QED BY <2>1 DEF q
<1>4. CASE x >= s * q + s
  <2>1. x >= s /\ x - s \in Nat /\ s * q <= x - s /\ x - s < s * q + s
    BY <1>1, <1>2, <1>4
  <2>2. (x - s) \div s = q
    BY <1>1, <2>1, DivUnique
  <2> QED BY <2>1, <2>2 DEF q
<1> QED BY <1>2, <1>3, <1>4

\* Times in the same step are less than a step apart.
LEMMA SameStep ==
    ASSUME NEW s \in Nat \ {0}, NEW x \in Nat, NEW y \in Nat, x \div s = y \div s
    PROVE  x - y < s /\ y - x < s
<1> DEFINE q == y \div s
<1>1. q \in Nat /\ s * q <= y /\ y < s * q + s
  BY DivIs
<1>2. s * q <= x /\ x < s * q + s
  BY DivIs
<1>3. s * q \in Nat
  BY <1>1
<1> HIDE DEF q
<1> QED BY <1>1, <1>2, <1>3

\* The clock and the authenticator's stay clear of the end of a u64.
LEMMA Clock ==
    /\ DEFAULT_STEP \in Nat \ {0} /\ WORD \in Nat
    /\ \A t \in 0..MaxTime : t \in Nat /\ t < WORD - 2 * DEFAULT_STEP
BY UnlockAssumption

\* What is_totp_code_valid accepts is less than two steps off.
LEMMA WindowNoWider ==
    ASSUME NEW t \in 0..MaxTime, NEW u \in Nat, u < WORD - 2 * DEFAULT_STEP,
           is_totp_code_valid(totp_code(u), t)
    PROVE  t - u \in 1 - 2 * DEFAULT_STEP..2 * DEFAULT_STEP - 1
<1>1. /\ t \in Nat /\ t < WORD - 2 * DEFAULT_STEP
      /\ DEFAULT_STEP \in Nat \ {0} /\ WORD \in Nat
  BY Clock
<1>2. PICK offset \in {-DEFAULT_STEP, 0, DEFAULT_STEP} :
         ((t + offset) % WORD) \div DEFAULT_STEP = u \div DEFAULT_STEP
  BY DEF is_totp_code_valid, totp_code
<1>3. CASE t + offset >= 0
  <2>1. t + offset \in Nat /\ t + offset < WORD
    BY <1>1, <1>2, <1>3
  <2>2. (t + offset) % WORD = t + offset
    BY <1>1, <2>1, ModSmall
  <2>3. t + offset - u < DEFAULT_STEP /\ u - (t + offset) < DEFAULT_STEP
    <3> DEFINE x == t + offset
    <3>1. x \in Nat /\ x \div DEFAULT_STEP = u \div DEFAULT_STEP
      BY <1>2, <2>1, <2>2
    <3> HIDE DEF x
    <3>2. x - u < DEFAULT_STEP /\ u - x < DEFAULT_STEP
      BY <1>1, <3>1, SameStep
    <3> QED BY <3>2 DEF x
  <2> QED BY <1>1, <1>2, <2>3
<1>4. CASE t + offset < 0
  <2>1. t + offset \in Int /\ -WORD <= t + offset /\ WORD > 0
        /\ t + offset >= -DEFAULT_STEP
    BY <1>1, <1>2
  <2>2. (t + offset) % WORD = t + offset + WORD
    BY <1>1, <1>4, <2>1, ModNeg
  <2>3. t + offset + WORD \in Nat
    BY <1>1, <2>1
  <2>4. t + offset + WORD - u < DEFAULT_STEP
    <3> DEFINE x == t + offset + WORD
    <3>1. x \in Nat /\ x \div DEFAULT_STEP = u \div DEFAULT_STEP
      BY <1>2, <2>2, <2>3
    <3> HIDE DEF x
    <3>2. x - u < DEFAULT_STEP
      BY <1>1, <3>1, SameStep
    <3> QED BY <1>1, <2>1, <3>2 DEF x
  <2> QED BY <1>1, <2>1, <2>4
<1> QED BY <1>1, <1>2, <1>3, <1>4

\* What is one step off or less, it accepts.
LEMMA WindowNoNarrower ==
    ASSUME NEW t \in 0..MaxTime, NEW u \in Nat, u < WORD - 2 * DEFAULT_STEP,
           t - u \in -DEFAULT_STEP..DEFAULT_STEP
    PROVE  is_totp_code_valid(totp_code(u), t)
<1>1. /\ t \in Nat /\ t < WORD - 2 * DEFAULT_STEP
      /\ DEFAULT_STEP \in Nat \ {0} /\ WORD \in Nat
  BY Clock
<1>2. SUFFICES \E offset \in {-DEFAULT_STEP, 0, DEFAULT_STEP} :
                  ((t + offset) % WORD) \div DEFAULT_STEP = u \div DEFAULT_STEP
  <2>1. u \div DEFAULT_STEP # None
    BY <1>1, DivIs, NoneAssumption
  <2> QED BY <2>1 DEF is_totp_code_valid, totp_code
<1>3. CASE t \div DEFAULT_STEP = u \div DEFAULT_STEP
  <2>1. (t + 0) % WORD = t
    BY <1>1, ModSmall
  <2> QED BY <1>3, <2>1
<1>4. CASE u <= t /\ t >= DEFAULT_STEP /\ (t - DEFAULT_STEP) \div DEFAULT_STEP = u \div DEFAULT_STEP
  <2>1. t - DEFAULT_STEP \in Nat /\ t - DEFAULT_STEP < WORD /\ t + (-DEFAULT_STEP) = t - DEFAULT_STEP
    BY <1>1, <1>4
  <2>2. (t + (-DEFAULT_STEP)) % WORD = t - DEFAULT_STEP
    BY <1>1, <2>1, ModSmall
  <2> QED BY <1>4, <2>2
<1>5. CASE t <= u /\ u >= DEFAULT_STEP /\ (u - DEFAULT_STEP) \div DEFAULT_STEP = t \div DEFAULT_STEP
  <2> DEFINE y == u - DEFAULT_STEP
  <2>1. y \in Nat /\ y + DEFAULT_STEP = u /\ y \div DEFAULT_STEP = t \div DEFAULT_STEP
    BY <1>1, <1>5
  <2> HIDE DEF y
  <2>2. (y + DEFAULT_STEP) \div DEFAULT_STEP = y \div DEFAULT_STEP + 1
    BY <1>1, <2>1, DivStep
  <2>3. (t + DEFAULT_STEP) \div DEFAULT_STEP = t \div DEFAULT_STEP + 1
    BY <1>1, DivStep
  <2>7. (t + DEFAULT_STEP) \div DEFAULT_STEP = u \div DEFAULT_STEP
    BY <2>1, <2>2, <2>3
  <2>8. (t + DEFAULT_STEP) % WORD = t + DEFAULT_STEP
    <3>1. t + DEFAULT_STEP \in Nat /\ t + DEFAULT_STEP < WORD
      BY <1>1
    <3> QED BY <1>1, <3>1, ModSmall
  <2> QED BY <2>7, <2>8
<1>6. u <= t \/ t <= u
  BY <1>1
<1>7. u <= t => <1>3!1 \/ <1>4!1
  <2> HAVE u <= t
  <2>1. t - u <= DEFAULT_STEP
    BY <1>1
  <2> QED BY <1>1, <2>1, StepsApart
<1>8. t <= u => <1>3!1 \/ <1>5!1
  <2> HAVE t <= u
  <2>1. u - t <= DEFAULT_STEP
    BY <1>1
  <2> QED BY <1>1, <2>1, StepsApart
<1> QED BY <1>3, <1>4, <1>5, <1>6, <1>7, <1>8

---------------------------------------------------------------------------
(* The file after a write.                                                 *)

LEMMA Nothing ==
    ASSUME NEW s \in Seq(Byte), NEW n \in Nat, n >= Len(s)
    PROVE  SubSeq(s, n + 1, Len(s)) \in Seq(Byte) /\ Len(SubSeq(s, n + 1, Len(s))) = 0
OBVIOUS

\* g is the first n bytes of the new file, with nothing behind them or with
\* what the old file f has there.
Overwrites(g, f, new, n) ==
    \E truncates \in BOOLEAN :
        g = SubSeq(new, 1, n) \o (IF truncates THEN <<>> ELSE SubSeq(f, n + 1, Len(f)))

Overwritten(g, f, new, n) ==
    /\ g \in Seq(Byte)
    /\ \A i \in DOMAIN g : \/ i <= n /\ g[i] = new[i]
                           \/ i > n /\ i \in DOMAIN f /\ g[i] = f[i]

LEMMA Written ==
    ASSUME NEW f \in Seq(Byte), NEW new \in Seq(Byte), NEW n \in 0..Len(new),
           NEW g, Overwrites(g, f, new, n)
    PROVE  Overwritten(g, f, new, n)
<1>1. PICK truncates \in BOOLEAN :
         g = SubSeq(new, 1, n) \o (IF truncates THEN <<>> ELSE SubSeq(f, n + 1, Len(f)))
  BY Zenon DEF Overwrites
<1> DEFINE a == SubSeq(new, 1, n)
           b == IF truncates THEN <<>> ELSE SubSeq(f, n + 1, Len(f))
<1>2. /\ a \in Seq(Byte) /\ Len(a) = n /\ \A i \in 1..n : a[i] = new[i]
  <2>1. 0 \in Nat /\ n \in Nat /\ 0 + n <= Len(new) /\ 0 + 1 = 1 /\ 0 + n = n
    OBVIOUS
  <2>2. IsSlice(SubSeq(new, 0 + 1, 0 + n), new, 0, n)
    BY <2>1, SliceIs
  <2>3. IsSlice(a, new, 0, n)
    BY <2>1, <2>2
  <2> HIDE DEF a, b
  <2> QED BY <2>3 DEF IsSlice
<1>3. /\ b \in Seq(Byte)
      /\ \A i \in 1..Len(b) : n + i \in DOMAIN f /\ b[i] = f[n + i]
  <2>1. CASE truncates
    <3>1. b = <<>>
      BY <2>1
    <3> HIDE DEF b
    <3> QED BY <3>1
  <2>2. CASE ~truncates /\ n <= Len(f)
    <3> DEFINE m == Len(f) - n
    <3>1. n \in Nat /\ m \in Nat /\ n + m = Len(f) /\ n + m <= Len(f)
      BY <2>2
    <3> HIDE DEF m
    <3>2. IsSlice(SubSeq(f, n + 1, n + m), f, n, m)
      BY <3>1, SliceIs
    <3>3. IsSlice(b, f, n, m)
      BY <3>1, <3>2, <2>2
    <3>4. \A i \in 1..m : n + i \in DOMAIN f
      BY <3>1
    <3> HIDE DEF a, b
    <3> QED BY <3>1, <3>3, <3>4 DEF IsSlice
  <2>3. CASE ~truncates /\ ~(n <= Len(f))
    <3>1. n \in Nat /\ n >= Len(f)
      BY <2>3
    <3>2. SubSeq(f, n + 1, Len(f)) \in Seq(Byte) /\ Len(SubSeq(f, n + 1, Len(f))) = 0
      BY <3>1, Nothing
    <3>3. b \in Seq(Byte) /\ Len(b) = 0
      BY <2>3, <3>2
    <3> HIDE DEF a, b
    <3> QED BY <3>3
  <2> QED BY <2>1, <2>2, <2>3
<1>4. Joins(g, a, b)
  BY <1>1, Zenon DEF Joins
<1> HIDE DEF a, b
<1>5. Follows(g, a, b)
  BY <1>2, <1>3, <1>4, Joined
<1>6. ASSUME NEW i \in DOMAIN g
      PROVE  \/ i <= n /\ g[i] = new[i]
             \/ i > n /\ i \in DOMAIN f /\ g[i] = f[i]
  <2>1. i \in 1..n + Len(b) /\ Len(b) \in Nat /\ n \in Nat
    BY <1>2, <1>3, <1>5 DEF Follows
  <2>2. CASE i <= n
    BY <1>2, <1>5, <2>1, <2>2 DEF Follows
  <2>3. CASE i > n
    <3>1. i - n \in 1..Len(b) /\ n + (i - n) = i
      BY <2>1, <2>3
    <3>2. g[n + (i - n)] = b[i - n]
      BY <1>2, <1>5, <3>1 DEF Follows
    <3> QED BY <1>3, <2>3, <3>1, <3>2
  <2> QED BY <2>1, <2>2, <2>3
<1> QED BY <1>5, <1>6 DEF Overwritten, Follows

---------------------------------------------------------------------------
(* The invariant holds at first, and every step keeps it.                  *)

LEMMA ForeignIs == IsPart(Foreign, "foreign", 0, Cipher)
<1>1. Len(VAULT_MAGIC) = 2
  BY Magic DEF IsPart
<1>2. Len(VAULT_MAGIC) + 2 + SALT_SIZE + NONCE_SIZE = Cipher
  BY <1>1, Places DEF Salt
<1>3. IsPart(Bytes("foreign", 0, Cipher), "foreign", 0, Cipher)
  BY BytesAre, Places DEF PartNames
<1> QED BY <1>2, <1>3 DEF Foreign

LEMMA InitInv == Init => Inv
<1> SUFFICES ASSUME Init PROVE Inv
  OBVIOUS
<1>1. now \in 0..MaxTime
  BY UnlockAssumption DEF Init
<1>2. seals \in Seq(Seals)
  BY DEF Init
<1>3. FileInv
  <2>1. CASE file = <<>>
    BY <2>1 DEF FileInv
  <2>2. CASE file = Foreign
    <3>1. file \in Seq(Byte) /\ \A i \in DOMAIN file : file[i] = [part |-> "foreign", of |-> 0, i |-> i]
      BY <2>2, ForeignIs DEF IsPart
    <3>2. \A i \in DOMAIN file : IsForeign(file[i])
      BY <3>1 DEF IsForeign
    <3> QED BY <3>1, <3>2 DEF FileInv
  <2> QED BY <2>1, <2>2 DEF Init
<1>4. TypedInv
  BY UnlockAssumption DEF Init, TypedInv
<1>5. attempt = None /\ result = None
  BY DEF Init
<1> QED BY <1>1, <1>2, <1>3, <1>4, <1>5 DEF Inv, AttemptInv, OpensOnlyWithBoth, BothOpen

LEMMA TickInv ==
    ASSUME Inv, Tick
    PROVE  Inv'
<1>1. now' \in 0..MaxTime
  BY UnlockAssumption DEF Inv, Tick
<1>2. UNCHANGED <<seals, file, typed, attempt>> /\ result' = None
  BY DEF Tick
<1>3. FileInv' /\ TypedInv' /\ AttemptInv'
  BY <1>2 DEF Inv, FileInv, TypedInv, AttemptInv
<1> QED BY <1>1, <1>2, <1>3 DEF Inv, OpensOnlyWithBoth, BothOpen

\* A torn write leaves the front of the new vault before the rest of the old.
LEMMA SealInv ==
    ASSUME Inv, NEW passphrase \in Passphrases,
           NEW version \in {VAULT_VERSION, VAULT_VERSION + 1}, Seal(passphrase, version)
    PROVE  Inv'
<1>1. UNCHANGED <<now, typed, attempt>> /\ result' = None /\ attempt = None
  BY DEF Seal
<1>2. seals' \in Seq(Seals)
  <2>1. [passphrase |-> passphrase, version |-> version] \in Seals
    BY DEF Seals
  <2> QED BY <2>1 DEF Inv, Seal
<1>3. FileInv'
  <2> DEFINE k == Len(seals) + 1
             v == seal_vault(k, version)
             new == encode_vault(v)
  <2>1. k \in Nat /\ version \in Nat
    BY DEF Inv, VAULT_VERSION
  <2>2. PICK n \in 0..Len(new) : Overwrites(file', file, new, n)
    BY Zenon DEF Seal, Overwrites
  <2>3. Sealed(v, k, version)
    BY Zenon DEF Sealed
  <2> HIDE DEF k, v
  <2>4. HasParts(v, k, version)
    BY <2>1, <2>3, SealIs
  <2>5. Encoded(new, v, version)
    BY <2>1, <2>4, EncodeIs
  <2> HIDE DEF new
  <2>6. new \in Seq(Byte) /\ file \in Seq(Byte)
    BY <2>5 DEF Encoded, Inv, FileInv
  <2>7. Overwritten(file', file, new, n)
    BY <2>2, <2>6, Written
  <2>8. \A i \in 1..Len(new) : ~IsForeign(new[i])
    BY <2>1, <2>4, <2>5, OwnBytes
  <2>9. /\ file' \in Seq(Byte)
        /\ \A i \in DOMAIN file' : \/ i <= n /\ file'[i] = new[i]
                                   \/ i > n /\ i \in DOMAIN file /\ file'[i] = file[i]
    BY <2>7 DEF Overwritten
  <2>10. \A i \in DOMAIN file' : i \in Nat /\ i >= 1
    BY <2>9
  <2>11. ASSUME NEW i \in DOMAIN file', NEW j \in DOMAIN file', i < j, IsForeign(file'[i])
         PROVE  IsForeign(file'[j])
    <3>1. CASE i <= n
      <4>1. i \in 1..Len(new) /\ file'[i] = new[i]
        BY <2>6, <2>9, <2>10, <3>1
      <4> QED BY <2>8, <2>11, <4>1
    <3>2. CASE i > n
      <4>1. j > n
        BY <2>10, <2>11, <3>2
      <4>2. i \in DOMAIN file /\ j \in DOMAIN file /\ file'[i] = file[i] /\ file'[j] = file[j]
        BY <2>9, <2>10, <3>2, <4>1
      <4> QED BY <2>11, <4>2 DEF Inv, FileInv
    <3> QED BY <2>10, <3>1, <3>2
  <2>12. ASSUME 3 \in DOMAIN file'
         PROVE  IsForeign(file'[3]) \/ file'[3] = VersionByte(file'[3].of)
    <3>1. CASE file'[3] = new[3]
      <4>1. file'[3] = VersionByte(version)
        BY <2>5, <3>1 DEF Encoded
      <4>2. file'[3].of = version
        BY <4>1 DEF VersionByte
      <4> QED BY <4>1, <4>2
    <3>2. CASE 3 \in DOMAIN file /\ file'[3] = file[3]
      BY <3>2 DEF Inv, FileInv
    <3> QED BY <2>9, <2>12, <3>1, <3>2
  <2>13. ASSUME 4 \in DOMAIN file'
         PROVE  IsForeign(file'[4]) \/ file'[4] = ZeroByte
    <3>1. CASE file'[4] = new[4]
      BY <2>5, <3>1 DEF Encoded
    <3>2. CASE 4 \in DOMAIN file /\ file'[4] = file[4]
      BY <3>2 DEF Inv, FileInv
    <3> QED BY <2>9, <2>13, <3>1, <3>2
  <2> QED BY <2>9, <2>11, <2>12, <2>13 DEF FileInv
<1>4. TypedInv' /\ AttemptInv' /\ now' \in 0..MaxTime
  BY <1>1 DEF Inv, TypedInv, AttemptInv
<1> QED BY <1>1, <1>2, <1>3, <1>4 DEF Inv, OpensOnlyWithBoth, BothOpen

LEMMA TypeInv ==
    ASSUME Inv, Type
    PROVE  Inv'
<1>1. UNCHANGED <<now, seals, file, attempt>> /\ result' = None
  BY DEF Type
<1>2. TypedInv'
  <2>1. PICK skew \in Skews :
           /\ now + skew >= 0
           /\ \E code \in {totp_code(now + skew), None} :
                 typed' = [code |-> code, time |-> now + skew]
    BY Zenon DEF Type
  <2>2. now + skew \in Nat /\ now + skew < WORD - 2 * DEFAULT_STEP
    BY <2>1, UnlockAssumption DEF Inv
  <2>3. typed'.time = now + skew /\ typed'.code \in {totp_code(now + skew), None}
    BY <2>1
  <2> QED BY <2>2, <2>3 DEF TypedInv
<1>3. FileInv' /\ AttemptInv' /\ now' \in 0..MaxTime /\ seals' \in Seq(Seals)
  BY <1>1 DEF Inv, FileInv, AttemptInv
<1> QED BY <1>1, <1>2, <1>3 DEF Inv, OpensOnlyWithBoth, BothOpen

\* The whole k-th vault of version 1, and what decode_vault makes of it.
Whole(k) == encode_vault(seal_vault(k, VAULT_VERSION))

LEMMA WholeIs ==
    ASSUME NEW k \in Nat
    PROVE  /\ HasParts(seal_vault(k, VAULT_VERSION), k, VAULT_VERSION)
           /\ Encoded(Whole(k), seal_vault(k, VAULT_VERSION), VAULT_VERSION)
<1> DEFINE v == seal_vault(k, VAULT_VERSION)
<1>1. VAULT_VERSION \in Nat
  BY DEF VAULT_VERSION
<1>2. Sealed(v, k, VAULT_VERSION)
  BY DEF Sealed
<1>3. Whole(k) = encode_vault(v)
  BY DEF Whole
<1> HIDE DEF v
<1>4. HasParts(v, k, VAULT_VERSION)
  BY <1>2, SealIs
<1>5. Encoded(encode_vault(v), v, VAULT_VERSION)
  BY <1>1, <1>4, EncodeIs
<1> QED BY <1>3, <1>4, <1>5 DEF v

LEMMA WholeDecodes ==
    ASSUME NEW k \in Nat, NEW d, d = decode_vault(Whole(k)), NEW v, v = seal_vault(k, VAULT_VERSION)
    PROVE  /\ d.err = "none" /\ d.version = VAULT_VERSION
           /\ d.salt = v.salt /\ d.nonce = v.nonce /\ d.ciphertext = v.ciphertext
<1> DEFINE e == Whole(k)
<1>1. HasParts(v, k, VAULT_VERSION) /\ Encoded(e, v, VAULT_VERSION)
  BY WholeIs
<1> HIDE DEF e
<1>2. e \in Seq(Byte)
  BY <1>1 DEF Encoded
<1>3. Decoded(decode_vault(e), e)
  BY <1>2, DecodeIs
<1>4. Decoded(d, e)
  BY <1>3 DEF e
<1> QED BY <1>1, <1>4, DecodeEncoded

\* The vaults that a blob opens as, with this passphrase.
Opens(k, p, d) ==
    /\ k \in DOMAIN seals
    /\ p = seals[k].passphrase
    /\ d.salt = seal_vault(k, VAULT_VERSION).salt
    /\ d.nonce = seal_vault(k, VAULT_VERSION).nonce
    /\ d.ciphertext = seal_vault(k, VAULT_VERSION).ciphertext

LEMMA OpensAre ==
    ASSUME NEW p, NEW d, NEW k
    PROVE  k \in aes_gcm_decrypt(pbkdf2_sha256(p, d.salt), d) <=> Opens(k, p, d)
<1> DEFINE v == seal_vault(k, seals[k].version)
           w == seal_vault(k, VAULT_VERSION)
<1>1. v.salt = w.salt /\ v.nonce = w.nonce /\ v.ciphertext = w.ciphertext
  BY DEF seal_vault
<1>2. k \in aes_gcm_decrypt(pbkdf2_sha256(p, d.salt), d) <=>
        /\ k \in DOMAIN seals
        /\ pbkdf2_sha256(p, d.salt) = pbkdf2_sha256(seals[k].passphrase, v.salt)
        /\ d.nonce = v.nonce /\ d.ciphertext = v.ciphertext
  BY Zenon DEF aes_gcm_decrypt
<1> HIDE DEF v, w
<1>3. pbkdf2_sha256(p, d.salt) = pbkdf2_sha256(seals[k].passphrase, v.salt)
        <=> p = seals[k].passphrase /\ d.salt = v.salt
  BY DEF pbkdf2_sha256
<1> QED BY <1>1, <1>2, <1>3 DEF Opens, w

\* An unlock that ended without an identity, where it may have.
LEMMA EndedShut ==
    ASSUME Inv, NEW passphrase, NEW err, Ended(passphrase, err, None),
           UNCHANGED <<now, seals, file, typed>>, AttemptInv',
           ASSUME NEW k \in DOMAIN seals,
                  seals[k] = [passphrase |-> passphrase, version |-> VAULT_VERSION],
                  file = Whole(k), typed.code # None,
                  now - typed.time \in -DEFAULT_STEP..DEFAULT_STEP
           PROVE  FALSE
    PROVE  Inv'
<1>1. /\ result'.file = file /\ result'.passphrase = passphrase /\ result'.typed = typed
      /\ result'.time = now /\ result'.opened = None
  BY DEF Ended
<1>2. now' \in 0..MaxTime /\ seals' \in Seq(Seals) /\ FileInv' /\ TypedInv'
  BY DEF Inv, FileInv, TypedInv
<1>3. BothOpen'
  BY <1>1 DEF BothOpen, Whole
<1> QED BY <1>1, <1>2, <1>3 DEF Inv, OpensOnlyWithBoth

LEMMA BeginUnlockInv ==
    ASSUME Inv, NEW passphrase \in Passphrases, BeginUnlock(passphrase)
    PROVE  Inv'
<1> DEFINE d == decode_vault(file)
<1>1. UNCHANGED <<now, seals, file, typed>> /\ attempt = None
  BY DEF BeginUnlock
<1>2. \A k \in DOMAIN seals : k \in Nat
  BY DEF Inv
<1>3. ASSUME d.err # "none" \/ d.version # VAULT_VERSION,
             NEW err, Ended(passphrase, err, None), UNCHANGED attempt
      PROVE  Inv'
  <2>1. ASSUME NEW k \in DOMAIN seals, file = Whole(k)
        PROVE  FALSE
    <3>1. k \in Nat /\ d = decode_vault(Whole(k))
      BY <1>2, <2>1
    <3> HIDE DEF d
    <3> DEFINE v == seal_vault(k, VAULT_VERSION)
    <3> HIDE DEF v
    <3>2. v = seal_vault(k, VAULT_VERSION)
      BY DEF v
    <3> QED BY <3>1, <3>2, <1>3, WholeDecodes
  <2>2. AttemptInv'
    BY <1>1, <1>3 DEF AttemptInv
  <2> QED BY <1>1, <1>3, <2>1, <2>2, EndedShut
<1>4. ASSUME d.err = "none", d.version = VAULT_VERSION,
             attempt' = [passphrase |-> passphrase, blob |-> d], result' = None
      PROVE  Inv'
  <2>1. attempt'.passphrase = passphrase /\ attempt'.blob = d
    BY <1>4
  <2>2. decode_vault(file)' = d
    BY <1>1 DEF decode_vault, Parts, Slice
  <2> HIDE DEF d
  <2>3. AttemptInv'
    BY <1>1, <1>4, <2>1, <2>2 DEF AttemptInv
  <2>4. now' \in 0..MaxTime /\ seals' \in Seq(Seals) /\ FileInv' /\ TypedInv'
    BY <1>1 DEF Inv, FileInv, TypedInv
  <2> QED BY <1>4, <2>3, <2>4 DEF Inv, OpensOnlyWithBoth, BothOpen
<1>5. \/ d.err # "none" /\ Ended(passphrase, d.err, None) /\ UNCHANGED attempt
      \/ d.version # VAULT_VERSION /\ Ended(passphrase, "UnsupportedVersion", None) /\ UNCHANGED attempt
      \/ /\ d.err = "none" /\ d.version = VAULT_VERSION
         /\ attempt' = [passphrase |-> passphrase, blob |-> d] /\ result' = None
  BY Zenon DEF BeginUnlock
<1> HIDE DEF d
<1> QED BY <1>3, <1>4, <1>5

LEMMA FinishUnlockInv ==
    ASSUME Inv, FinishUnlock
    PROVE  Inv'
<1> DEFINE p == attempt.passphrase
           d == attempt.blob
           opened == aes_gcm_decrypt(pbkdf2_sha256(p, d.salt), d)
<1>1. UNCHANGED <<now, seals, file, typed>> /\ attempt # None /\ attempt' = None
  BY DEF FinishUnlock
<1>2. d = decode_vault(file) /\ d.err = "none" /\ d.version = VAULT_VERSION /\ p \in Passphrases
  BY <1>1 DEF Inv, AttemptInv
<1>3. /\ \A k \in DOMAIN seals : k \in Nat
      /\ file \in Seq(Byte) /\ FileInv /\ TypedInv /\ now \in 0..MaxTime
  BY DEF Inv, FileInv
<1>4. AttemptInv'
  BY <1>1 DEF AttemptInv
<1>5. \A k : k \in opened <=> Opens(k, p, d)
  BY OpensAre
<1>6. ASSUME NEW k \in DOMAIN seals, file = Whole(k),
             seals[k] = [passphrase |-> p, version |-> VAULT_VERSION]
      PROVE  k \in opened
  <2> DEFINE v == seal_vault(k, VAULT_VERSION)
  <2>1. v = seal_vault(k, VAULT_VERSION)
    OBVIOUS
  <2> HIDE DEF v, p, d, opened
  <2>2. k \in Nat /\ d = decode_vault(Whole(k))
    BY <1>2, <1>3, <1>6
  <2>3. d.salt = v.salt /\ d.nonce = v.nonce /\ d.ciphertext = v.ciphertext
    BY <2>1, <2>2, WholeDecodes
  <2>4. p = seals[k].passphrase
    BY <1>6
  <2>5. Opens(k, p, d)
    BY <2>1, <2>3, <2>4 DEF Opens
  <2> QED BY <1>5, <2>5
<1>7. ASSUME NEW k \in opened, NEW j \in opened
      PROVE  k = j
  <2> DEFINE v == seal_vault(k, VAULT_VERSION)
             w == seal_vault(j, VAULT_VERSION)
  <2>1. Opens(k, p, d) /\ Opens(j, p, d)
    BY <1>5, <1>7
  <2> HIDE DEF p, d, opened
  <2>2. k \in Nat /\ j \in Nat /\ v.ciphertext = w.ciphertext
    BY <1>3, <2>1 DEF Opens
  <2>3. HasParts(v, k, VAULT_VERSION) /\ HasParts(w, j, VAULT_VERSION)
    BY <2>2, WholeIs
  <2> HIDE DEF v, w
  <2> QED BY <2>2, <2>3, OneVault
<1>8. CASE opened = {} /\ Ended(p, "DecryptionFailed", None)
  <2> HIDE DEF p, d, opened
  <2> QED BY <1>1, <1>4, <1>6, <1>8, EndedShut
<1>9. ASSUME NEW k \in opened, seals[k].version # VAULT_VERSION, Ended(p, "BadPayload", None)
      PROVE  Inv'
  <2> HIDE DEF p, d, opened
  <2>1. ASSUME NEW j \in DOMAIN seals, file = Whole(j),
               seals[j] = [passphrase |-> p, version |-> VAULT_VERSION]
        PROVE  FALSE
    <3>1. j = k
      BY <1>6, <1>7, <1>9, <2>1
    <3> QED BY <1>9, <2>1, <3>1
  <2> QED BY <1>1, <1>4, <1>9, <2>1, EndedShut
<1>10. ASSUME ~is_totp_code_valid(typed.code, now), Ended(p, "InvalidTotp", None)
       PROVE  Inv'
  <2> HIDE DEF p, d, opened
  <2>1. ASSUME typed.code # None, now - typed.time \in -DEFAULT_STEP..DEFAULT_STEP
        PROVE  FALSE
    <3>1. typed.code = totp_code(typed.time) /\ typed.time \in Nat /\ typed.time < WORD - 2 * DEFAULT_STEP
      BY <1>3, <2>1 DEF TypedInv
    <3> DEFINE t == now
               u == typed.time
    <3> HIDE DEF t, u
    <3>2. is_totp_code_valid(totp_code(u), t)
      BY <1>3, <2>1, <3>1, WindowNoNarrower DEF t, u
    <3> QED BY <1>10, <3>1, <3>2 DEF t, u
  <2> QED BY <1>1, <1>4, <1>10, <2>1, EndedShut
<1>11. ASSUME NEW k \in opened, is_totp_code_valid(typed.code, now), Ended(p, "none", k)
       PROVE  Inv'
  <2> DEFINE v == seal_vault(k, VAULT_VERSION)
             e == Whole(k)
  <2>1. Opens(k, p, d)
    BY <1>5, <1>11
  <2>2. k \in DOMAIN seals /\ k \in Nat /\ p = seals[k].passphrase
        /\ d.salt = v.salt /\ d.nonce = v.nonce /\ d.ciphertext = v.ciphertext
    <3> HIDE DEF p, d, opened
    <3> QED BY <1>3, <2>1 DEF Opens
  <2> HIDE DEF p, opened
  <2>3. /\ result'.file = file /\ result'.passphrase = p /\ result'.typed = typed
        /\ result'.time = now /\ result'.opened = k
    BY <1>11 DEF Ended
  <2>4. HasParts(v, k, VAULT_VERSION) /\ Encoded(e, v, VAULT_VERSION)
    BY <2>2, WholeIs
  <2>5. Decoded(d, file)
    <3>1. Decoded(decode_vault(file), file)
      BY <1>3, DecodeIs
    <3> HIDE DEF d
    <3> QED BY <3>1, <1>2
  <2> HIDE DEF v, e, d
  <2>6. file = e
    BY <1>2, <1>3, <2>2, <2>4, <2>5, Reassembled
  <2>7. typed.code # None
    BY <1>11 DEF is_totp_code_valid
  <2>8. now - typed.time \in 1 - 2 * DEFAULT_STEP..2 * DEFAULT_STEP - 1
    <3>1. typed.code = totp_code(typed.time) /\ typed.time \in Nat /\ typed.time < WORD - 2 * DEFAULT_STEP
      BY <1>3, <2>7 DEF TypedInv
    <3>2. is_totp_code_valid(totp_code(typed.time), now)
      BY <1>11, <3>1
    <3> QED BY <1>3, <3>1, <3>2, WindowNoWider
  <2>9. k # None
    BY <2>2, NoneAssumption
  <2>10. OpensOnlyWithBoth'
    BY <1>1, <2>2, <2>3, <2>6, <2>7, <2>8 DEF OpensOnlyWithBoth, Whole, e
  <2>11. BothOpen' /\ (result' # None => result'.opened \in DOMAIN seals' \cup {None})
    BY <1>1, <2>2, <2>3, <2>9 DEF BothOpen
  <2>12. now' \in 0..MaxTime /\ seals' \in Seq(Seals) /\ FileInv' /\ TypedInv'
    BY <1>1 DEF Inv, FileInv, TypedInv
  <2> QED BY <1>4, <2>10, <2>11, <2>12 DEF Inv
<1>12. \/ opened = {} /\ Ended(p, "DecryptionFailed", None)
       \/ \E k \in opened : seals[k].version # VAULT_VERSION /\ Ended(p, "BadPayload", None)
       \/ \E k \in opened : is_totp_code_valid(typed.code, now) /\ Ended(p, "none", k)
       \/ ~is_totp_code_valid(typed.code, now) /\ Ended(p, "InvalidTotp", None)
  BY Zenon DEF FinishUnlock
<1> HIDE DEF p, d, opened
<1> QED BY <1>8, <1>9, <1>10, <1>11, <1>12

LEMMA NextInv == Inv /\ [Next]_vars => Inv'
<1> SUFFICES ASSUME Inv, [Next]_vars PROVE Inv'
  OBVIOUS
<1>1. CASE UNCHANGED vars
  <2>1. UNCHANGED <<now, seals, file, typed, attempt, result>>
    BY <1>1 DEF vars
  <2>2. FileInv' /\ TypedInv' /\ AttemptInv' /\ OpensOnlyWithBoth' /\ BothOpen'
    BY <2>1 DEF Inv, FileInv, TypedInv, AttemptInv, OpensOnlyWithBoth, BothOpen
  <2> QED BY <2>1, <2>2 DEF Inv
<1> QED BY <1>1, TickInv, SealInv, TypeInv, BeginUnlockInv, FinishUnlockInv DEF Next

\* Everything below follows from this invariant, for all sizes and bounds.
THEOREM Invariance == Spec => []Inv
<1>1. Init => Inv
  BY InitInv
<1>2. Inv /\ [Next]_vars => Inv'
  BY NextInv
<1> QED BY <1>1, <1>2, PTL DEF Spec

\* decode_vault and unseal_vault keep to their types: an attempt holds parts of
\* the lengths that AES-GCM and PBKDF2 want.
THEOREM TypeInvariance == Spec => []TypeOK
<1>1. Inv => TypeOK
  <2> SUFFICES ASSUME Inv PROVE TypeOK
    OBVIOUS
  <2>1. typed.time \in Nat /\ typed.code \in Nat \cup {None}
    BY Clock, DivIs DEF Inv, TypedInv, totp_code
  <2>2. ASSUME attempt # None
        PROVE  /\ attempt.passphrase \in Passphrases
               /\ Len(attempt.blob.salt) = SALT_SIZE
               /\ attempt.blob.nonce # None
    <3>1. attempt.passphrase \in Passphrases /\ attempt.blob = decode_vault(file) /\ attempt.blob.err = "none"
      BY <2>2 DEF Inv, AttemptInv
    <3>2. Decoded(decode_vault(file), file)
      BY DecodeIs DEF Inv, FileInv
    <3>3. Decoded(attempt.blob, file)
      BY <3>1, <3>2
    <3> QED BY <3>1, <3>3, NoneAssumption DEF Decoded
  <2> QED BY <2>1, <2>2 DEF Inv, TypeOK
<1> QED BY <1>1, Invariance, PTL

\* Whatever a torn write has left, the slices that decode_vault takes are there.
THEOREM DecodeTotal == Spec => []DecodeIsTotal
<1>1. Inv => DecodeIsTotal
  <2> SUFFICES ASSUME Inv PROVE DecodeIsTotal
    OBVIOUS
  <2> DEFINE d == decode_vault(file)
  <2>1. Decoded(d, file)
    BY DecodeIs DEF Inv, FileInv
  <2> HIDE DEF d
  <2>2. d.err = "none" => d.salt # None /\ d.nonce # None
    BY <2>1, NoneAssumption DEF Decoded
  <2> QED BY <2>2 DEF DecodeIsTotal, d
<1> QED BY <1>1, Invariance, PTL

\* unseal_vault gives an identity only for a whole vault, its passphrase and a
\* code less than two steps off: no mixture of two writes opens.
THEOREM TwoFactors == Spec => []OpensOnlyWithBoth
<1>1. Inv => OpensOnlyWithBoth
  BY DEF Inv
<1> QED BY <1>1, Invariance, PTL

\* ... and for those it does, if the code is at most one step off.
THEOREM TwoFactorsSuffice == Spec => []BothOpen
<1>1. Inv => BothOpen
  BY DEF Inv
<1> QED BY <1>1, Invariance, PTL
============================================================================
