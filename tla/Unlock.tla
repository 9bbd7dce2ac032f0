------------------------------- MODULE Unlock -------------------------------
(***************************************************************************)
(* Unlocking the vault: the file format and the two factors of             *)
(* src/src/vault.rs and the one-time codes of src/src/totp.rs, with writes *)
(* that a crash tears and a clock that goes on while the user types and    *)
(* while the key is derived.                                               *)
(*                                                                         *)
(* A file is a sequence of bytes; a byte names the part of the vault it    *)
(* belongs to, so parts of two vaults can be told apart.  Each seal has its own salt  *)
(* and nonce.  AES-GCM is symbolic: a ciphertext opens exactly if it is    *)
(* whole and nonce and key are those it was made with.  One-time codes of  *)
(* different steps are different (in the code they collide once in a       *)
(* million).                                                               *)
(***************************************************************************)
EXTENDS Integers, Sequences, SequencesExt

CONSTANTS
    Passphrases,
    DEFAULT_STEP,  \* seconds a code is shown (30 in the code)
    WORD,          \* size of a u64 (2^64 in the code)
    SALT_SIZE,     \* bytes of salt (16 in the code)
    NONCE_SIZE,    \* bytes of nonce (12 in the code)
    Skews,         \* by how much the authenticator's clock is ahead
    None,          \* no result yet; an input that is not six digits
    MaxTime,       \* bound: last second of the clock
    MaxSeals       \* bound: times the vault is sealed

ASSUME UnlockAssumption ==
    /\ DEFAULT_STEP \in Nat \ {0}
    /\ SALT_SIZE \in Nat /\ NONCE_SIZE \in Nat
    /\ MaxTime \in Nat /\ MaxSeals \in Nat
    /\ WORD \in Nat
    /\ Skews \subseteq Int
    /\ \A skew \in Skews \cup {0} : MaxTime + skew < WORD - 2 * DEFAULT_STEP

\* A byte of a file: the i-th of a part of the vault it was written for.
PartNames == {"magic", "version", "zero", "salt", "nonce", "ciphertext", "foreign"}
Byte == [part : PartNames, of : Nat, i : Nat]

ASSUME NoneAssumption == None \notin Nat /\ None \notin Seq(Byte)

VARIABLES
    now,      \* the clock
    seals,    \* the vaults sealed so far: passphrase and version of the crate
    file,     \* the bytes on disk
    typed,    \* the code the user has typed, and the authenticator's time then
    attempt,  \* the unlock under way, or None
    result    \* the one that has just ended, or None

vars == <<now, seals, file, typed, attempt, result>>

---------------------------------------------------------------------------
(* One-time codes.                                                         *)

totp_code(time) == time \div DEFAULT_STEP

\* Mutants: the window does not reach back, or too far.
NoStepBack(input, time) ==
    input # None /\ \E offset \in {0, DEFAULT_STEP} : totp_code((time + offset) % WORD) = input

TwoStepsBack(input, time) ==
    input # None /\ \E offset \in {-2 * DEFAULT_STEP, -DEFAULT_STEP, 0, DEFAULT_STEP} :
                        totp_code((time + offset) % WORD) = input

\* White space is dropped first; None is what is not six digits then.  The
\* second before 1970 that an early clock leads to is a very late one in u64.
is_totp_code_valid(input, time) ==
    input # None /\ \E offset \in {-DEFAULT_STEP, 0, DEFAULT_STEP} :
                        totp_code((time + offset) % WORD) = input

---------------------------------------------------------------------------
(* The file.                                                               *)

Bytes(part, k, n) == [i \in 1..n |-> [part |-> part, of |-> k, i |-> i]]

VAULT_VERSION == 1
VAULT_MAGIC == Bytes("magic", 0, 2)

\* The k-th vault; a payload is now longer, now shorter than the one before.
seal_vault(k, version) ==
    [version |-> version,
     salt |-> Bytes("salt", k, SALT_SIZE),
     nonce |-> Bytes("nonce", k, NONCE_SIZE),
     ciphertext |-> Bytes("ciphertext", k, 2 + (k % 2))]

encode_vault(v) ==
    VAULT_MAGIC \o Bytes("version", v.version, 1) \o Bytes("zero", 0, 1)
        \o v.salt \o v.nonce \o v.ciphertext

\* A slice of n bytes; None where the code would panic.
Slice(bytes, off, n) == IF off + n <= Len(bytes) THEN SubSeq(bytes, off + 1, off + n) ELSE None

Parts(bytes) ==
    LET off == Len(VAULT_MAGIC) + 2
    IN  [err |-> "none",
         version |-> bytes[Len(VAULT_MAGIC) + 1].of,
         salt |-> Slice(bytes, off, SALT_SIZE),
         nonce |-> Slice(bytes, off + SALT_SIZE, NONCE_SIZE),
         ciphertext |-> SubSeq(bytes, off + SALT_SIZE + NONCE_SIZE + 1, Len(bytes))]

\* Mutant: the nonce is not counted.
DecodesShort(bytes) ==
    IF Len(bytes) < Len(VAULT_MAGIC) + 2 + SALT_SIZE
    THEN [err |-> "Corrupted"]
    ELSE IF Slice(bytes, 0, Len(VAULT_MAGIC)) # VAULT_MAGIC
    THEN [err |-> "BadMagic"]
    ELSE Parts(bytes)

decode_vault(bytes) ==
    IF Len(bytes) < Len(VAULT_MAGIC) + 2 + SALT_SIZE + NONCE_SIZE
    THEN [err |-> "Corrupted"]
    ELSE IF Slice(bytes, 0, Len(VAULT_MAGIC)) # VAULT_MAGIC
    THEN [err |-> "BadMagic"]
    ELSE Parts(bytes)

pbkdf2_sha256(passphrase, salt) == <<passphrase, salt>>

\* The vaults that the blob opens as: that one, or none.
aes_gcm_decrypt(key, blob) ==
    {k \in DOMAIN seals :
        LET v == seal_vault(k, seals[k].version)
        IN  /\ key = pbkdf2_sha256(seals[k].passphrase, v.salt)
            /\ blob.nonce = v.nonce
            /\ blob.ciphertext = v.ciphertext}

---------------------------------------------------------------------------
(* The application, its user and its disk.                                 *)

Foreign == Bytes("foreign", 0, Len(VAULT_MAGIC) + 2 + SALT_SIZE + NONCE_SIZE)

Init ==
    /\ now = 0
    /\ seals = <<>>
    /\ file \in {<<>>, Foreign}
    /\ typed = [code |-> None, time |-> 0]
    /\ attempt = None
    /\ result = None

Tick ==
    /\ now < MaxTime
    /\ now' = now + 1
    /\ result' = None
    /\ UNCHANGED <<seals, file, typed, attempt>>

\* The vault is sealed, by this version or a later one, and written over the
\* file.  All n bytes of it reach the disk, or a crash comes first; and what
\* was there before is cut off, or is not.
Seal(passphrase, version) ==
    /\ Len(seals) < MaxSeals
    /\ attempt = None
    /\ seals' = Append(seals, [passphrase |-> passphrase, version |-> version])
    /\ LET new == encode_vault(seal_vault(Len(seals) + 1, version))
       IN  \E n \in 0..Len(new), truncates \in BOOLEAN :
              file' = SubSeq(new, 1, n) \o (IF truncates THEN <<>> ELSE SubSeq(file, n + 1, Len(file)))
    /\ result' = None
    /\ UNCHANGED <<now, typed, attempt>>

\* The user reads the code off an authenticator, or mistypes it.
Type ==
    /\ attempt = None
    /\ \E skew \in Skews :
          /\ now + skew >= 0
          /\ \E code \in {totp_code(now + skew), None} :
                typed' = [code |-> code, time |-> now + skew]
    /\ result' = None
    /\ UNCHANGED <<now, seals, file, attempt>>

Ended(passphrase, err, opened) ==
    result' = [file |-> file, passphrase |-> passphrase, typed |-> typed, time |-> now,
               err |-> err, opened |-> opened]

\* decode_vault, and unseal_vault up to the derivation of the key, which takes
\* its time.
BeginUnlock(passphrase) ==
    LET blob == decode_vault(file)
    IN  /\ attempt = None
        /\ IF blob.err # "none"
           THEN Ended(passphrase, blob.err, None) /\ UNCHANGED attempt
           ELSE IF blob.version # VAULT_VERSION
           THEN Ended(passphrase, "UnsupportedVersion", None) /\ UNCHANGED attempt
           ELSE attempt' = [passphrase |-> passphrase, blob |-> blob] /\ result' = None
        /\ UNCHANGED <<now, seals, file, typed>>

\* The rest of unseal_vault.  The version is not authenticated: the payload may
\* be a later version's, which need not parse.
FinishUnlock ==
    /\ attempt # None
    /\ LET p == attempt.passphrase
           opened == aes_gcm_decrypt(pbkdf2_sha256(p, attempt.blob.salt), attempt.blob)
       IN  IF opened = {}
           THEN Ended(p, "DecryptionFailed", None)
           ELSE \E k \in opened :
                   \/ seals[k].version # VAULT_VERSION /\ Ended(p, "BadPayload", None)
                   \/ IF is_totp_code_valid(typed.code, now)
                      THEN Ended(p, "none", k)
                      ELSE Ended(p, "InvalidTotp", None)
    /\ attempt' = None
    /\ UNCHANGED <<now, seals, file, typed>>

Next ==
    \/ Tick
    \/ \E passphrase \in Passphrases, version \in {VAULT_VERSION, VAULT_VERSION + 1} :
          Seal(passphrase, version)
    \/ Type
    \/ \E passphrase \in Passphrases : BeginUnlock(passphrase)
    \/ FinishUnlock

Spec == Init /\ [][Next]_vars

---------------------------------------------------------------------------
(* Properties.                                                             *)

TypeOK ==
    /\ now \in 0..MaxTime
    /\ typed.time \in Nat /\ typed.code \in Nat \cup {None}
    /\ attempt # None => /\ attempt.passphrase \in Passphrases
                         /\ Len(attempt.blob.salt) = SALT_SIZE
                         /\ attempt.blob.nonce # None
    /\ result # None => result.opened \in DOMAIN seals \cup {None}

\* Whatever a torn write has left, decode_vault reports an error or finds every
\* part whole: its length check covers all the slices it takes.
DecodeIsTotal ==
    LET blob == decode_vault(file)
    IN  blob.err = "none" => /\ blob.salt # None
                             /\ blob.nonce # None

\* An identity comes out only of a file with all bytes of one vault, except
\* perhaps the version, with its passphrase and a code less than two steps from
\* its own time when the check is made: parts of two vaults never open as either
\* (unseal_vault).
OpensOnlyWithBoth ==
    result # None /\ result.opened # None =>
        /\ result.file = encode_vault(seal_vault(result.opened, VAULT_VERSION))
        /\ result.passphrase = seals[result.opened].passphrase
        /\ result.typed.code # None
        /\ result.time - result.typed.time \in 1 - 2 * DEFAULT_STEP .. 2 * DEFAULT_STEP - 1

\* With a whole file of this version, its passphrase and a code at most one step
\* old, or ahead, when the key has been derived, the vault opens; also in the
\* first seconds of 1970, where the window reaches below zero.
BothOpen ==
    result # None /\ result.opened = None =>
        \A k \in DOMAIN seals :
            /\ seals[k] = [passphrase |-> result.passphrase, version |-> VAULT_VERSION]
            /\ result.file = encode_vault(seal_vault(k, VAULT_VERSION))
            => \/ result.typed.code = None
               \/ result.time - result.typed.time \notin -DEFAULT_STEP .. DEFAULT_STEP
============================================================================
