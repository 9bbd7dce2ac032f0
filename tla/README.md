# TLA+ models and proofs for trino-core

trino-core is the protocol and cryptography core of a chat application: a pure
library of functions that take a state and bytes and return a state and bytes.
Nothing in it runs concurrently by itself. What makes it hard is what it is
used in: two devices that exchange messages through relays which delay, repeat,
reorder and lose them, devices that stay locked for weeks or crash between two
calls, and data saved by older versions of the crate. The models put the
library's functions in that environment.

## Inventory

| Part | State it keeps | Operations that change it | What makes it correct |
|---|---|---|---|
| Double Ratchet, `ratchet.rs` | `RatchetState`: root key, own key pair, peer key, two chain keys, three counters, the bank of skipped keys with its order list, the retired peer keys | `init_initiator`, `init_responder`, `ratchet_encrypt`, `ratchet_decrypt`, `drop` (`zeroize_secrets`), loading a session of an older version | only the peer's messages are opened, once each; a refused message changes nothing; no message is lost except to the cap on banked keys; used keys cannot be derived again; replays are recognised |
| Identity and prekeys, `identity.rs` | `Identity`: identity keys, current and retired signed prekeys, one-time prekeys | `create_identity`, `rotate_signed_prekey_if_due`, `consume_one_time_prekey` | a peer with a bundle from within the retention window gets through; expired private keys are gone; a one-time prekey is used once |
| Vault, `vault.rs` | the sealed identity, as a file | `seal_vault`, `encode_vault`, `decode_vault`, `unseal_vault` (with `legacy_retired_at`) | what is unsealed is what was sealed, with both factors; no file makes decoding fail otherwise than with an error; retirement times missing in old vaults are reconstructed |
| X3DH, `x3dh.rs` | none of its own; uses up one-time prekeys | `initiate`, `respond` | both ends derive the same secret and start their ratchets from the same prekey |
| Group rosters, `group.rs` | `GroupRoster`: members, admin, epoch, signature | `create_group`, `add_member`, `remove_member`, `set_group_name`, `set_group_photo`, `evaluate_incoming_roster` | no member goes back to an earlier epoch, changes admin or accepts what the admin did not send; every member bound its own keys |
| TOTP, `totp.rs` | none | `totp_code`, `is_totp_code_valid`, `to_base32` | a code is accepted within one step of its own, and only near it; the secret's text has all its bits |
| Call signals, `call_signal.rs` | none | `validate_call_signal` | only the fields a signal kind allows, within their sizes |
| Envelope, `envelope.rs` | none | `encode_envelope`, `decode_envelope` | decoding what was encoded, by this version or another, gives it back; anything else is text |
| Primitives, `crypto.rs` | none | AES-GCM, HKDF, PBKDF2, SHA-256 | assumed ideal |

How they interact: the application unseals the vault into an `Identity`, rotates
its signed prekey when due, seals again and publishes a `PublicBundle`. A peer
runs `initiate` on a bundle it may have cached long ago and sends the
`InitialMessage`; `respond` finds the prekey it names. Both sides then start a
ratchet from the master secret and that prekey, and every further message goes
through `ratchet_encrypt` and `ratchet_decrypt`. Envelopes, rosters and call
signals are plaintexts of those messages.

The hard behaviours are listed under `hazards` in `PROJECT.json`, each at the
line where it bites, with the properties below that would show it going wrong.

## Modules

| Module | Models | Notes |
|---|---|---|
| `RatchetOps` | every function of `ratchet.rs` | operators on a `RatchetState` record, each returning the state it leaves and the error it ends with |
| `Ratchet` | a session of two parties and the network between them | EXTENDS `RatchetOps`; holds the session's properties |
| `Channel` | what a session promises | the abstract specification `Ratchet` implements |
| `SkipLoop` | the loops of `skip_message_keys` and `evict_oldest_skipped_keys` | EXTENDS `RatchetOps`; justifies its closed form |
| `Handshake` | `identity.rs`, `vault.rs` and `x3dh.rs` around one account | |
| `GroupOps` | every function of `group.rs`, with `verify_bundle_binding` and what it needs of `identity.rs` | operators on rosters |
| `Group` | accounts that build, send and receive rosters | EXTENDS `GroupOps`; holds the properties |
| `RosterLog` | what the members of a group are promised | the abstract specification `Group` implements |
| `Unlock` | the file format and the two factors of `vault.rs`, the codes of `totp.rs` | |
| `Base32` | the loops of `to_base32` | |
| `Envelope` | `envelope.rs` between clients of different versions | |
| `Vectors` | `Vec::retain` | used by `RatchetOps`, `Handshake` and `GroupOps` |
| `VectorProofs` | | lemmas about `Vectors` and about lists without repetitions |
| `RatchetProofs`, `LostProofs` | | theorems about `Ratchet`; the second EXTENDS the first |
| `SkipLoopProofs` | | theorems about `SkipLoop` |
| `GroupProofs` | | theorems about `Group` |
| `HandshakeProofs` | | theorems about `Handshake` |
| `UnlockProofs` | | theorems about `Unlock` |
| `Base32Proofs` | | theorems about `Base32` |
| `MCRatchet`, `MCSkipLoop`, `MCHandshake`, `MCGroup`, `MCUnlock`, `MCFormats`, `MCEnvelope` | | the modules TLC is run on |

Definitions keep the names of the code. A definition whose comment begins
"Mutant" is a deliberately wrong version of the definition it precedes, used to
confirm that the property it is listed with in `PROJECT.json` would notice.

### Symbolic keys

Keys are terms. A key pair is named by its public half, the owner and a number.
A Diffie-Hellman output is the set of the two public keys. A root key is the
sequence of the outputs mixed into the X3DH secret so far, a chain key is the
root derivation it came from with the number of times `kdf_ck` was applied, and
a message key is named by the chain key it was derived from. Different
derivations give different keys, and `aes_gcm_decrypt` succeeds exactly on the
key, associated data and ciphertext that were sealed. Both are the usual
idealisation of HKDF and AES-GCM. The session's own associated data (the two
identity keys) is the same on both sides, as `Handshake` shows, and left out of
the messages. A low-order peer key, for which `x25519_derive_shared` returns
random bytes, is one of the keys "other" owns: a secret nobody else has.

### Ratchet

`st[p]` is the code's `RatchetState` of party `p`; `sent[p]` and `read[p]` are
logs of what `p` sealed and opened. Actions: `Encrypt` is `ratchet_encrypt`
(without a sending chain the code returns an error and changes nothing);
`Decrypt` is `ratchet_decrypt` of anything `OnTheWire`; `Upgrade` loads a
session without the two `serde(default)` lists; `Wipe` is the drop of a session,
which calls `zeroize_secrets`. `dropped` has the parties that did so. Their `st[p]`
is what stays in memory, and no operation is applied to it any more.

The network is a set that only grows: any message ever sent can be handed to
either party at any time, so loss, delay, reordering, duplication and
reflection to the sender are all there. With `Garbles` it also hands over
copies with one header field replaced, by other numbers, by keys in use, a key
nobody owns or bytes that are no key, and copies whose ciphertext nobody sealed.
`ratchet_decrypt` in the model is one step because in the code it is one call
on a `&mut` state; its inner mutations and the rollback are kept.

`Upgrade` is limited to sessions in which the older version's missing cap made
no difference yet, as at most `MAX_SKIPPED_KEYS` keys can have been banked; banks beyond the cap are start states of `SkipLoop`.

`adopt_unordered_skipped_keys` sorts keys of unknown age by their hex text.
The model takes one fixed order for them; no property depends on which.

### SkipLoop

`RatchetOps` states in one go what banking `n` keys, with eviction after each,
leaves. `SkipLoop` runs the loops of the code one iteration at a time, from
every small bank: complete, partial and empty order lists, banks within and
beyond the cap.

### Handshake

One account with its clock, the unlocked identity, the last sealed vault, and
the bundles it published. `Init` is the vault of an account that has
rotated up to `MaxOlder` times under an older version, which stored no retirement
times and may have kept none, some or all of its old keys; a new account is the
case of no rotation. Then, in any order: the clock advances, the account locks
or crashes (unsaved changes are gone), unlocks, rotates, seals, publishes, and
answers handshakes made from any bundle, with or without a one-time prekey.

The application's part is external and taken from what the crate asks of it:
`rotate_signed_prekey_if_due` returns true "so the caller knows to re-seal the
vault and republish its bundle", so `Publish` requires that the current prekey
is in the sealed vault. Bundles carry no one-time prekeys in this version
(`public_bundle_for`), but `respond` accepts them from other clients, which
`Respond` exercises with ids the account has, had and never had.

`Init` also has bundles from before `id_sig` in circulation, which `verify_bundle`
does not mind. It has none of keys that the older version dropped before their
window was over: `respond` refuses those, and nothing this version does can help.

### Group

`held[a][g]` is the roster account `a` stores for group `g`; `issued` is a log of
what the builders returned. Signatures are terms `[by, over]`: one verifies for
exactly the key and content it was made with. What is signed of a roster
(`roster_signing_bytes`) is the tuple of its fields with the members as a bag,
since the code sorts them, and the photo without its preview. Keys are compared
as hex text in the code, so a key in the model carries whether its text is the
canonical one, and `decode_32` drops that. Signatures have one spelling in the
model, so `member_is_bound` lacks the checks of their text.

The builders are actions of the accounts in `Creators`, each with its refusals:
`None` for a `GroupError`, and the unchanged roster that `add_member` returns for
somebody who is there already. `Receive` and `AcceptInvite` are the two
decisions of `evaluate_incoming_roster` that lead to a roster being stored; the
second waits for the user, so an invitation can be accepted at any later time,
also after a newer one. A rejected roster changes nothing.

What may arrive, and from whom, is in `Sent`: any account may send any roster ever
built, at any time and any number of times; whoever is not its admin may also
change it (`Altered`); and `OtherClients` sign rosters that this crate would not
build, with bundles that claim somebody else's key or spell it differently, under
the id of an existing group and with a high epoch. The pairwise session
authenticates the sender, as the comment on `evaluate_incoming_roster` says, which
is what `Ratchet` shows.

The application is external: it stores what the crate returns and sends it.
`Restore` is an admin who goes on from an older roster of its own, on a second
device or from a backup; only then can two rosters have the same epoch.

### Unlock

A file is a sequence of bytes, each named by the part and the vault it belongs to,
so that mixtures of two files can be told from either. `Seal` seals and writes; a
crash may leave any prefix of the new file, alone or over the old one, and the
vault may be one of a later version. Unlocking is two steps, `BeginUnlock` up to the
key derivation and `FinishUnlock` after it, with the clock running in between:
`is_totp_code_valid` looks at the clock in the second. The code was read from an
authenticator whose clock may differ. Codes of different steps are different; in
the code two of them agree with probability 10^-6. The seconds of the window are
computed modulo the word size, as the code's `as u64` does.

### Base32, Envelope

`Base32` runs `to_base32` one loop iteration at a time, with a 16-bit accumulator in
place of the 32-bit one, from every input of up to six bytes over three values.

In `Envelope` a JSON object is a function from keys to values. `Required` and
`Defaults` are the serde attributes of the enum; encoding leaves out what has its
default. Clients are of four kinds: from before envelopes, from before ids and
member signatures, this one, and a later one.

The two have nothing to do with each other; `MCFormats` puts them side by side for
one run.

## Runs

| Run | Configuration | Shows |
|---|---|---|
| `ratchet_core` | skip 2, bank 1, retired 1, four messages each way, garbling | `TypeOK`, `LostOnlyToTheCap`, `UsedKeysAreGone`, `RecentReplayIsReplay`, `ImplementsChannel` |
| `ratchet_reload` | skip 2, bank 1, retired 1, four messages each way, no garbling, both may reload an old session, the responder may drop its own | `LostOnlyToTheCap`, `BankOrder`, `UsedKeysAreGone`, `WipedHoldsNothing`, `ImplementsChannel` |
| `ratchet_live` | skip 1, bank 3, three messages each way, fair delivery | `EventuallyRead` |
| `ratchet_forgotten` | skip 1, bank 2, retired 1, three messages each way | `ReadIsReplay` does not hold |
| `skip_loop` | cap 2, three old keys, up to three keys skipped | `LoopComputesSkip`, `EndsWithinCap` |
| `handshake` | rotation after 2, retention 3, one one-time prekey, clock to 7, five keys, up to two rotations by an older version | `TypeOK`, `CachedBundleWorks`, `OpkUsedOnce`, `RotationExpires` |
| `handshake_legacy` | the same | `LegacyBundleRejected` does not hold |
| `group` | three accounts, one group with at most three members, five rosters built, two accounts with other clients | `TypeOK`, `LookupFindsOwner`, `ImplementsLog` |
| `group_fork` | three accounts, two group ids, at most two members, five rosters built, the admin goes back once, fair delivery of the newest roster | `OnlyIssued`, `NeverBack`, `Converges` |
| `unlock` | two passphrases, two seals, steps of three seconds, clock to 7, authenticators 2 behind to 4 ahead | `TypeOK`, `DecodeIsTotal`, `OpensOnlyWithBoth`, `BothOpen` |
| `formats` | for `Base32` six bytes of three values and a 16-bit accumulator; for `Envelope` one plain text, four texts that are JSON objects, every type | `WritesAllBits`, `ReadsWhatWasMeant` |
| `envelope_unknown` | the latter | `UnknownFieldsRejected` does not hold |

What the properties say:

- `ImplementsChannel`: every step of a session is a step of `Channel`. Only what
  the peer sealed is opened, at most once, and a header changed on the way, a
  reflected or a repeated message is never opened.
- `LostOnlyToTheCap`: an unread message that is refused, other than for the
  moment as `TooManySkipped`, had its key evicted, with at least
  `MAX_SKIPPED_KEYS` later messages handled by then and no older key kept in its
  stead. This is what the rollback, the banking before a Diffie-Hellman step
  and the eviction order are for.
- `BankOrder`: the bank and its order list agree, and the bank is within its cap.
- `UsedKeysAreGone`: no key a party still holds leads to the key of a message it
  has sent or read.
- `RecentReplayIsReplay`: a message that was read is refused as `Replay` while
  its chain is current or among the last `MAX_RETIRED_DH_KEYS` completed ones.
  It says nothing of a session loaded from an older version, which has no list of
  completed chains to start with.
- `WipedHoldsNothing`: from what drop leaves of a session no key of it can be had,
  neither of messages sent or read nor of those banked, in flight, or sealed by the
  peer afterwards.
- `EventuallyRead`: with a bank large enough, every message is read in the end.
- `CachedBundleWorks`: while a bundle's prekey is current or was so less than the
  retention time ago, `respond` finds that very key and agrees with `initiate`
  on secret, associated data and the ratchet's first key pair.
- `RotationExpires`: after a rotation call no retired key is past its window.
- `OpkUsedOnce`: a one-time prekey whose use was saved is gone for good, one used
  since is gone from memory. A crash before sealing brings the latter back; the
  crate leaves it to the application to seal in time.
- `ImplementsLog`: while its admin works from the newest roster, a group is a log.
  Every roster a member stores is, to the letter, one its creator built, later
  than the one before, and lists the member.
- `LookupFindsOwner`: in a stored roster the Diffie-Hellman key of a listed account
  that signs only its own keys is in that account's entry and in no other, in no
  spelling. It takes the member's own signature, the check for duplicates and the
  check for canonical text together. It is about listed accounts only: an identity
  can bind any Diffie-Hellman key, and the code accepts a roster in which one binds
  the key of an account that is not listed.
- `OnlyIssued`, `NeverBack`: the part of this that is left when the admin has gone
  back: nothing the admin did not build (unless it is one of `OtherClients`, who
  sign other things too), no step to an equal or earlier epoch.
- `Converges`: once a newest roster has no rival of the same epoch, everybody it
  lists who is in the group ends up with it, whatever else was lost, and
  whichever of two rosters of an epoch they had.
- `DecodeIsTotal`: no torn file makes `decode_vault` slice past the end.
- `OpensOnlyWithBoth`, `BothOpen`: the vault opens with its own passphrase and a code
  at most one step away when the check is made; never with one two steps away,
  never from a mixture of two files. The version byte is not authenticated:
  a torn write over a later version's file can change it, and the property
  says no more than that the payload was sealed in one piece.
- `WritesAllBits`: the text is the input in groups of five bits.
- `ReadsWhatWasMeant`: for each kind of client. Left out are bare text from before
  envelopes that is itself a valid envelope, which nothing can tell apart, and
  envelopes with fields this version does not know, which are the subject of
  `UnknownFieldsRejected`.

Bounds. The limits of the code (1000, 2000, 8) become 1 to 3, so that each is
hit within a few messages. Four messages each way allow three chains of each
party, a full list of retired keys and one forgotten, and a bank that overflows
with keys of two chains. In `ratchet_reload` they allow a key banked by the older
version, one banked since and the eviction that adopts the former. Garbled copies
are left to `ratchet_core` to keep that run small; copies of old chains, which a
reloaded session takes for new ones, exercise the rollback there as well.
`MaxHeader` is large enough to trip `MAX_SKIP` at the start of a chain. In `handshake`, retention is longer than rotation,
as in the code (30 and 2 days), so that several retired keys are alive at once,
and the clock runs long enough for two of them to expire. Five rosters are enough
to create a group, add, remove and add again a member who missed it all, and, in
`group_fork`, to build two rosters of one epoch and a later one; the limit of two
members there makes `add_member` refuse. In `group` accounts without a part of
their own are interchangeable, and the run uses that symmetry; `group_fork`,
which has a liveness property, does not. In `unlock` every prefix of both files
occurs, over a longer and a shorter file, and the clock starts at 0, where the
window reaches below zero.

Fairness. `ratchet_live` and `group_fork` need some. For `Converges` the admin's
application sends the newest roster to a member until it has arrived, as with any
message: weak fairness of `Receive` for the newest rosters only. Older rosters may
all be lost, nobody need accept an invitation, and the admin need not do anything
further. For `EventuallyRead` a relay keeps a message until the
application has acknowledged it, and the application retries, so an intact copy
that would be opened is delivered eventually: weak fairness of `Deliver` for
each message. Weak is enough because a message that can be opened stays so
until it is. Nothing makes a party send. The run has no garbling and a bank
that never overflows; without the latter messages are lost by design.

`SkipLoop` ends, so its run does not look for deadlocks. It assumes that a
running loop goes on.

### Three disagreements

`ratchet_forgotten` shows that a message of a completed chain is not always
"classified as a replay rather than mistaken for a new ratchet step", as the
repository's README says and the comment in `ratchet_decrypt_inner` repeats.
`dh_ratchet_step` remembers the last eight completed chains. A message of an
older one is taken for a new step, fails to authenticate and is rolled back, so
the session is unharmed and the message is not opened (`ImplementsChannel`), but
the error the application sees is not `Replay`.

`handshake_legacy` shows that a bundle without `id_sig` is not "rejected by
verify_bundle", as the comment on the field in `identity.rs` says. `verify_bundle`
checks the signed prekey only, and `initiate` calls nothing else. The check that
rejects such a bundle is `verify_bundle_binding`, which an application has to make
before it accepts a contact, and which `validate_roster` makes for group members.

`envelope_unknown` shows that an envelope with a field this version does not know is
decoded as if the field were not there. The repository's README lists the envelope
among the wire formats "with validation that rejects unknown fields and oversized
payloads"; of these only call signals have `deny_unknown_fields`. For clients of a
later version that adds a field the code's behaviour is the useful one, but it is
not what is written.

## Proofs

Every theorem holds for all values of the constants that satisfy the named
assumptions, and is checked to the last leaf.

| Theorem | Module | States |
|---|---|---|
| `Invariance` | `RatchetProofs` | `Spec => []Inv`, the invariant of the keys |
| `ForwardSecrecy` | `RatchetProofs` | `Spec => []UsedKeysAreGone` |
| `Refinement` | `RatchetProofs` | `Spec => ImplementsChannel` |
| `NothingIsLeft` | `RatchetProofs` | `Spec => []WipedHoldsNothing` |
| `ListsInvariance` | `RatchetProofs` | `Spec => [](Inv /\ BankedInv)`, the invariant of the lists |
| `TypeInvariance` | `RatchetProofs` | `Spec => []TypeOK` |
| `BankAgrees` | `RatchetProofs` | `Spec => []BankOrder` |
| `ReplaysAreRefused` | `RatchetProofs` | `Spec => []RecentReplayIsReplay` |
| `DeliveryInvariance` | `LostProofs` | `Spec => [](Inv /\ BankedInv /\ DeliveryInv)`, the invariant of delivery |
| `NothingElseIsLost` | `LostProofs` | `Spec => []LostOnlyToTheCap` |
| `LoopInvariance` | `SkipLoopProofs` | `Spec => []LoopInv` |
| `LoopsComputeSkip` | `SkipLoopProofs` | `Spec => []LoopComputesSkip` |
| `Invariance` | `GroupProofs` | `Spec => []Inv` |
| `TypeInvariance` | `GroupProofs` | `Spec => []TypeOK` |
| `StoresOnlyIssued` | `GroupProofs` | `Spec => []OnlyIssued` |
| `MembersNeverGoBack` | `GroupProofs` | `Spec => NeverBack` |
| `LookupByKey` | `GroupProofs` | `Spec => []LookupFindsOwner` |
| `GroupIsOneLog` | `GroupProofs` | `Spec => ImplementsLog`, if `MaxRestores = 0` and no creator is one of `OtherClients` |
| `Invariance` | `HandshakeProofs` | `Spec => []Inv` |
| `TypeInvariance` | `HandshakeProofs` | `Spec => []TypeOK` |
| `OneTimePrekeys` | `HandshakeProofs` | `Spec => []OpkUsedOnce` |
| `CachedBundles` | `HandshakeProofs` | `Spec => []CachedBundleWorks` |
| `ExpiredKeysGo` | `HandshakeProofs` | `Spec => RotationExpires` |
| `Invariance` | `UnlockProofs` | `Spec => []Inv` |
| `TypeInvariance` | `UnlockProofs` | `Spec => []TypeOK` |
| `DecodeTotal` | `UnlockProofs` | `Spec => []DecodeIsTotal` |
| `TwoFactors` | `UnlockProofs` | `Spec => []OpensOnlyWithBoth` |
| `TwoFactorsSuffice` | `UnlockProofs` | `Spec => []BothOpen` |
| `Base32Invariance` | `Base32Proofs` | `Spec => []Base32Inv` |
| `AllBitsAreWritten` | `Base32Proofs` | `Spec => []WritesAllBits` |

Assumptions. Limits, bounds and times are natural numbers (rotation time and step
length not zero). `None` is none of the values it is an alternative to. In `Unlock`
neither the clock nor an authenticator's comes within two steps of the end of a
`u64`. In `SkipLoop` the bank starts with finitely many keys (`OldIds`), and those of
the chain that is being forwarded are for messages already passed. In `Base32` the
accumulator has twelve bits or more (`WORD` is a multiple of 4096; 2^32 in the code).
`GroupIsOneLog` has two more hypotheses: admins go on from the newest roster,
and sign with this crate only. Without the first, two rosters can have the same
epoch and there is no log (`group_fork`); without the second an admin may send
rosters that nobody built. The configuration of `group` satisfies both.

### Vectors

The code filters vectors with `retain` in all three stateful parts. The models use
`retain` of `Vectors`, a recursive function, and not `SelectSeq`, of which the
provers know nothing. `VectorProofs` proves once what it leaves: the elements
that are kept, in their order, each as often as before. The induction is over sets
of natural numbers (`LeastNat`: a set of them has a least element), as the
induction rules of the library take an operator as their parameter.

### The keys of a session (`RatchetProofs`)

None of the properties is inductive: that a message was not read before does
not by itself say why its key could not be at hand again. `Inv` adds

- the shape of the state: the sending chain derives from the root key, the
  receiving chain from the one before it, and banked keys from chains the peer
  sends on, at positions already passed, each key under one id (`Safe`);
- whose key is whose: the parties extend the root key in turn, so the length of
  the derivation is odd for chains the initiator sends on and even for the
  responder's (`Parity`, `SealedBy`). That is why a reflected message never
  opens, without any check for it in the code;
- that used keys are behind: a sent message's key lies before the sending chain
  (`Passed`), a read one's before the receiving chain or on a completed one and
  not in the bank (`Gone`);
- that of the dropped sessions, and of no other, what `zeroize_secrets` leaves is
  there (`DroppedInv`, `Zeroed`), and that no key of a message derives from the zero
  root key (`Honest`).

The lemmas follow the functions of the code: what `skip_message_keys` may
change (`SkipShape`) and why it is safe (`SkipIsSafe`), the Diffie-Hellman step
(`StepIsSafe`), opening with the next key (`OpenIsSafe`) and with a banked one
(`SkippedIsSafe`), their composition (`ForwardIsSafe`, `DecryptIsSafe`), sealing
(`EncryptIsSafe`) and what is left of a dropped session (`ZeroedYieldsNothing`). `WireIsSent` is all
that is assumed of the network. From these `OnlyNewMessagesOpen` follows: what
opens was sealed by the peer and not read before; then one lemma per action.

### Its lists (`RatchetProofs`)

`BankedInv` has two parts. `BankInv` and `Complete` are about the bank: one key an
id, an order list without repetitions and within the map, no more keys than the
cap. They are kept by banking and eviction (`SkipKeepsBank`, `EvictKeeps`, with
`AdoptIs` for the keys of an older version) and by use (`SkippedKeepsBank`).

`Known` and `Remembers` are about places. Each party makes one key pair a chain, so
the number of a key pair follows from the length of the root key (`Numbered`), and
that of a message's key pair from the length its key was derived with
(`NumberedMessage`). Hence a message that opens on a chain other than the current
one is of the very next chain (`OpensNextChain`): a header cannot skip a chain. So
the list of completed chains has no gaps, and each place that was banked or read
is behind the receiving chain, never both. That a read message's key is not banked
again and its chain is in the list, the two things that the check in
`ratchet_decrypt_inner` depends on, follow.

### What is delivered (`LostProofs`)

The invariants so far say what a party does not open. That it opens everything
else has to relate the two states, as a message is refused when its receiver derives
another key than its sender did. `DeliveryInv` has, for the parties together,

- `Leads`: one of them made the last Diffie-Hellman step, and the other derives that
  party's next chain from the same root key;
- `InOrder` and `History`: messages are numbered without a gap within a chain, and the
  `pn` of a header is the length of the chain before. So a message has one place,
  chain and number, and `ratchet_decrypt_inner` banks exactly what is missing of the
  old chain before a step;

and for each party that has not dropped its session

- `Sending`: its counters are the numbers of what it sealed;
- `Receiving`: the key of each of the peer's messages is where it looks for it, ahead
  on the receiving chain, on the next chain, or in the bank under the message's place;
- `Evictions`: the order list goes from the oldest place to the youngest (`ByAge`), and
  a place it has come past is read, banked, or older than all that is banked with
  `MAX_SKIPPED_KEYS` younger places read or banked (`Capped`). The count can only
  grow: a place leaves the bank by being read, which keeps it in the count, or by
  eviction, and then at least the cap's number of younger ones stay behind.

`AheadOpens` and `BankedOpens` are the completeness that the keys alone do not give: an
unread message ahead or in the bank opens, or is `TooManySkipped`. So what is lost lies
behind and is not banked (`LostIsPast`), and `Capped` is the rest. A session of an older
version has no ages for its keys; for it the count is over all places, younger or not.

### The loops (`SkipLoopProofs`)

The theorems about a session are about the closed form of `skip_message_keys` in
`RatchetOps`. `LoopInv` says that the loops compute it: at the head of the loop the
bank and the list are the closed form up to the current number (`Skipped`); inside
`evict_oldest_skipped_keys` they lack the first `k` of the full list, for some `k` that
is not too large yet (`Evicting`, `Left`). It works because a new id is never in the
bank, so the list grows at its end and is eaten from its front, and the two do not
get in each other's way: dropping `k` keys now and some later drops a prefix of what
would have been there. Keys that the list did not know are adopted at the first
eviction and go to its front, and there are none later. When the loop of
the eviction ends, the bank is exactly at its cap, so `k` is what the closed form
drops.

### Groups

`GroupProofs!Inv` says what a stored or issued roster is: of the right shape and
valid (`Genuine`), stored under its own id and listing who stores it, issued unless
its admin is one of `OtherClients` (`HeldInv`); and whoever built a roster of a group
holds the group as its admin (`AdminInv`), so that nobody's invitation replaces
it. That an altered roster is rejected uses the signature over all fields for
most changes, and for a copy under another admin's name that the old signature is
not the new admin's. For the refinement `LogInv` adds that the rosters of a group are
one author's, with epochs that grow, and that the author holds the last. Then a stored
roster is at one position of the log, and each step maps to one of `RosterLog`.

### Handshakes

`HandshakeProofs!Inv`: ids and key pairs grow with every rotation (`Ordered`), so an
id in a cached bundle stands for one key pair; the retirement time of a retired
key, or the one `legacy_retired_at` reconstructs from the next key's creation, is
when it really was retired; and every bundle in circulation is served, within its
window, by the keys in memory and by those in the vault (`Serves`), as the crash may
come at any time. What is published is in the vault (`Published`), without which a
crash could bring the same id back with another key.

### Unlocking

`UnlockProofs!Inv`: a file is written from front to back, so what is foreign to a
vault is behind what is left of one, and the version and zero bytes stay in their
places (`FileInv`). A file whose parts are all of one vault is then that vault,
whole, which is why no mixture of two writes opens. The window of the one-time code
is arithmetic of quotients: times at most a step apart are in neighbouring steps,
and times in neighbouring steps are less than two apart. Within the first step the
offset of minus one step does wrap around, to the last steps of a `u64`; by the
assumption no authenticator is there, so nothing more is accepted.

### Base32

`Base32Inv`: what is written are the first groups of five bits, `5 * Len(out) + bits`
is the number of bits taken, and the bits that are not written yet are the low ones
of the accumulator (`LowBits`). The accumulator is never masked and wraps around; what
is lost then is a multiple of 4096, and at most twelve bits are ever waiting.

### Only model-checked

- `EventuallyRead`, `Converges` and `EndsWithinCap`: liveness, which the prover does not
  do.
- `ReadsWhatWasMeant`: the formats are a finite list, and the run goes through all of
  them; the only parameter is the set of plain texts. A proof would have to compare
  functions built with `@@` and `:>` with records field by field, and would repeat the
  enumeration.

## Not modelled

- Hex, JSON and binary encodings. A header whose key does not decode is a
  message with `dh = None`; a nonce or ciphertext that does not decode is refused
  like one that was not sealed, with the same rollback.
- `u32` counters: a chain would need 2^32 messages, ids 2^32 rotations.
- Use of a state after `zeroize_secrets`. The function is public, and the state it
  leaves can be called: its root key and private key are zeros, which everybody
  knows, so anyone could seal a message that such a state opens, and after that it
  has chains again. The crate calls it from `drop` only, after which there is nothing
  to call. No property is stated for an application that goes on using the state, and
  none would hold.
- A clock that runs backwards, and rotation with a time before the prekey's.
- Call signals. `validate_call_signal` is one stateless conjunction of limits; a model
  of it would have only itself to be compared with.
- `otpauth_uri` and `urlencode`: formatting of a label.
- The canonical JSON text that `roster_signing_bytes` signs: that different fields
  give different bytes is taken from JSON.
- `u64` epochs: a group would need 2^64 changes.
- What the application does with a second `InitialMessage` for a session it has, and
  everything else that is not in the crate: storage, transport, user interface.

## Plan

1. `RatchetOps`, `Ratchet`, `Channel`, `SkipLoop` and the proofs about the keys of a
   session: done.
2. `Handshake`, `GroupOps`, `Group`, `RosterLog`, `Unlock`, `Base32`, `Envelope`: done as
   models.
3. Proofs about `Group`, with the refinement of `RosterLog`, about `Handshake`, about
   `Unlock`, and about the lists of a session: done.
4. Proofs about the loops of `SkipLoop`, about what is delivered, and about `Base32`: done.
