------------------------------ MODULE GroupOps ------------------------------
(***************************************************************************)
(* The functions of src/src/group.rs as operators on rosters, with the     *)
(* bundle checks of src/src/identity.rs they use.                          *)
(*                                                                         *)
(* Signatures are symbolic: one verifies exactly for the key that made it  *)
(* and the content it was made over.  Keys travel as hex text and are      *)
(* compared as text, so a key carries whether its text is the canonical    *)
(* one; decoding drops that.  A member's handle and prekey id are labels   *)
(* of its bundle that no check looks at, and are left out.                 *)
(***************************************************************************)
EXTENDS Integers, Sequences, FiniteSets, SequencesExt, Vectors

CONSTANTS
    Accounts,           \* owners of identities
    MAX_GROUP_MEMBERS,  \* members of a roster (128 in the code)
    None                \* Option::None; a text that is no signature

ASSUME MembersAssumption == MAX_GROUP_MEMBERS \in Nat \ {0}

---------------------------------------------------------------------------
(* Keys, signatures and bundles.                                           *)

Kinds == {"ik_sign", "ik_dh", "nostr", "spk"}
KeyTexts == [kind : Kinds, of : Accounts, canonical : BOOLEAN]
Key(kind, a) == [kind |-> kind, of |-> a, canonical |-> TRUE]

decode_32(text) == <<text.kind, text.of>>
is_canonical_hex(text) == text.canonical

ed25519_sign(key, content) == [by |-> key, over |-> content]
ed25519_verify(key, content, sig) == sig = ed25519_sign(key, content)

identity_signing_bytes(ik_dh_pub, nostr_pub) == <<ik_dh_pub, nostr_pub>>

\* The bundle a itself hands out.
public_bundle_for(a) ==
    LET ik == decode_32(Key("ik_sign", a))
    IN  [ik_sign_pub |-> Key("ik_sign", a),
         ik_dh_pub |-> Key("ik_dh", a),
         nostr_pub |-> Key("nostr", a),
         spk_pub |-> Key("spk", a),
         spk_sig |-> ed25519_sign(ik, decode_32(Key("spk", a))),
         id_sig |-> ed25519_sign(ik, identity_signing_bytes(decode_32(Key("ik_dh", a)),
                                                            decode_32(Key("nostr", a))))]

verify_bundle(m) ==
    ed25519_verify(decode_32(m.ik_sign_pub), decode_32(m.spk_pub), m.spk_sig)

verify_bundle_binding(m) ==
    /\ verify_bundle(m)
    /\ ed25519_verify(decode_32(m.ik_sign_pub),
                      identity_signing_bytes(decode_32(m.ik_dh_pub), decode_32(m.nostr_pub)),
                      m.id_sig)

\* Mutant: the text of the Diffie-Hellman key may be any.
AnySpelling(m) == is_canonical_hex(m.ik_sign_pub) /\ verify_bundle_binding(m)

\* Signatures are terms and have one spelling, so the two checks of their text
\* (spk_sig, id_sig) are left out.
member_is_bound(m) ==
    /\ \A text \in {m.ik_sign_pub, m.ik_dh_pub, m.nostr_pub, m.spk_pub} : is_canonical_hex(text)
    /\ verify_bundle_binding(m)

---------------------------------------------------------------------------
(* Rosters.                                                                *)

\* What the admin signs: every field except the photo's thumbnail, the members
\* sorted, so that their order does not matter.
roster_signing_bytes(roster) ==
    [group_id |-> roster.group_id,
     name |-> roster.name,
     photo |-> IF roster.photo = None THEN None ELSE roster.photo.file,
     admin_pub |-> roster.admin_pub,
     members |-> ToBag(roster.members),
     epoch |-> roster.epoch]

is_member(roster, ik_sign_pub) ==
    \E m \in Range(roster.members) : m.ik_sign_pub = ik_sign_pub

\* No text is used twice, by two members or by one in two roles.
NoDuplicates(members) ==
    LET keys == [i \in DOMAIN members |->
                    <<members[i].ik_sign_pub, members[i].ik_dh_pub, members[i].nostr_pub>>]
    IN  \A i, j \in DOMAIN members : \A r, s \in 1..3 :
            keys[i][r] = keys[j][s] => i = j /\ r = s

SignatureVerifies(roster) ==
    ed25519_verify(decode_32(roster.admin_pub), roster_signing_bytes(roster), roster.signature)

\* Ok or one of the six RosterErrors, in the code's order; nothing depends on
\* which.
validate_roster(roster) ==
    /\ Len(roster.members) # 0
    /\ Len(roster.members) <= MAX_GROUP_MEMBERS
    /\ is_member(roster, roster.admin_pub)
    /\ NoDuplicates(roster.members)
    /\ \A m \in Range(roster.members) : member_is_bound(m)
    /\ SignatureVerifies(roster)

---------------------------------------------------------------------------
(* Building rosters.  None is a GroupError.                                *)

sign_unsigned(unsigned, admin) ==
    LET roster == [unsigned EXCEPT
                      !.signature = ed25519_sign(decode_32(Key("ik_sign", admin)),
                                                 roster_signing_bytes(unsigned))]
    IN  IF Len(unsigned.members) > MAX_GROUP_MEMBERS \/ ~validate_roster(roster)
        THEN None
        ELSE roster

create_group(admin, admin_bundle, group_id, name) ==
    sign_unsigned([group_id |-> group_id, name |-> name, photo |-> None,
                   admin_pub |-> admin_bundle.ik_sign_pub, members |-> <<admin_bundle>>,
                   epoch |-> 0, signature |-> None],
                  admin)

assert_admin(roster, admin) == roster.admin_pub = Key("ik_sign", admin)

\* A member who is there already is left as it is, bundle included.
add_member(roster, admin, member) ==
    IF ~assert_admin(roster, admin)
    THEN None
    ELSE IF is_member(roster, member.ik_sign_pub)
    THEN roster
    ELSE IF Len(roster.members) >= MAX_GROUP_MEMBERS
    THEN None
    ELSE sign_unsigned([roster EXCEPT !.members = Append(@, member), !.epoch = @ + 1], admin)

\* Mutant: the epoch goes the wrong way.
LowersEpoch(roster, admin, ik_sign_pub) ==
    LET others == {m \in Range(roster.members) : m.ik_sign_pub # ik_sign_pub}
    IN  IF ~assert_admin(roster, admin) \/ ik_sign_pub = roster.admin_pub
        THEN None
        ELSE sign_unsigned([roster EXCEPT !.members = retain(@, others), !.epoch = @ - 1], admin)

remove_member(roster, admin, ik_sign_pub) ==
    LET others == {m \in Range(roster.members) : m.ik_sign_pub # ik_sign_pub}
    IN  IF ~assert_admin(roster, admin) \/ ik_sign_pub = roster.admin_pub
        THEN None
        ELSE sign_unsigned([roster EXCEPT !.members = retain(@, others), !.epoch = @ + 1], admin)

set_group_name(roster, admin, name) ==
    IF ~assert_admin(roster, admin)
    THEN None
    ELSE sign_unsigned([roster EXCEPT !.name = name, !.epoch = @ + 1], admin)

set_group_photo(roster, admin, photo) ==
    IF ~assert_admin(roster, admin)
    THEN None
    ELSE sign_unsigned([roster EXCEPT !.photo = photo, !.epoch = @ + 1], admin)

---------------------------------------------------------------------------
(* Receiving rosters.                                                      *)

\* Mutants: any epoch will do; only the next one will; the admin may change.
AnyEpoch(current, incoming) ==
    /\ incoming.group_id = current.group_id
    /\ incoming.admin_pub = current.admin_pub

NextEpochOnly(current, incoming) ==
    /\ incoming.group_id = current.group_id
    /\ incoming.admin_pub = current.admin_pub
    /\ incoming.epoch = current.epoch + 1

AnyAdmin(current, incoming) ==
    /\ incoming.group_id = current.group_id
    /\ incoming.epoch > current.epoch

check_update_rules(current, incoming) ==
    /\ incoming.group_id = current.group_id
    /\ incoming.admin_pub = current.admin_pub
    /\ incoming.epoch > current.epoch

accept_roster_update(current, incoming) ==
    check_update_rules(current, incoming) /\ validate_roster(incoming)

\* Mutant: anybody may send.
AnySender(current, incoming, sender_ik_sign_pub, my_ik_sign_pub) ==
    IF ~validate_roster(incoming) \/ ~is_member(incoming, my_ik_sign_pub)
    THEN "Reject"
    ELSE IF current = None
    THEN "PendingInvite"
    ELSE IF check_update_rules(current, incoming) THEN "Accept" ELSE "Reject"

evaluate_incoming_roster(current, incoming, sender_ik_sign_pub, my_ik_sign_pub) ==
    IF \/ sender_ik_sign_pub # incoming.admin_pub
       \/ ~validate_roster(incoming)
       \/ ~is_member(incoming, my_ik_sign_pub)
    THEN "Reject"
    ELSE IF current = None
    THEN "PendingInvite"
    ELSE IF check_update_rules(current, incoming) THEN "Accept" ELSE "Reject"
============================================================================
