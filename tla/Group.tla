------------------------------- MODULE Group -------------------------------
(***************************************************************************)
(* Groups (src/src/group.rs) among accounts that send each other rosters.  *)
(*                                                                         *)
(* A roster travels inside a ratchet message, so its receiver knows which  *)
(* account it came from; apart from that it may arrive late, twice, out of *)
(* order or never, relayed by anyone, changed by whoever relays it, or     *)
(* made by a client that does not use the builders of this crate.          *)
(*                                                                         *)
(* The crate is pure: storing what it returns, sending it and asking the   *)
(* user about an invitation are the application's part, as the comments    *)
(* on evaluate_incoming_roster and RosterDecision ask of it.               *)
(***************************************************************************)
EXTENDS GroupOps

CONSTANTS
    Gids,          \* group ids that create_group may draw
    Creators,      \* accounts that create groups
    Name, Photo,   \* what set_group_name and set_group_photo set
    Alters,        \* whether who relays a roster changes it
    OtherClients,  \* accounts that also sign what this crate would not build
    MaxGroups,     \* bound: groups created
    MaxIssued,     \* bound: rosters built
    MaxRestores    \* bound: times an admin goes back to an earlier roster

ASSUME GroupAssumption ==
    /\ Creators \subseteq Accounts
    /\ Alters \in BOOLEAN
    /\ OtherClients \subseteq Accounts
    /\ MaxGroups \in Nat
    /\ MaxIssued \in Nat
    /\ MaxRestores \in Nat

VARIABLES
    held,     \* held[a][g]: the roster a stores for group g, or None
    issued,   \* the rosters the builders have returned, in order
    restores  \* how often an admin went back

vars == <<held, issued, restores>>

\* The rosters built for g, and the same in order.
Versions(g) == {r \in Range(issued) : r.group_id = g}
IssuedFor(g) == retain(issued, Versions(g))

Init ==
    /\ held = [a \in Accounts |-> [g \in Gids |-> None]]
    /\ issued = <<>>
    /\ restores = 0

---------------------------------------------------------------------------
(* What can arrive, and from whom.                                         *)

\* Copies with one part changed: the order and the thumbnail, which are not
\* signed; the photo, the epoch, the group or the admin; a member more; and
\* members without their own signatures, as roster v1 has them.
Altered(r) ==
         {[r EXCEPT !.members = Reverse(@)],
          [r EXCEPT !.photo = IF @ = None THEN None ELSE [@ EXCEPT !.thumb = None]],
          [r EXCEPT !.photo = None],
          [r EXCEPT !.epoch = @ + 1],
          [r EXCEPT !.members = [i \in DOMAIN @ |-> [@[i] EXCEPT !.id_sig = None]]]}
    \cup {[r EXCEPT !.group_id = g] : g \in Gids}
    \cup {[r EXCEPT !.admin_pub = Key("ik_sign", a)] : a \in Accounts}
    \cup {[r EXCEPT !.members = Append(@, public_bundle_for(a))] : a \in Accounts}

\* Bundles that give c's identity some Diffie-Hellman key, in any spelling, on
\* the word of s.
MadeUpBundle(c, k, s) ==
    [public_bundle_for(c) EXCEPT
        !.ik_dh_pub = k,
        !.id_sig = ed25519_sign(<<"ik_sign", s>>,
                                identity_signing_bytes(decode_32(k), <<"nostr", c>>))]

MadeUpBundles ==
    {MadeUpBundle(c, k, s) :
        c \in Accounts, k \in {t \in KeyTexts : t.kind = "ik_dh"}, s \in OtherClients}

\* Rosters with a high epoch that b signs as their admin, whatever is in them.
MadeUp(b, g, members) ==
    LET unsigned == [group_id |-> g, name |-> "", photo |-> None,
                     admin_pub |-> Key("ik_sign", b), members |-> members,
                     epoch |-> MaxIssued, signature |-> None]
    IN  [unsigned EXCEPT
            !.signature = ed25519_sign(<<"ik_sign", b>>, roster_signing_bytes(unsigned))]

MadeUpRosters ==
    {MadeUp(b, g, <<public_bundle_for(b), public_bundle_for(a), m>>) :
        b \in OtherClients, g \in Gids, a \in Accounts \ OtherClients, m \in MadeUpBundles}

\* The rosters that a sends: any it has seen, as it was or, when not its own,
\* changed; and what it makes up.
Sent(a) ==
    LET others == {r \in Range(issued) : Alters /\ r.admin_pub # Key("ik_sign", a)}
    IN       Range(issued)
        \cup (UNION {Altered(r) : r \in others})
        \cup {r \in MadeUpRosters : r.admin_pub = Key("ik_sign", a)}

---------------------------------------------------------------------------
(* The admin's operations.                                                 *)

\* The application stores what a builder returned, and sends it; after an error
\* or when nothing has changed there is nothing to store.
Build(a, g, roster) ==
    /\ Len(issued) < MaxIssued
    /\ roster # None
    /\ roster # held[a][g]
    /\ held' = [held EXCEPT ![a][g] = roster]
    /\ issued' = Append(issued, roster)
    /\ UNCHANGED restores

\* A group id is 32 random bytes: no other group has it.
CreateGroup(a, g) ==
    /\ Cardinality({h \in Gids : Versions(h) # {}}) < MaxGroups
    /\ \A b \in Accounts : held[b][g] = None
    /\ Build(a, g, create_group(a, public_bundle_for(a), g, ""))

AddMember(a, g) ==
    /\ held[a][g] # None
    /\ \E m \in {public_bundle_for(b) : b \in Accounts} \cup MadeUpBundles :
          Build(a, g, add_member(held[a][g], a, m))

RemoveMember(a, g) ==
    /\ held[a][g] # None
    /\ \E b \in Accounts : Build(a, g, remove_member(held[a][g], a, Key("ik_sign", b)))

SetName(a, g) == held[a][g] # None /\ Build(a, g, set_group_name(held[a][g], a, Name))

SetPhoto(a, g) ==
    /\ held[a][g] # None
    /\ \E photo \in {Photo, None} : Build(a, g, set_group_photo(held[a][g], a, photo))

\* The admin goes on from an older roster of its own: a backup, or a device
\* that has not seen the last changes.
Restore(a, g) ==
    /\ restores < MaxRestores
    /\ held[a][g] # None
    /\ \E r \in Versions(g) :
          /\ assert_admin(r, a)
          /\ r.epoch < held[a][g].epoch
          /\ held' = [held EXCEPT ![a][g] = r]
    /\ restores' = restores + 1
    /\ UNCHANGED issued

---------------------------------------------------------------------------
(* Receiving.                                                              *)

Decision(b, a, r) ==
    evaluate_incoming_roster(held[b][r.group_id], r, Key("ik_sign", a), Key("ik_sign", b))

Store(b, r) ==
    /\ held' = [held EXCEPT ![b][r.group_id] = r]
    /\ UNCHANGED <<issued, restores>>

\* b applies r, which a sent, at once.
Receive(b, a, r) == Decision(b, a, r) = "Accept" /\ Store(b, r)

\* b's user accepts an invitation; it may have arrived long ago, and others
\* since.  As long as b does not hold the group the decision is still the one
\* it was when the invitation came.
AcceptInvite(b, a, r) == Decision(b, a, r) = "PendingInvite" /\ Store(b, r)

Next ==
    \/ \E a \in Creators, g \in Gids :
          \/ CreateGroup(a, g)
          \/ AddMember(a, g)
          \/ RemoveMember(a, g)
          \/ SetName(a, g)
          \/ SetPhoto(a, g)
          \/ Restore(a, g)
    \/ \E b \in Accounts : \E a \in Accounts \ {b} : \E r \in Sent(a) :
          Receive(b, a, r) \/ AcceptInvite(b, a, r)

Spec == Init /\ [][Next]_vars

\* The newest rosters of a group: one, unless its admin went back.
Newest(g) ==
    {r \in Versions(g) : \A s \in Versions(g) : s.epoch <= r.epoch}

\* The admin's application sends the newest roster until it has arrived; older
\* rosters may all be lost, and nobody need accept an invitation.
Fairness ==
    \A b \in Accounts, g \in Gids :
        WF_vars(\E a \in Accounts \ {b} : \E r \in Newest(g) :
                    assert_admin(r, a) /\ Receive(b, a, r))

LiveSpec == Spec /\ Fairness

---------------------------------------------------------------------------
(* Properties.                                                             *)

\* A stored roster is for the group it is stored under, lists who stores it,
\* and has members and an epoch within the code's bounds.
TypeOK ==
    /\ \A a \in Accounts, g \in Gids :
          \/ held[a][g] = None
          \/ /\ held[a][g].group_id = g
             /\ is_member(held[a][g], Key("ik_sign", a))
             /\ Len(held[a][g].members) \in 1..MAX_GROUP_MEMBERS
             /\ held[a][g].epoch \in Nat
    /\ Len(issued) <= MaxIssued
    /\ restores \in 0..MaxRestores

\* The position in a group's log of a stored roster: none if another's group
\* has the same id, and one past the end if the creator did not build it.
PositionIn(log, roster) ==
    IF roster = None \/ log = <<>>
    THEN 0
    ELSE IF roster.admin_pub # log[1].admin_pub
    THEN 0
    ELSE IF \E k \in DOMAIN log : log[k] = roster
    THEN CHOOSE k \in DOMAIN log : log[k] = roster
    ELSE Len(log) + 1

Position(a, g) == PositionIn(IssuedFor(g), held[a][g])

Log == INSTANCE RosterLog WITH
    Groups <- Gids,
    Followers <- Accounts,
    Lists <- LAMBDA r, a : is_member(r, Key("ik_sign", a)),
    log <- [g \in Gids |-> IssuedFor(g)],
    at <- [a \in Accounts |-> [g \in Gids |-> Position(a, g)]]

\* While its admin works from the newest roster, a group is one log: what
\* evaluate_incoming_roster lets a member store is always, to the letter, a
\* roster the creator built, later than the one before and listing the member,
\* whoever sent what in which order.
ImplementsLog == Log!Spec

\* Clients look contacts up by the keys a roster gives them, so in a stored
\* roster the key of a listed account that signs only its own stands in its own
\* entry and in no other, in no spelling (validate_roster, member_is_bound).
\* Nothing keeps another identity from binding the key of an account that is not
\* listed.
LookupFindsOwner ==
    \A a \in Accounts, g \in Gids : held[a][g] # None =>
        LET m == held[a][g].members
        IN  \A i, j \in DOMAIN m :
                LET c == m[i].ik_sign_pub.of
                IN  c \notin OtherClients =>
                        (decode_32(m[j].ik_dh_pub) = <<"ik_dh", c>> <=> i = j)

\* Even when the admin has gone back, a member stores nothing that the admin of
\* its group did not build, photo preview and order included, unless that admin
\* is one of those who also sign what they did not build here.
OnlyIssued ==
    \A a \in Accounts, g \in Gids :
        \/ held[a][g] \in Versions(g) \cup {None}
        \/ held[a][g].admin_pub.of \in OtherClients

\* No roster, however late or often it comes, takes a member back to an earlier
\* version or from one of two versions of an epoch to the other.
NeverBack ==
    [][\A a \in Accounts, g \in Gids :
          held[a][g] # None /\ ~assert_admin(held[a][g], a) /\ held'[a][g] # held[a][g] =>
              /\ held'[a][g].epoch > held[a][g].epoch
              /\ held'[a][g].admin_pub = held[a][g].admin_pub
              /\ accept_roster_update(held[a][g], held'[a][g])]_vars

\* Whatever was lost, and whichever of the versions of an epoch a member had,
\* the newest roster alone brings everybody it lists to the same version.
Converges ==
    <>[](\A g \in Gids : \A r \in Newest(g) : \A b \in Accounts :
            /\ Newest(g) = {r}
            /\ is_member(r, Key("ik_sign", b))
            /\ ~assert_admin(r, b)
            /\ held[b][g] # None
            => held[b][g] = r)
============================================================================
