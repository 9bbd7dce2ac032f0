---------------------------- MODULE GroupProofs ----------------------------
(***************************************************************************)
(* Proofs about the groups of module Group, for all accounts, group ids,   *)
(* clients and bounds.                                                     *)
(***************************************************************************)
EXTENDS Group, VectorProofs

---------------------------------------------------------------------------
(* The inductive invariant.                                                *)

\* Bundles that can get into a roster.
Bundles == {public_bundle_for(b) : b \in Accounts} \cup MadeUpBundles

AdminKeys == {Key("ik_sign", a) : a \in Accounts}

\* A roster of the shape that every client gives it; name, photo and signature
\* may be anything.
Shaped(r) ==
    r \in [group_id : Gids, name : {r.name}, photo : {r.photo}, admin_pub : AdminKeys,
           members : Seq(Bundles), epoch : Nat, signature : {r.signature}]

\* A table of rosters, one or None for every account and group.
Table(f) == f = [b \in Accounts |-> [h \in Gids |-> f[b][h]]]

\* A roster that a member may store.
Genuine(r) == Shaped(r) /\ validate_roster(r)

\* a stores a roster of g that lists it, and that its admin built unless the
\* admin also signs what is not built here.
HeldInv(a, g) ==
    \/ held[a][g] = None
    \/ /\ Genuine(held[a][g])
       /\ held[a][g].group_id = g
       /\ is_member(held[a][g], Key("ik_sign", a))
       /\ held[a][g] \in Range(issued) \/ held[a][g].admin_pub.of \in OtherClients

\* Whoever has built a roster of a group holds the group as its admin.
AdminInv ==
    \A r \in Range(issued) : \A a \in Accounts :
        assert_admin(r, a) =>
            held[a][r.group_id] # None /\ assert_admin(held[a][r.group_id], a)

Inv ==
    /\ Table(held)
    /\ issued \in Seq(Range(issued))
    /\ Len(issued) <= MaxIssued
    /\ restores \in 0..MaxRestores
    /\ \A r \in Range(issued) : Genuine(r) /\ r # None
    /\ \A a \in Accounts, g \in Gids : HeldInv(a, g)
    /\ AdminInv

---------------------------------------------------------------------------
(* The builders.                                                           *)

\* sign_unsigned returns a roster that validates, or None.
LEMMA SignUnsigned ==
    ASSUME NEW u, Shaped(u), NEW a, NEW r, r = sign_unsigned(u, a), r # None
    PROVE  /\ Genuine(r)
           /\ r.group_id = u.group_id
           /\ r.admin_pub = u.admin_pub
           /\ r.epoch = u.epoch
           /\ r.members = u.members
<1> DEFINE sig == ed25519_sign(decode_32(Key("ik_sign", a)), roster_signing_bytes(u))
           s == [u EXCEPT !.signature = sig]
<1>1. r = s /\ validate_roster(s)
  BY Zenon DEF sign_unsigned
<1> HIDE DEF sig
<1>2. /\ Shaped(s)
      /\ s.group_id = u.group_id
      /\ s.admin_pub = u.admin_pub
      /\ s.epoch = u.epoch
      /\ s.members = u.members
  BY DEF Shaped
<1> QED BY <1>1, <1>2 DEF Genuine

\* What the admin a makes of the roster old of its group: the same or the next
\* version.
NextVersion(a, old, r) ==
    /\ Genuine(r)
    /\ assert_admin(old, a)
    /\ assert_admin(r, a)
    /\ r.group_id = old.group_id
    /\ r = old \/ r.epoch = old.epoch + 1

LEMMA PublicBundle ==
    ASSUME NEW a \in Accounts
    PROVE  public_bundle_for(a) \in Bundles /\ public_bundle_for(a).ik_sign_pub = Key("ik_sign", a)
BY DEF Bundles, public_bundle_for

LEMMA CreateBuilds ==
    ASSUME NEW a \in Accounts, NEW g \in Gids, NEW name, NEW r,
           r = create_group(a, public_bundle_for(a), g, name), r # None
    PROVE  Genuine(r) /\ r.group_id = g /\ assert_admin(r, a)
<1> DEFINE m == public_bundle_for(a)
           u == [group_id |-> g, name |-> name, photo |-> None, admin_pub |-> m.ik_sign_pub,
                 members |-> <<m>>, epoch |-> 0, signature |-> None]
<1>1. r = sign_unsigned(u, a)
  BY Zenon DEF create_group
<1>2. m \in Bundles /\ m.ik_sign_pub = Key("ik_sign", a) /\ m.ik_sign_pub \in AdminKeys
  BY PublicBundle DEF AdminKeys
<1> HIDE DEF m
<1>3. <<m>> \in Seq(Bundles)
  BY <1>2
<1>4. Shaped(u) /\ u.group_id = g /\ u.admin_pub = Key("ik_sign", a)
  BY <1>2, <1>3 DEF Shaped
<1> HIDE DEF u
<1> QED BY <1>1, <1>4, SignUnsigned DEF assert_admin

LEMMA AddBuilds ==
    ASSUME NEW old, Genuine(old), NEW a, NEW m \in Bundles, NEW r,
           r = add_member(old, a, m), r # None
    PROVE  NextVersion(a, old, r)
<1> DEFINE u == [old EXCEPT !.members = Append(@, m), !.epoch = @ + 1]
<1>1. assert_admin(old, a) /\ (r = old \/ r = sign_unsigned(u, a))
  BY Zenon DEF add_member
<1>2. CASE r = old
  BY <1>1, <1>2 DEF NextVersion
<1>3. CASE r = sign_unsigned(u, a)
  <2>1. Append(old.members, m) \in Seq(Bundles)
    BY DEF Genuine, Shaped
  <2>2. Shaped(u) /\ u.group_id = old.group_id /\ u.admin_pub = old.admin_pub
        /\ u.epoch = old.epoch + 1
    <3>1. Shaped(old) /\ old.epoch + 1 \in Nat
      BY DEF Genuine, Shaped
    <3> QED BY <2>1, <3>1 DEF Shaped
  <2> HIDE DEF u
  <2> QED BY <1>1, <1>3, <2>2, SignUnsigned DEF NextVersion, assert_admin
<1> QED BY <1>1, <1>2, <1>3

LEMMA RemoveBuilds ==
    ASSUME NEW old, Genuine(old), NEW a, NEW key, NEW r,
           r = remove_member(old, a, key), r # None
    PROVE  NextVersion(a, old, r)
<1> DEFINE others == {m \in Range(old.members) : m.ik_sign_pub # key}
           rest == retain(old.members, others)
           u == [old EXCEPT !.members = rest, !.epoch = @ + 1]
<1>1. assert_admin(old, a) /\ r = sign_unsigned(u, a)
  BY Zenon DEF remove_member
<1>2. rest \in Seq(Bundles)
  <2>1. old.members \in Seq(Bundles)
    BY DEF Genuine, Shaped
  <2> QED BY <2>1, RetainRange
<1> HIDE DEF rest
<1>3. Shaped(u) /\ u.group_id = old.group_id /\ u.admin_pub = old.admin_pub
      /\ u.epoch = old.epoch + 1
  <2>1. Shaped(old) /\ old.epoch + 1 \in Nat
    BY DEF Genuine, Shaped
  <2> QED BY <1>2, <2>1 DEF Shaped
<1> HIDE DEF u
<1> QED BY <1>1, <1>3, SignUnsigned DEF NextVersion, assert_admin

LEMMA NameBuilds ==
    ASSUME NEW old, Genuine(old), NEW a, NEW name, NEW r,
           r = set_group_name(old, a, name), r # None
    PROVE  NextVersion(a, old, r)
<1> DEFINE u == [old EXCEPT !.name = name, !.epoch = @ + 1]
<1>1. assert_admin(old, a) /\ r = sign_unsigned(u, a)
  BY Zenon DEF set_group_name
<1>2. Shaped(u) /\ u.group_id = old.group_id /\ u.admin_pub = old.admin_pub
      /\ u.epoch = old.epoch + 1
  <2>1. Shaped(old) /\ old.epoch + 1 \in Nat
    BY DEF Genuine, Shaped
  <2> QED BY <2>1 DEF Shaped
<1> HIDE DEF u
<1> QED BY <1>1, <1>2, SignUnsigned DEF NextVersion, assert_admin

LEMMA PhotoBuilds ==
    ASSUME NEW old, Genuine(old), NEW a, NEW photo, NEW r,
           r = set_group_photo(old, a, photo), r # None
    PROVE  NextVersion(a, old, r)
<1> DEFINE u == [old EXCEPT !.photo = photo, !.epoch = @ + 1]
<1>1. assert_admin(old, a) /\ r = sign_unsigned(u, a)
  BY Zenon DEF set_group_photo
<1>2. Shaped(u) /\ u.group_id = old.group_id /\ u.admin_pub = old.admin_pub
      /\ u.epoch = old.epoch + 1
  <2>1. Shaped(old) /\ old.epoch + 1 \in Nat
    BY DEF Genuine, Shaped
  <2> QED BY <2>1 DEF Shaped
<1> HIDE DEF u
<1> QED BY <1>1, <1>2, SignUnsigned DEF NextVersion, assert_admin

---------------------------------------------------------------------------
(* What arrives.                                                           *)

\* A roster that somebody else has changed is rejected: it comes from its admin
\* only if it is a copy of another's, whose signature is not the new admin's.
LEMMA AlteredIsRejected ==
    ASSUME NEW r, Genuine(r), NEW a \in Accounts, r.admin_pub # Key("ik_sign", a),
           NEW s \in Altered(r)
    PROVE  s.admin_pub # Key("ik_sign", a) \/ ~validate_roster(s)
<1>1. CASE s.admin_pub = r.admin_pub
  BY <1>1
<1>2. CASE \E b \in Accounts : s = [r EXCEPT !.admin_pub = Key("ik_sign", b)]
  <2> SUFFICES ASSUME s.admin_pub = Key("ik_sign", a) PROVE ~SignatureVerifies(s)
    BY DEF validate_roster
  <2>1. s.signature = r.signature
    BY <1>2 DEF Genuine, Shaped
  <2>2. PICK b \in Accounts : r.admin_pub = Key("ik_sign", b)
    BY DEF Genuine, Shaped, AdminKeys
  <2>3. r.signature = ed25519_sign(<<"ik_sign", b>>, roster_signing_bytes(r))
    BY <2>2 DEF Genuine, validate_roster, SignatureVerifies, ed25519_verify, decode_32, Key
  <2>4. r.signature.by = <<"ik_sign", b>>
    BY <2>3 DEF ed25519_sign
  <2>5. a # b
    BY <2>2
  <2>6. SignatureVerifies(s) => s.signature.by = <<"ik_sign", a>>
    BY DEF SignatureVerifies, ed25519_verify, ed25519_sign, decode_32, Key
  <2> QED BY <2>1, <2>4, <2>5, <2>6
<1>3. s.admin_pub = r.admin_pub \/ \E b \in Accounts : s = [r EXCEPT !.admin_pub = Key("ik_sign", b)]
  BY DEF Altered, Genuine, Shaped
<1> QED BY <1>1, <1>2, <1>3

\* What other clients make up has the shape, and one of them is its admin.
LEMMA MadeUpIsShaped ==
    ASSUME NEW r \in MadeUpRosters
    PROVE  Shaped(r) /\ r.admin_pub.of \in OtherClients
<1>1. PICK b \in OtherClients, g \in Gids, a \in Accounts \ OtherClients, m \in MadeUpBundles :
         r = MadeUp(b, g, <<public_bundle_for(b), public_bundle_for(a), m>>)
  BY SMTT(60) DEF MadeUpRosters
<1> DEFINE ms == <<public_bundle_for(b), public_bundle_for(a), m>>
           u == [group_id |-> g, name |-> "", photo |-> None, admin_pub |-> Key("ik_sign", b),
                 members |-> ms, epoch |-> MaxIssued, signature |-> None]
<1>2. ms \in Seq(Bundles)
  <2>1. b \in Accounts /\ a \in Accounts
    BY GroupAssumption
  <2>2. public_bundle_for(b) \in Bundles /\ public_bundle_for(a) \in Bundles /\ m \in Bundles
    BY <2>1, PublicBundle DEF Bundles
  <2> QED BY <2>2
<1> HIDE DEF ms
<1>3. Key("ik_sign", b) \in AdminKeys /\ Key("ik_sign", b).of = b
  BY GroupAssumption DEF AdminKeys, Key
<1>4. Shaped(u) /\ u.admin_pub.of = b
  BY <1>2, <1>3, GroupAssumption DEF Shaped
<1> HIDE DEF u
<1>5. PICK sig : r = [u EXCEPT !.signature = sig]
  BY <1>1, Zenon DEF ms, u, MadeUp
<1> QED BY <1>4, <1>5 DEF Shaped

\* A roster that is not rejected is one that its admin a built or, if a is a
\* client that does so, made up; and it lists its receiver.
LEMMA NotRejected ==
    ASSUME Inv, NEW a \in Accounts, NEW b \in Accounts, NEW r \in Sent(a), NEW current,
           evaluate_incoming_roster(current, r, Key("ik_sign", a), Key("ik_sign", b)) # "Reject"
    PROVE  /\ Genuine(r)
           /\ assert_admin(r, a)
           /\ is_member(r, Key("ik_sign", b))
           /\ r \in Range(issued) \/ r.admin_pub.of \in OtherClients
<1>1. r.admin_pub = Key("ik_sign", a) /\ validate_roster(r) /\ is_member(r, Key("ik_sign", b))
  BY DEF evaluate_incoming_roster
<1>2. CASE r \in Range(issued)
  BY <1>1, <1>2 DEF Inv, assert_admin
<1>3. CASE r \in MadeUpRosters
  BY <1>1, <1>3, MadeUpIsShaped DEF Genuine, assert_admin
<1>4. ASSUME NEW s \in Range(issued), s.admin_pub # Key("ik_sign", a), r \in Altered(s)
      PROVE  FALSE
  <2>1. Genuine(s)
    BY DEF Inv
  <2> QED BY <1>1, <1>4, <2>1, AlteredIsRejected
<1>5. \/ r \in Range(issued)
      \/ r \in MadeUpRosters
      \/ \E s \in Range(issued) : s.admin_pub # Key("ik_sign", a) /\ r \in Altered(s)
  BY DEF Sent
<1> QED BY <1>2, <1>3, <1>4, <1>5

\* "Accept" only within the rules for updates, "PendingInvite" only for a group
\* that is not there yet.
LEMMA Decided ==
    ASSUME NEW current, NEW r, NEW sender, NEW me
    PROVE  LET d == evaluate_incoming_roster(current, r, sender, me)
           IN  /\ d = "Accept" => current # None /\ accept_roster_update(current, r)
               /\ d = "PendingInvite" => current = None
BY DEF evaluate_incoming_roster, accept_roster_update

---------------------------------------------------------------------------
(* Invariance.                                                             *)

\* f2 is f with r stored for a and g.
Stored(f, f2, a, g, r) == f2 = [f EXCEPT ![a][g] = r]

\* Every other entry stays.
LEMMA Entry ==
    ASSUME NEW f, Table(f), NEW a \in Accounts, NEW g \in Gids, NEW r, NEW f2,
           Stored(f, f2, a, g, r)
    PROVE  /\ Table(f2)
           /\ f2[a][g] = r
           /\ \A b \in Accounts, h \in Gids : b # a \/ h # g => f2[b][h] = f[b][h]
<1> DEFINE e == [b \in Accounts |-> [h \in Gids |-> IF b = a /\ h = g THEN r ELSE f[b][h]]]
<1>1. f2 = e
  BY DEF Table, Stored
<1>2. ASSUME NEW b \in Accounts, NEW h \in Gids
      PROVE  e[b][h] = IF b = a /\ h = g THEN r ELSE f[b][h]
  OBVIOUS
<1>3. e = [b \in Accounts |-> [h \in Gids |-> e[b][h]]]
  <2>1. \A b \in Accounts : e[b] = [h \in Gids |-> e[b][h]]
    BY <1>2
  <2>2. e = [b \in Accounts |-> e[b]]
    OBVIOUS
  <2> HIDE DEF e
  <2> QED BY <2>1, <2>2
<1> HIDE DEF e
<1> QED BY <1>1, <1>2, <1>3 DEF Table

\* The roster is stored and issued.
LEMMA BuildInv ==
    ASSUME Inv, NEW a \in Accounts, NEW g \in Gids, NEW r, Build(a, g, r),
           Genuine(r), r.group_id = g, assert_admin(r, a)
    PROVE  Inv'
<1>1. /\ held' = [held EXCEPT ![a][g] = r]
      /\ issued' = Append(issued, r)
      /\ Len(issued) < MaxIssued
      /\ restores' = restores
  BY DEF Build
<1>2. /\ Table(held')
      /\ held'[a][g] = r
      /\ \A b \in Accounts, h \in Gids : b # a \/ h # g => held'[b][h] = held[b][h]
  <2>1. Table(held) /\ Stored(held, held', a, g, r)
    BY <1>1 DEF Inv, Stored
  <2> QED BY <2>1, Entry
<1>3. Range(issued') = Range(issued) \cup {r} /\ issued' \in Seq(Range(issued'))
      /\ Len(issued') <= MaxIssued
  <2> DEFINE S == Range(issued) \cup {r}
  <2>1. issued \in Seq(S) /\ r \in S /\ Len(issued) \in Nat
    BY DEF Inv
  <2>2. Range(issued') = S
    BY <1>1, <2>1, RangeAppend
  <2>3. issued' \in Seq(S) /\ Len(issued') = Len(issued) + 1
    BY <1>1, <2>1
  <2>4. Len(issued') <= MaxIssued
    BY <1>1, <2>1, <2>3, GroupAssumption
  <2> QED BY <2>2, <2>3, <2>4
<1>4. is_member(r, Key("ik_sign", a))
  BY DEF Genuine, validate_roster, assert_admin
<1>5. ASSUME NEW b \in Accounts, NEW h \in Gids PROVE HeldInv(b, h)'
  <2>1. CASE b = a /\ h = g
    BY <1>2, <1>3, <1>4, <2>1 DEF HeldInv
  <2>2. CASE b # a \/ h # g
    <3>1. HeldInv(b, h) /\ held'[b][h] = held[b][h]
      BY <1>2, <2>2 DEF Inv
    <3> QED BY <1>3, <3>1 DEF HeldInv
  <2> QED BY <2>1, <2>2
<1>6. AdminInv'
  <2> SUFFICES ASSUME NEW s \in Range(issued'), NEW b \in Accounts, assert_admin(s, b)
               PROVE  held'[b][s.group_id] # None /\ assert_admin(held'[b][s.group_id], b)
    BY DEF AdminInv
  <2>1. s.group_id \in Gids
    BY <1>3 DEF Inv, Genuine, Shaped
  <2>2. CASE b = a /\ s.group_id = g
    BY <1>2, <2>2 DEF Build
  <2>3. CASE s = r
    <3>1. b = a
      BY <2>3 DEF assert_admin, Key
    <3> QED BY <2>2, <2>3, <3>1
  <2>4. CASE s \in Range(issued) /\ (b # a \/ s.group_id # g)
    <3>1. held[b][s.group_id] # None /\ assert_admin(held[b][s.group_id], b)
      BY <2>4 DEF Inv, AdminInv
    <3> QED BY <1>2, <2>1, <2>4, <3>1
  <2> QED BY <1>3, <2>2, <2>3, <2>4
<1>7. \A s \in Range(issued') : Genuine(s) /\ s # None
  BY <1>3 DEF Inv, Build
<1> QED BY <1>1, <1>2, <1>3, <1>5, <1>6, <1>7 DEF Inv

\* Whatever builds on a stored roster.
LEMMA NextVersionInv ==
    ASSUME Inv, NEW a \in Accounts, NEW g \in Gids, held[a][g] # None, NEW r,
           Build(a, g, r), NextVersion(a, held[a][g], r)
    PROVE  Inv'
<1>1. held[a][g].group_id = g
  BY DEF Inv, HeldInv
<1> QED BY <1>1, BuildInv DEF NextVersion

LEMMA RestoreInv ==
    ASSUME Inv, NEW a \in Accounts, NEW g \in Gids, Restore(a, g)
    PROVE  Inv'
<1>1. PICK r \in Versions(g) : assert_admin(r, a) /\ held' = [held EXCEPT ![a][g] = r]
  BY DEF Restore
<1>2. /\ restores < MaxRestores
      /\ restores' = restores + 1
      /\ issued' = issued
      /\ held[a][g] # None
  BY DEF Restore
<1>3. r \in Range(issued) /\ r.group_id = g /\ Genuine(r) /\ r # None
  BY DEF Versions, Inv
<1>4. /\ Table(held')
      /\ held'[a][g] = r
      /\ \A b \in Accounts, h \in Gids : b # a \/ h # g => held'[b][h] = held[b][h]
  <2>1. Table(held) /\ Stored(held, held', a, g, r)
    BY <1>1 DEF Inv, Stored
  <2> QED BY <2>1, Entry
<1>5. is_member(r, Key("ik_sign", a))
  BY <1>1, <1>3 DEF Genuine, validate_roster, assert_admin
<1>6. ASSUME NEW b \in Accounts, NEW h \in Gids PROVE HeldInv(b, h)'
  <2>1. CASE b = a /\ h = g
    BY <1>2, <1>3, <1>4, <1>5, <2>1 DEF HeldInv
  <2>2. CASE b # a \/ h # g
    <3>1. HeldInv(b, h) /\ held'[b][h] = held[b][h]
      BY <1>4, <2>2 DEF Inv
    <3> QED BY <1>2, <3>1 DEF HeldInv
  <2> QED BY <2>1, <2>2
<1>7. AdminInv'
  <2> SUFFICES ASSUME NEW s \in Range(issued), NEW b \in Accounts, assert_admin(s, b)
               PROVE  held'[b][s.group_id] # None /\ assert_admin(held'[b][s.group_id], b)
    BY <1>2 DEF AdminInv
  <2>1. s.group_id \in Gids /\ held[b][s.group_id] # None /\ assert_admin(held[b][s.group_id], b)
    BY DEF Inv, AdminInv, Genuine, Shaped
  <2>2. CASE b = a /\ s.group_id = g
    BY <1>1, <1>3, <1>4, <2>2
  <2>3. CASE b # a \/ s.group_id # g
    BY <1>4, <2>1, <2>3
  <2> QED BY <2>2, <2>3
<1>8. restores' \in 0..MaxRestores
  BY <1>2, GroupAssumption DEF Inv
<1> QED BY <1>2, <1>4, <1>6, <1>7, <1>8 DEF Inv

\* Storing a roster that was not rejected.
LEMMA StoreInv ==
    ASSUME Inv, NEW b \in Accounts, NEW a \in Accounts \ {b}, NEW r \in Sent(a),
           Receive(b, a, r) \/ AcceptInvite(b, a, r)
    PROVE  Inv'
<1> DEFINE g == r.group_id
<1>1. Decision(b, a, r) \in {"Accept", "PendingInvite"}
  BY DEF Receive, AcceptInvite
<1>2. held' = [held EXCEPT ![b][g] = r] /\ issued' = issued /\ restores' = restores
  BY DEF Receive, AcceptInvite, Store
<1>3. /\ Genuine(r)
      /\ assert_admin(r, a)
      /\ is_member(r, Key("ik_sign", b))
      /\ r \in Range(issued) \/ r.admin_pub.of \in OtherClients
  <2>1. evaluate_incoming_roster(held[b][g], r, Key("ik_sign", a), Key("ik_sign", b)) # "Reject"
    BY <1>1 DEF Decision
  <2> QED BY <2>1, NotRejected
<1>4. g \in Gids
  BY <1>3 DEF Genuine, Shaped
<1>5. held[b][g] # None => ~assert_admin(held[b][g], b)
  <2>1. held[b][g] # None => r.admin_pub = held[b][g].admin_pub
    BY <1>1, Decided DEF Decision, accept_roster_update, check_update_rules
  <2> QED BY <1>3, <2>1 DEF assert_admin, Key
<1>6. /\ Table(held')
      /\ held'[b][g] = r
      /\ \A c \in Accounts, h \in Gids : c # b \/ h # g => held'[c][h] = held[c][h]
  <2> HIDE DEF g
  <2>1. Table(held) /\ Stored(held, held', b, g, r)
    BY <1>2 DEF Inv, Stored
  <2> QED BY <1>4, <2>1, Entry
<1>7. ASSUME NEW c \in Accounts, NEW h \in Gids PROVE HeldInv(c, h)'
  <2>1. CASE c = b /\ h = g
    BY <1>2, <1>3, <1>6, <2>1 DEF HeldInv
  <2>2. CASE c # b \/ h # g
    <3>1. HeldInv(c, h) /\ held'[c][h] = held[c][h]
      BY <1>6, <2>2 DEF Inv
    <3> QED BY <1>2, <3>1 DEF HeldInv
  <2> QED BY <2>1, <2>2
<1>8. AdminInv'
  <2> SUFFICES ASSUME NEW s \in Range(issued), NEW c \in Accounts, assert_admin(s, c)
               PROVE  held'[c][s.group_id] # None /\ assert_admin(held'[c][s.group_id], c)
    BY <1>2 DEF AdminInv
  <2>1. s.group_id \in Gids /\ held[c][s.group_id] # None /\ assert_admin(held[c][s.group_id], c)
    BY DEF Inv, AdminInv, Genuine, Shaped
  <2>2. c # b \/ s.group_id # g
    BY <1>5, <2>1
  <2> QED BY <1>6, <2>1, <2>2
<1> QED BY <1>2, <1>6, <1>7, <1>8 DEF Inv

LEMMA InitInv == Init => Inv
<1> SUFFICES ASSUME Init PROVE Inv
  OBVIOUS
<1>1. Table(held) /\ \A a \in Accounts, g \in Gids : held[a][g] = None
  BY DEF Init, Table
<1>2. Range(issued) = {} /\ issued \in Seq({}) /\ Len(issued) = 0
  BY DEF Init, Range
<1> QED BY <1>1, <1>2, GroupAssumption DEF Init, Inv, HeldInv, AdminInv

LEMMA CreateInv ==
    ASSUME Inv, NEW a \in Accounts, NEW g \in Gids, CreateGroup(a, g)
    PROVE  Inv'
<1> DEFINE r == create_group(a, public_bundle_for(a), g, "")
<1>1. Build(a, g, r)
  BY DEF CreateGroup
<1>2. r # None
  BY <1>1 DEF Build
<1>3. Genuine(r) /\ r.group_id = g /\ assert_admin(r, a)
  BY <1>2, CreateBuilds
<1> HIDE DEF r
<1> QED BY <1>1, <1>3, BuildInv

\* What the admin does to a group it has.
Changes(a, g) ==
    \/ AddMember(a, g)
    \/ RemoveMember(a, g)
    \/ SetName(a, g)
    \/ SetPhoto(a, g)

LEMMA ChangesBuild ==
    ASSUME Inv, NEW a \in Accounts, NEW g \in Gids, Changes(a, g)
    PROVE  held[a][g] # None /\ \E r : Build(a, g, r) /\ NextVersion(a, held[a][g], r)
<1>1. held[a][g] # None
  BY DEF Changes, AddMember, RemoveMember, SetName, SetPhoto
<1>2. Genuine(held[a][g])
  BY <1>1 DEF Inv, HeldInv
<1>3. CASE AddMember(a, g)
  <2>1. PICK m \in Bundles : Build(a, g, add_member(held[a][g], a, m))
    BY <1>3 DEF AddMember, Bundles
  <2>2. add_member(held[a][g], a, m) # None
    BY <2>1 DEF Build
  <2> QED BY <1>1, <1>2, <2>1, <2>2, AddBuilds
<1>4. CASE RemoveMember(a, g)
  <2>1. PICK b \in Accounts : Build(a, g, remove_member(held[a][g], a, Key("ik_sign", b)))
    BY <1>4 DEF RemoveMember
  <2>2. remove_member(held[a][g], a, Key("ik_sign", b)) # None
    BY <2>1 DEF Build
  <2> QED BY <1>1, <1>2, <2>1, <2>2, RemoveBuilds
<1>5. CASE SetName(a, g)
  <2>1. Build(a, g, set_group_name(held[a][g], a, Name))
    BY <1>5 DEF SetName
  <2>2. set_group_name(held[a][g], a, Name) # None
    BY <2>1 DEF Build
  <2> QED BY <1>1, <1>2, <2>1, <2>2, NameBuilds
<1>6. CASE SetPhoto(a, g)
  <2>1. PICK photo : Build(a, g, set_group_photo(held[a][g], a, photo))
    BY <1>6 DEF SetPhoto
  <2>2. set_group_photo(held[a][g], a, photo) # None
    BY <2>1 DEF Build
  <2> QED BY <1>1, <1>2, <2>1, <2>2, PhotoBuilds
<1> QED BY <1>3, <1>4, <1>5, <1>6 DEF Changes

\* The steps of Next.
LEMMA Steps ==
    ASSUME Next
    PROVE  \/ \E a \in Accounts, g \in Gids : CreateGroup(a, g) \/ Changes(a, g) \/ Restore(a, g)
           \/ \E b \in Accounts : \E a \in Accounts \ {b} : \E r \in Sent(a) :
                 Receive(b, a, r) \/ AcceptInvite(b, a, r)
BY GroupAssumption DEF Next, Changes

LEMMA NextInv == Inv /\ [Next]_vars => Inv'
<1> SUFFICES ASSUME Inv, [Next]_vars PROVE Inv'
  OBVIOUS
<1>1. CASE UNCHANGED vars
  BY <1>1 DEF vars, Inv, HeldInv, AdminInv
<1>2. ASSUME NEW a \in Accounts, NEW g \in Gids, CreateGroup(a, g) PROVE Inv'
  BY <1>2, CreateInv
<1>3. ASSUME NEW a \in Accounts, NEW g \in Gids, Changes(a, g) PROVE Inv'
  <2>1. PICK r : Build(a, g, r) /\ NextVersion(a, held[a][g], r)
    BY <1>3, ChangesBuild
  <2> QED BY <1>3, <2>1, ChangesBuild, NextVersionInv
<1>4. ASSUME NEW a \in Accounts, NEW g \in Gids, Restore(a, g) PROVE Inv'
  BY <1>4, RestoreInv
<1>5. ASSUME NEW b \in Accounts, NEW a \in Accounts \ {b}, NEW r \in Sent(a),
             Receive(b, a, r) \/ AcceptInvite(b, a, r)
      PROVE  Inv'
  BY <1>5, StoreInv
<1> QED BY <1>1, <1>2, <1>3, <1>4, <1>5, Steps

\* In every reachable state what is stored and what was issued validates, is
\* stored under its own group and lists who stores it, and an admin holds its
\* own groups as their admin.
THEOREM Invariance == Spec => []Inv
BY InitInv, NextInv, PTL DEF Spec

\* Every stored roster is for the group it is stored under and lists the
\* account that stores it (evaluate_incoming_roster, sign_unsigned).
THEOREM TypeInvariance == Spec => []TypeOK
<1>1. Inv => TypeOK
  <2> SUFFICES ASSUME Inv, NEW a \in Accounts, NEW g \in Gids, held[a][g] # None
               PROVE  /\ held[a][g].group_id = g
                      /\ is_member(held[a][g], Key("ik_sign", a))
                      /\ Len(held[a][g].members) \in 1..MAX_GROUP_MEMBERS
                      /\ held[a][g].epoch \in Nat
    BY DEF Inv, TypeOK
  <2>1. Genuine(held[a][g]) /\ held[a][g].group_id = g /\ is_member(held[a][g], Key("ik_sign", a))
    BY DEF Inv, HeldInv
  <2>2. held[a][g].members \in Seq(Bundles) /\ held[a][g].epoch \in Nat
    BY <2>1 DEF Genuine, Shaped
  <2>3. Len(held[a][g].members) \in Nat
    BY <2>2
  <2>4. Len(held[a][g].members) # 0 /\ Len(held[a][g].members) <= MAX_GROUP_MEMBERS
    BY <2>1, Zenon DEF Genuine, validate_roster
  <2> QED BY <2>1, <2>2, <2>3, <2>4, MembersAssumption
<1> QED BY <1>1, Invariance, PTL

\* A member stores only what the admin of its group built, whoever relayed it
\* and whatever they changed in it, unless the admin is a client that also
\* signs what is not built here (evaluate_incoming_roster, validate_roster).
THEOREM StoresOnlyIssued == Spec => []OnlyIssued
<1>1. Inv => OnlyIssued
  BY DEF Inv, HeldInv, OnlyIssued, Versions
<1> QED BY <1>1, Invariance, PTL

---------------------------------------------------------------------------
(* What a step may not do.                                                 *)

\* A step changes one entry: the admin's own, or that of a member who accepts
\* what the rules for updates allow.
LEMMA NeverBackStep ==
    ASSUME Inv, Next, NEW a \in Accounts, NEW g \in Gids,
           held[a][g] # None, ~assert_admin(held[a][g], a), held'[a][g] # held[a][g]
    PROVE  accept_roster_update(held[a][g], held'[a][g])
<1>0. Table(held)
  BY DEF Inv
<1>1. ASSUME NEW b \in Accounts, NEW h \in Gids, NEW r, Stored(held, held', b, h, r),
             b # a \/ h # g
      PROVE  FALSE
  BY <1>0, <1>1, Entry
<1>2. ASSUME NEW b \in Accounts, NEW h \in Gids, CreateGroup(b, h) PROVE FALSE
  <2>1. h # g
    BY <1>2 DEF CreateGroup
  <2>2. \E r : Stored(held, held', b, h, r)
    BY <1>2 DEF CreateGroup, Build, Stored
  <2> QED BY <1>1, <2>1, <2>2
<1>3. ASSUME NEW b \in Accounts, NEW h \in Gids, Changes(b, h) PROVE FALSE
  <2>1. PICK r : Build(b, h, r) /\ NextVersion(b, held[b][h], r)
    BY <1>3, ChangesBuild
  <2>2. b # a \/ h # g
    BY <2>1 DEF NextVersion
  <2>3. Stored(held, held', b, h, r)
    BY <2>1 DEF Build, Stored
  <2> QED BY <1>1, <2>2, <2>3
<1>4. ASSUME NEW b \in Accounts, NEW h \in Gids, Restore(b, h) PROVE FALSE
  <2>1. PICK r \in Versions(h) : assert_admin(r, b) /\ held' = [held EXCEPT ![b][h] = r]
    BY <1>4 DEF Restore
  <2>2. assert_admin(held[b][h], b)
    BY <2>1 DEF Versions, Inv, AdminInv
  <2>3. Stored(held, held', b, h, r)
    BY <2>1 DEF Stored
  <2> QED BY <1>1, <2>2, <2>3
<1>5. ASSUME NEW b \in Accounts, NEW c \in Accounts \ {b}, NEW r \in Sent(c),
             Receive(b, c, r) \/ AcceptInvite(b, c, r)
      PROVE  accept_roster_update(held[a][g], held'[a][g])
  <2> DEFINE h == r.group_id
  <2>1. /\ Decision(b, c, r) \in {"Accept", "PendingInvite"}
        /\ held' = [held EXCEPT ![b][h] = r]
    BY <1>5 DEF Receive, AcceptInvite, Store
  <2>2. evaluate_incoming_roster(held[b][h], r, Key("ik_sign", c), Key("ik_sign", b))
           \in {"Accept", "PendingInvite"}
    BY <2>1 DEF Decision
  <2>3. Genuine(r)
    BY <2>2, NotRejected
  <2>4. h \in Gids
    BY <2>3 DEF Genuine, Shaped
  <2>5. Stored(held, held', b, h, r)
    BY <2>1 DEF Stored
  <2>6. a = b /\ g = h
    BY <1>1, <2>4, <2>5
  <2>7. accept_roster_update(held[a][g], r)
    BY <2>2, <2>6, Decided
  <2>8. held'[a][g] = r
    <3> HIDE DEF h
    <3> QED BY <1>0, <2>4, <2>5, <2>6, Entry
  <2> QED BY <2>7, <2>8
<1> QED BY <1>2, <1>3, <1>4, <1>5, Steps

\* No step takes a member back to an earlier version of its group's roster or
\* across to another of the same epoch (check_update_rules), even when the
\* admin itself has gone back.
THEOREM MembersNeverGoBack == Spec => NeverBack
<1> DEFINE A == \A a \in Accounts, g \in Gids :
                   held[a][g] # None /\ ~assert_admin(held[a][g], a) /\ held'[a][g] # held[a][g] =>
                       /\ held'[a][g].epoch > held[a][g].epoch
                       /\ held'[a][g].admin_pub = held[a][g].admin_pub
                       /\ accept_roster_update(held[a][g], held'[a][g])
<1>1. Inv /\ [Next]_vars => [A]_vars
  <2> SUFFICES ASSUME Inv, Next PROVE A
    OBVIOUS
  <2> SUFFICES ASSUME NEW a \in Accounts, NEW g \in Gids,
                      held[a][g] # None, ~assert_admin(held[a][g], a), held'[a][g] # held[a][g]
               PROVE  /\ held'[a][g].epoch > held[a][g].epoch
                      /\ held'[a][g].admin_pub = held[a][g].admin_pub
                      /\ accept_roster_update(held[a][g], held'[a][g])
    OBVIOUS
  <2>1. accept_roster_update(held[a][g], held'[a][g])
    BY NeverBackStep
  <2> QED BY <2>1, Zenon DEF accept_roster_update, check_update_rules
<1> QED BY <1>1, Invariance, PTL DEF Spec, NeverBack

---------------------------------------------------------------------------
(* Keys in a stored roster.                                                *)

LEMMA OnTheWordOf ==
    ASSUME NEW m \in MadeUpBundles
    PROVE  \E c \in Accounts, s \in OtherClients :
              /\ m.ik_sign_pub = Key("ik_sign", c)
              /\ m.ik_dh_pub \in KeyTexts
              /\ m.id_sig.by = <<"ik_sign", s>>
<1>1. PICK c \in Accounts, k \in {t \in KeyTexts : t.kind = "ik_dh"}, s \in OtherClients :
         m = MadeUpBundle(c, k, s)
  BY DEF MadeUpBundles
<1> DEFINE sig == ed25519_sign(<<"ik_sign", s>>,
                               identity_signing_bytes(decode_32(k), <<"nostr", c>>))
<1>2. m = [public_bundle_for(c) EXCEPT !.ik_dh_pub = k, !.id_sig = sig]
  BY <1>1, Zenon DEF MadeUpBundle
<1>3. sig.by = <<"ik_sign", s>> /\ k \in KeyTexts
  BY DEF ed25519_sign
<1> HIDE DEF sig
<1>4. /\ m.ik_sign_pub = Key("ik_sign", c)
      /\ m.ik_dh_pub = k
      /\ m.id_sig = sig
  BY <1>2 DEF public_bundle_for
<1> QED BY <1>3, <1>4

\* A bundle that is bound to an account that signs only its own is the one that
\* the account hands out.
LEMMA BoundIsOwn ==
    ASSUME NEW m \in Bundles, member_is_bound(m), m.ik_sign_pub.of \notin OtherClients
    PROVE  m = public_bundle_for(m.ik_sign_pub.of)
<1>1. ASSUME NEW b \in Accounts, m = public_bundle_for(b) PROVE m.ik_sign_pub.of = b
  BY <1>1 DEF public_bundle_for, Key
<1>2. ASSUME m \in MadeUpBundles PROVE FALSE
  <2>1. PICK c \in Accounts, s \in OtherClients :
           m.ik_sign_pub = Key("ik_sign", c) /\ m.id_sig.by = <<"ik_sign", s>>
    BY <1>2, OnTheWordOf
  <2>3. m.id_sig.by = decode_32(m.ik_sign_pub)
    BY DEF member_is_bound, verify_bundle_binding, ed25519_verify, ed25519_sign
  <2> QED BY <2>1, <2>3 DEF Key, decode_32
<1> QED BY <1>1, <1>2 DEF Bundles

\* In a roster that validates, the Diffie-Hellman key of such an account stands
\* in its own entry and in no other.
LEMMA KeyInOneEntry ==
    ASSUME NEW r, Genuine(r), NEW i \in DOMAIN r.members, NEW j \in DOMAIN r.members,
           r.members[i].ik_sign_pub.of \notin OtherClients
    PROVE  decode_32(r.members[j].ik_dh_pub) = <<"ik_dh", r.members[i].ik_sign_pub.of>> <=> i = j
<1> DEFINE m == r.members
           c == m[i].ik_sign_pub.of
<1>1. m \in Seq(Bundles)
  BY DEF Genuine, Shaped
<1>2. \A k \in DOMAIN m : m[k] \in Bundles /\ member_is_bound(m[k])
  BY <1>1 DEF Genuine, validate_roster, Range
<1>3. m[i] = public_bundle_for(c)
  BY <1>2, BoundIsOwn
<1>4. m[i].ik_dh_pub = Key("ik_dh", c)
  BY <1>3 DEF public_bundle_for
<1>5. decode_32(m[i].ik_dh_pub) = <<"ik_dh", c>>
  BY <1>4 DEF decode_32, Key
<1>6. ASSUME decode_32(m[j].ik_dh_pub) = <<"ik_dh", c>> PROVE i = j
  <2>1. m[j].ik_dh_pub = Key("ik_dh", c)
    <3>1. m[j].ik_dh_pub \in KeyTexts /\ m[j].ik_dh_pub.canonical
      <4>1. m[j].ik_dh_pub.canonical
        BY <1>2 DEF member_is_bound, is_canonical_hex
      <4>2. ASSUME NEW b \in Accounts, m[j] = public_bundle_for(b)
            PROVE  m[j].ik_dh_pub \in KeyTexts
        BY <4>2 DEF public_bundle_for, Key, KeyTexts, Kinds
      <4>3. ASSUME m[j] \in MadeUpBundles PROVE m[j].ik_dh_pub \in KeyTexts
        BY <4>3, OnTheWordOf
      <4> QED BY <1>2, <4>1, <4>2, <4>3 DEF Bundles
    <3> QED BY <1>6, <3>1 DEF decode_32, Key, KeyTexts
  <2>2. NoDuplicates(m)
    BY DEF Genuine, validate_roster
  <2>3. i \in DOMAIN m /\ j \in DOMAIN m /\ m[i].ik_dh_pub = m[j].ik_dh_pub
    BY <1>4, <2>1
  <2> HIDE DEF m
  <2> QED BY <2>2, <2>3 DEF NoDuplicates
<1> QED BY <1>5, <1>6

\* Looking a contact up by its key in a stored roster that lists it finds its
\* entry and no other (validate_roster, member_is_bound).
THEOREM LookupByKey == Spec => []LookupFindsOwner
<1>1. Inv => LookupFindsOwner
  <2> SUFFICES ASSUME Inv, NEW a \in Accounts, NEW g \in Gids, held[a][g] # None,
                      NEW i \in DOMAIN held[a][g].members, NEW j \in DOMAIN held[a][g].members,
                      held[a][g].members[i].ik_sign_pub.of \notin OtherClients
               PROVE  decode_32(held[a][g].members[j].ik_dh_pub) =
                         <<"ik_dh", held[a][g].members[i].ik_sign_pub.of>> <=> i = j
    BY Zenon DEF LookupFindsOwner
  <2>1. Genuine(held[a][g])
    BY DEF Inv, HeldInv
  <2> QED BY <2>1, KeyInOneEntry
<1> QED BY <1>1, Invariance, PTL

---------------------------------------------------------------------------
(* The log of a group.  A group whose creator works from the newest roster *)
(* is one log that its members follow: Group implements RosterLog.         *)

\* Versions that a built one after the other.
Chain(s, a) ==
    /\ \A k \in DOMAIN s : s[k] # None /\ s[k].admin_pub = Key("ik_sign", a) /\ s[k].epoch \in Nat
    /\ \A i, j \in DOMAIN s : i < j => s[i].epoch < s[j].epoch

\* A group has one author, who holds the last version.
LogInv ==
    \A g \in Gids : IssuedFor(g) # <<>> =>
        \E a \in Creators :
            /\ Chain(IssuedFor(g), a)
            /\ held[a][g] = IssuedFor(g)[Len(IssuedFor(g))]

\* Only the versions of g are in its log.
LEMMA LogRange ==
    ASSUME Inv, NEW g
    PROVE  IssuedFor(g) \in Seq(Range(issued)) /\ Range(IssuedFor(g)) = Versions(g)
<1>1. issued \in Seq(Range(issued))
  BY DEF Inv
<1>2. Range(issued) \cap Versions(g) = Versions(g)
  BY DEF Versions
<1> QED BY <1>1, <1>2, RetainRange DEF IssuedFor

\* Issuing a version extends the log of its group, and no other.
LEMMA LogAppend ==
    ASSUME Inv, NEW r, issued' = Append(issued, r), NEW h
    PROVE  IssuedFor(h)' = IF r.group_id = h THEN Append(IssuedFor(h), r) ELSE IssuedFor(h)
<1> DEFINE S == Range(issued) \cup {r}
           K == Versions(h)
           L == Versions(h)'
<1>1. issued \in Seq(S) /\ r \in S
  BY DEF Inv
<1>2. Range(issued') = S
  BY <1>1, RangeAppend
<1>3. L = {s \in S : s.group_id = h} /\ K = {s \in Range(issued) : s.group_id = h}
  BY <1>2 DEF Versions
<1>4. (\A y \in Range(issued) : y \in K <=> y \in L) /\ (r \in L <=> r.group_id = h)
  BY <1>3
<1>5. IssuedFor(h) = retain(issued, K) /\ IssuedFor(h)' = retain(Append(issued, r), L)
  BY DEF IssuedFor
<1> HIDE DEF S, K, L
<1> QED BY <1>1, <1>4, <1>5, RetainAppend

\* A version is where it is in the log, and nowhere else.
LEMMA InChain ==
    ASSUME NEW S, NEW s \in Seq(S), NEW a, Chain(s, a), NEW k \in DOMAIN s
    PROVE  PositionIn(s, s[k]) = k
<1>1. ASSUME NEW i \in DOMAIN s, s[i] = s[k] PROVE i = k
  <2>1. i \in Nat /\ k \in Nat
    OBVIOUS
  <2>2. ~(i < k) /\ ~(k < i)
    <3>1. s[i].epoch \in Nat /\ s[k].epoch \in Nat /\ s[i].epoch = s[k].epoch
      BY <1>1 DEF Chain
    <3>2. (i < k => s[i].epoch < s[k].epoch) /\ (k < i => s[k].epoch < s[i].epoch)
      BY DEF Chain
    <3> QED BY <3>1, <3>2
  <2> QED BY <2>1, <2>2
<1>2. s # <<>> /\ 1 \in DOMAIN s
  OBVIOUS
<1>3. s[k] # None /\ s[k].admin_pub = s[1].admin_pub
  BY <1>2 DEF Chain
<1>4. PositionIn(s, s[k]) = CHOOSE i \in DOMAIN s : s[i] = s[k]
  BY <1>2, <1>3 DEF PositionIn
<1>5. \E i \in DOMAIN s : s[i] = s[k]
  OBVIOUS
<1> QED BY <1>1, <1>4, <1>5

LEMMA NotInChain ==
    ASSUME NEW S, NEW s \in Seq(S), NEW a, Chain(s, a), NEW r,
           r = None \/ r.admin_pub # Key("ik_sign", a)
    PROVE  PositionIn(s, r) = 0
<1>1. s # <<>> => s[1].admin_pub = Key("ik_sign", a)
  BY DEF Chain
<1> QED BY <1>1 DEF PositionIn

\* One version more.
LEMMA LongerChain ==
    ASSUME NEW S, NEW s \in Seq(S), NEW a, Chain(s, a), NEW r \in S,
           r # None, r.admin_pub = Key("ik_sign", a), r.epoch \in Nat,
           s # <<>> => s[Len(s)].epoch < r.epoch
    PROVE  Chain(Append(s, r), a)
<1> DEFINE t == Append(s, r)
           n == Len(s)
<1>1. /\ n \in Nat /\ DOMAIN s = 1..n /\ DOMAIN t = 1..(n + 1)
      /\ t[n + 1] = r
      /\ \A k \in 1..n : t[k] = s[k]
  OBVIOUS
<1>2. ASSUME NEW k \in 1..(n + 1)
      PROVE  t[k] # None /\ t[k].admin_pub = Key("ik_sign", a) /\ t[k].epoch \in Nat
  <2>1. k = n + 1 \/ k \in 1..n
    BY <1>1
  <2> HIDE DEF t, n
  <2> QED BY <1>1, <2>1 DEF Chain
<1>3. ASSUME NEW i \in 1..(n + 1), NEW j \in 1..(n + 1), i < j
      PROVE  t[i].epoch < t[j].epoch
  <2>1. i \in 1..n /\ (j \in 1..n \/ j = n + 1)
    BY <1>1, <1>3
  <2>2. CASE j \in 1..n
    <3> HIDE DEF t, n
    <3> QED BY <1>1, <1>3, <2>1, <2>2 DEF Chain
  <2>3. CASE j = n + 1
    <3>1. s # <<>> /\ n \in 1..n
      BY <1>1, <2>1
    <3>2. s[n].epoch < r.epoch /\ s[n].epoch \in Nat /\ s[i].epoch \in Nat
      BY <1>1, <2>1, <3>1 DEF Chain
    <3>3. i = n \/ s[i].epoch < s[n].epoch
      <4>1. i = n \/ i < n
        <5> HIDE DEF n
        <5> QED BY <1>1, <2>1
      <4> QED BY <1>1, <2>1, <3>1, <4>1 DEF Chain
    <3>4. s[i].epoch < r.epoch
      BY <3>2, <3>3
    <3>5. t[i] = s[i] /\ t[j] = r
      BY <1>1, <2>1, <2>3
    <3> QED BY <3>4, <3>5
  <2> QED BY <2>1, <2>2, <2>3
<1> HIDE DEF t
<1> QED BY <1>1, <1>2, <1>3 DEF Chain

---------------------------------------------------------------------------
(* Following the log.                                                      *)

\* The author is not one of those who also sign what is not built here, so all
\* that is stored in its name is in the log.
LEMMA InLog ==
    ASSUME Inv, Creators \cap OtherClients = {}, NEW g, NEW a \in Creators, NEW r,
           r.group_id = g, assert_admin(r, a),
           r \in Range(issued) \/ r.admin_pub.of \in OtherClients
    PROVE  \E k \in DOMAIN IssuedFor(g) : IssuedFor(g)[k] = r
<1>1. r \in Range(issued)
  BY DEF assert_admin, Key
<1>2. r \in Versions(g)
  BY <1>1 DEF Versions
<1>3. r \in Range(IssuedFor(g))
  BY <1>2, LogRange
<1> QED BY <1>3 DEF Range

\* Who holds a group as its admin is the author of its log and holds the last
\* version.
LEMMA OwnIsLast ==
    ASSUME Inv, LogInv, Creators \cap OtherClients = {}, NEW a \in Creators, NEW g \in Gids,
           held[a][g] # None, assert_admin(held[a][g], a)
    PROVE  /\ IssuedFor(g) # <<>>
           /\ Chain(IssuedFor(g), a)
           /\ held[a][g] = IssuedFor(g)[Len(IssuedFor(g))]
<1> DEFINE s == IssuedFor(g)
<1>1. PICK k \in DOMAIN s : s[k] = held[a][g]
  <2>1. a \in Accounts
    BY GroupAssumption
  <2>2. /\ held[a][g].group_id = g
        /\ held[a][g] \in Range(issued) \/ held[a][g].admin_pub.of \in OtherClients
    BY <2>1 DEF Inv, HeldInv
  <2> QED BY <2>2, InLog
<1>2. s # <<>>
  BY <1>1
<1>3. PICK b \in Creators : Chain(s, b) /\ held[b][g] = s[Len(s)]
  BY <1>2 DEF LogInv
<1>4. a = b
  <2>1. s[k].admin_pub = Key("ik_sign", b)
    BY <1>3 DEF Chain
  <2> QED BY <1>1, <2>1 DEF assert_admin, Key
<1> QED BY <1>2, <1>3, <1>4

\* What makes a step one of the log's.
LEMMA ExtendFrom ==
    ASSUME NEW f \in Accounts, NEW g \in Gids, NEW r, NEW n \in Nat,
           n = Len(IssuedFor(g)), Position(f, g) = n,
           IssuedFor(g)' = Append(IssuedFor(g), r),
           Len(Append(IssuedFor(g), r)) = n + 1, Append(IssuedFor(g), r)[n + 1] = r,
           is_member(r, Key("ik_sign", f)),
           \A h \in Gids : h # g => IssuedFor(h)' = IssuedFor(h),
           Position(f, g)' = n + 1,
           \A b \in Accounts, h \in Gids : b # f \/ h # g => Position(b, h)' = Position(b, h)
    PROVE  Log!Extend(f, g)
<1> DEFINE lg == [h \in Gids |-> IssuedFor(h)]
           lg2 == [h \in Gids |-> IssuedFor(h)']
           at == [b \in Accounts |-> [h \in Gids |-> Position(b, h)]]
           at2 == [b \in Accounts |-> [h \in Gids |-> Position(b, h)']]
<1>1. lg2 = [lg EXCEPT ![g] = Append(IssuedFor(g), r)]
  OBVIOUS
<1>2. at2 = [at EXCEPT ![f][g] = n + 1]
  OBVIOUS
<1>3. at[f][g] = n /\ lg[g] = IssuedFor(g) /\ lg2[g] = Append(IssuedFor(g), r)
  OBVIOUS
<1> QED BY <1>1, <1>2, <1>3 DEF Log!Extend

LEMMA FollowFrom ==
    ASSUME NEW f \in Accounts, NEW g \in Gids, NEW i \in Nat, NEW k \in Nat,
           Position(f, g) = i, Position(f, g)' = k, i < k, k <= Len(IssuedFor(g)),
           Len(IssuedFor(g)) \in Nat,
           is_member(IssuedFor(g)[k], Key("ik_sign", f)),
           \A h \in Gids : IssuedFor(h)' = IssuedFor(h),
           \A b \in Accounts, h \in Gids : b # f \/ h # g => Position(b, h)' = Position(b, h)
    PROVE  Log!Follow(f, g)
<1> DEFINE lg == [h \in Gids |-> IssuedFor(h)]
           lg2 == [h \in Gids |-> IssuedFor(h)']
           at == [b \in Accounts |-> [h \in Gids |-> Position(b, h)]]
           at2 == [b \in Accounts |-> [h \in Gids |-> Position(b, h)']]
<1>1. lg2 = lg
  OBVIOUS
<1>2. at2 = [at EXCEPT ![f][g] = k]
  OBVIOUS
<1>3. at[f][g] = i /\ lg[g] = IssuedFor(g) /\ k \in i + 1 .. Len(IssuedFor(g))
  OBVIOUS
<1> QED BY <1>1, <1>2, <1>3 DEF Log!Follow

LEMMA StayFrom ==
    ASSUME \A h \in Gids : IssuedFor(h)' = IssuedFor(h),
           \A b \in Accounts, h \in Gids : Position(b, h)' = Position(b, h)
    PROVE  UNCHANGED Log!vars
BY DEF Log!vars

---------------------------------------------------------------------------
(* Each step of a group is a step of its log or none.                      *)

\* The author issues the first version, or the one after the last.
LEMMA BuildStep ==
    ASSUME Inv, LogInv, Creators \cap OtherClients = {}, NEW a \in Creators, NEW g \in Gids,
           NEW r, Build(a, g, r), Genuine(r), r.group_id = g, assert_admin(r, a),
           \/ IssuedFor(g) = <<>>
           \/ /\ Chain(IssuedFor(g), a)
              /\ held[a][g] = IssuedFor(g)[Len(IssuedFor(g))]
              /\ held[a][g].epoch < r.epoch
    PROVE  LogInv' /\ Log!Extend(a, g)
<1> DEFINE s == IssuedFor(g)
           S == Range(issued) \cup {r}
           t == Append(s, r)
           n == Len(s)
<1>1. a \in Accounts /\ r # None /\ issued' = Append(issued, r) /\ Stored(held, held', a, g, r)
  BY GroupAssumption DEF Build, Stored
<1>2. /\ held'[a][g] = r
      /\ \A b \in Accounts, h \in Gids : b # a \/ h # g => held'[b][h] = held[b][h]
  BY <1>1, Entry DEF Inv
<1>3. IssuedFor(g)' = t /\ \A h \in Gids : h # g => IssuedFor(h)' = IssuedFor(h)
  BY <1>1, LogAppend
<1>4. s \in Seq(S) /\ r \in S
  <2>1. s \in Seq(Range(issued))
    BY LogRange
  <2> QED BY <2>1
<1>5. /\ n \in Nat /\ Len(t) = n + 1 /\ t[n + 1] = r /\ t # <<>>
      /\ DOMAIN s = 1..n /\ DOMAIN t = 1..(n + 1)
      /\ \A k \in 1..n : t[k] = s[k]
      /\ t \in Seq(S)
  <2> HIDE DEF s, S
  <2>1. n \in Nat /\ DOMAIN s = 1..n /\ t \in Seq(S)
    BY <1>4
  <2>2. Len(t) = n + 1 /\ t[n + 1] = r /\ DOMAIN t = 1..(n + 1)
    BY <1>4
  <2>3. \A k \in 1..n : t[k] = s[k]
    BY <1>4
  <2>4. t # <<>>
    BY <2>1, <2>2
  <2> QED BY <2>1, <2>2, <2>3, <2>4
<1>6. Chain(s, a)
  BY DEF Chain
<1>7. Chain(t, a)
  <2>1. r.epoch \in Nat /\ r.admin_pub = Key("ik_sign", a)
    BY DEF Genuine, Shaped, assert_admin
  <2>2. s # <<>> => s[Len(s)].epoch < r.epoch
    OBVIOUS
  <2> HIDE DEF S, s
  <2> QED BY <1>1, <1>4, <1>6, <2>1, <2>2, LongerChain
<1>8. LogInv'
  <2> SUFFICES ASSUME NEW h \in Gids, IssuedFor(h)' # <<>>
               PROVE  \E b \in Creators :
                         /\ Chain(IssuedFor(h)', b)
                         /\ held'[b][h] = IssuedFor(h)'[Len(IssuedFor(h)')]
    BY DEF LogInv, Chain
  <2>1. CASE h = g
    <3>1. Chain(IssuedFor(h)', a)
      BY <1>3, <1>7, <2>1
    <3>2. held'[a][h] = IssuedFor(h)'[Len(IssuedFor(h)')]
      BY <1>2, <1>3, <1>5, <2>1
    <3> QED BY <3>1, <3>2
  <2>2. CASE h # g
    <3>1. PICK b \in Creators :
             Chain(IssuedFor(h), b) /\ held[b][h] = IssuedFor(h)[Len(IssuedFor(h))]
      BY <1>3, <2>2 DEF LogInv
    <3>2. held'[b][h] = held[b][h]
      BY <1>2, <2>2, GroupAssumption
    <3> QED BY <1>3, <2>2, <3>1, <3>2
  <2> QED BY <2>1, <2>2
<1>9. Position(a, g) = n
  <2>1. CASE s = <<>>
    BY <2>1 DEF Position, PositionIn
  <2>2. CASE s # <<>>
    <3>1. n \in DOMAIN s /\ held[a][g] = s[n]
      BY <1>4, <1>5, <2>2
    <3> HIDE DEF s, n
    <3>2. PositionIn(s, s[n]) = n
      BY <1>4, <1>6, <3>1, InChain
    <3> QED BY <3>1, <3>2 DEF Position, s
  <2> QED BY <2>1, <2>2
<1>10. Position(a, g)' = n + 1
  <2>1. PositionIn(t, t[n + 1]) = n + 1
    <3>1. n + 1 \in DOMAIN t
      BY <1>5
    <3> HIDE DEF t, n
    <3> QED BY <1>5, <1>7, <3>1, InChain
  <2> QED BY <1>2, <1>3, <1>5, <2>1 DEF Position
<1>11. ASSUME NEW b \in Accounts, NEW h \in Gids, b # a \/ h # g
       PROVE  Position(b, h)' = Position(b, h)
  <2>1. held'[b][h] = held[b][h]
    BY <1>2, <1>11
  <2>2. Position(b, h)' = PositionIn(IssuedFor(h)', held[b][h])
    BY <2>1 DEF Position
  <2>3. CASE h # g
    BY <1>3, <2>2, <2>3 DEF Position
  <2>4. CASE h = g /\ (held[b][g] = None \/ held[b][g].admin_pub # Key("ik_sign", a))
    <3>1. PositionIn(t, held[b][g]) = 0 /\ PositionIn(s, held[b][g]) = 0
      <4> HIDE DEF t, s, S
      <4> QED BY <1>4, <1>5, <1>6, <1>7, <2>4, NotInChain
    <3> QED BY <1>3, <2>2, <2>4, <3>1 DEF Position
  <2>5. CASE h = g /\ held[b][g] # None /\ held[b][g].admin_pub = Key("ik_sign", a)
    <3>1. PICK k \in DOMAIN s : s[k] = held[b][g]
      <4>1. /\ held[b][g].group_id = g
            /\ held[b][g] \in Range(issued) \/ held[b][g].admin_pub.of \in OtherClients
        BY <2>5 DEF Inv, HeldInv
      <4> QED BY <2>5, <4>1, InLog DEF assert_admin
    <3>2. k \in DOMAIN t /\ t[k] = s[k]
      BY <1>5
    <3>3. PositionIn(t, t[k]) = k /\ PositionIn(s, s[k]) = k
      <4> HIDE DEF t, s, S
      <4> QED BY <1>4, <1>5, <1>6, <1>7, <3>2, InChain
    <3> QED BY <1>3, <2>2, <2>5, <3>1, <3>2, <3>3 DEF Position
  <2> QED BY <2>3, <2>4, <2>5
<1>12. is_member(r, Key("ik_sign", a))
  BY DEF Genuine, validate_roster, assert_admin
<1>13. Log!Extend(a, g)
  <2> HIDE DEF n
  <2> QED BY <1>1, <1>3, <1>5, <1>9, <1>10, <1>11, <1>12, ExtendFrom DEF n
<1> QED BY <1>8, <1>13

\* A member stores what was sent: it moves along the log, unless it is another
\* admin's group under the same id.
LEMMA StoreStep ==
    ASSUME Inv, LogInv, Creators \cap OtherClients = {},
           NEW b \in Accounts, NEW c \in Accounts \ {b}, NEW r \in Sent(c),
           Receive(b, c, r) \/ AcceptInvite(b, c, r)
    PROVE  LogInv' /\ (UNCHANGED Log!vars \/ \E g \in Gids : Log!Follow(b, g))
<1> DEFINE g == r.group_id
           s == IssuedFor(g)
           old == held[b][g]
<1>1. evaluate_incoming_roster(old, r, Key("ik_sign", c), Key("ik_sign", b))
         \in {"Accept", "PendingInvite"}
  BY DEF Receive, AcceptInvite, Decision
<1>2. issued' = issued /\ Stored(held, held', b, g, r)
  BY DEF Receive, AcceptInvite, Store, Stored
<1>3. /\ Genuine(r)
      /\ assert_admin(r, c)
      /\ is_member(r, Key("ik_sign", b))
      /\ r \in Range(issued) \/ r.admin_pub.of \in OtherClients
  BY <1>1, NotRejected
<1>4. g \in Gids
  BY <1>3 DEF Genuine, Shaped
<1>5. old # None => r.admin_pub = old.admin_pub /\ r.epoch > old.epoch
  BY <1>1, Decided DEF accept_roster_update, check_update_rules
<1>6. /\ held'[b][g] = r
      /\ \A a \in Accounts, h \in Gids : a # b \/ h # g => held'[a][h] = held[a][h]
  <2> HIDE DEF g
  <2> QED BY <1>2, <1>4, Entry DEF Inv
<1>7. \A h \in Gids : IssuedFor(h)' = IssuedFor(h)
  BY <1>2 DEF IssuedFor, Versions
<1>8. \A a \in Accounts, h \in Gids : a # b \/ h # g => Position(a, h)' = Position(a, h)
  BY <1>6, <1>7 DEF Position
<1>9. Position(b, g)' = PositionIn(s, r) /\ Position(b, g) = PositionIn(s, old)
  BY <1>4, <1>6, <1>7 DEF Position
<1>10. s \in Seq(Range(issued))
  BY LogRange
<1>11. LogInv'
  <2> SUFFICES ASSUME NEW h \in Gids, IssuedFor(h)' # <<>>
               PROVE  \E a \in Creators :
                         /\ Chain(IssuedFor(h)', a)
                         /\ held'[a][h] = IssuedFor(h)'[Len(IssuedFor(h)')]
    BY DEF LogInv, Chain
  <2>1. PICK a \in Creators :
           Chain(IssuedFor(h), a) /\ held[a][h] = IssuedFor(h)[Len(IssuedFor(h))]
    BY <1>7 DEF LogInv
  <2>2. a # b \/ h # g
    <3> SUFFICES ASSUME a = b, h = g PROVE FALSE
      OBVIOUS
    <3>1. Len(s) \in DOMAIN s
      BY <1>7, <1>10
    <3>2. old # None /\ old.admin_pub = Key("ik_sign", b)
      BY <2>1, <3>1 DEF Chain
    <3> QED BY <1>3, <1>5, <3>2 DEF assert_admin, Key
  <2>3. held'[a][h] = held[a][h]
    BY <1>6, <2>2, GroupAssumption
  <2> QED BY <1>7, <2>1, <2>3
<1>12. CASE Position(b, g)' = Position(b, g)
  <2>1. \A a \in Accounts, h \in Gids : Position(a, h)' = Position(a, h)
    BY <1>8, <1>12
  <2> QED BY <1>7, <1>11, <2>1, StayFrom
<1>13. CASE s = <<>>
  BY <1>9, <1>12, <1>13 DEF PositionIn
<1>14. CASE s # <<>>
  <2>1. PICK a \in Creators : Chain(s, a)
    BY <1>4, <1>14 DEF LogInv
  <2> HIDE DEF s
  <2>2. CASE a # c
    <3>1. r.admin_pub # Key("ik_sign", a) /\ (old # None => old.admin_pub # Key("ik_sign", a))
      BY <1>3, <1>5, <2>2 DEF assert_admin, Key
    <3>2. PositionIn(s, r) = 0 /\ PositionIn(s, old) = 0
      <4> HIDE DEF old
      <4> QED BY <1>10, <2>1, <3>1, NotInChain
    <3> QED BY <1>9, <1>12, <3>2
  <2>3. CASE a = c
    <3>1. PICK k \in DOMAIN s : s[k] = r
      BY <1>3, <2>3, InLog DEF s
    <3>2. PositionIn(s, r) = k
      BY <1>10, <2>1, <3>1, InChain
    <3>3. k \in Nat /\ 0 < k /\ k <= Len(s) /\ Len(s) \in Nat
      BY <1>10, <3>1
    <3>4. PositionIn(s, old) \in Nat /\ PositionIn(s, old) < k
      <4>1. CASE old = None
        BY <3>3, <4>1 DEF PositionIn
      <4>2. CASE old # None
        <5>1. PICK i \in DOMAIN s : s[i] = old
          <6>1. /\ old.group_id = g
                /\ old \in Range(issued) \/ old.admin_pub.of \in OtherClients
                /\ assert_admin(old, a)
            BY <1>3, <1>4, <1>5, <2>3, <4>2 DEF Inv, HeldInv, assert_admin
          <6> QED BY <6>1, InLog DEF s
        <5>2. PositionIn(s, old) = i
          BY <1>10, <2>1, <5>1, InChain
        <5>3. s[i].epoch < s[k].epoch /\ s[i].epoch \in Nat /\ s[k].epoch \in Nat
          BY <1>5, <2>1, <3>1, <4>2, <5>1 DEF Chain
        <5>4. i \in Nat /\ ~(k < i) /\ i # k
          <6>1. i \in Nat
            BY <1>10
          <6>2. k < i => s[k].epoch < s[i].epoch
            BY <2>1 DEF Chain
          <6> QED BY <5>3, <6>1, <6>2
        <5> QED BY <3>3, <5>2, <5>4
      <4> QED BY <4>1, <4>2
    <3>5. Log!Follow(b, g)
      <4>1. is_member(IssuedFor(g)[k], Key("ik_sign", b)) /\ k <= Len(IssuedFor(g))
            /\ Len(IssuedFor(g)) \in Nat
        BY <1>3, <3>1, <3>3 DEF s
      <4> HIDE DEF g, old
      <4> QED BY <1>4, <1>7, <1>8, <1>9, <3>2, <3>3, <3>4, <4>1, FollowFrom
    <3> QED BY <1>4, <1>11, <3>5
  <2> QED BY <2>2, <2>3
<1> QED BY <1>13, <1>14

---------------------------------------------------------------------------
(* The refinement.                                                         *)

LEMMA LogInit == Init => Log!Init /\ LogInv
<1> SUFFICES ASSUME Init PROVE Log!Init /\ LogInv
  OBVIOUS
<1>1. \A g \in Gids : IssuedFor(g) = <<>>
  BY RetainEmpty DEF Init, IssuedFor
<1>2. \A a \in Accounts, g \in Gids : Position(a, g) = 0
  BY DEF Init, Position, PositionIn
<1> QED BY <1>1, <1>2 DEF Log!Init, LogInv

LEMMA LogNext ==
    ASSUME MaxRestores = 0, Creators \cap OtherClients = {}
    PROVE  Inv /\ LogInv /\ [Next]_vars => LogInv' /\ [Log!Next]_(Log!vars)
<1> SUFFICES ASSUME Inv, LogInv, [Next]_vars PROVE LogInv' /\ [Log!Next]_(Log!vars)
  OBVIOUS
<1>1. CASE UNCHANGED vars
  <2>1. \A h \in Gids : IssuedFor(h)' = IssuedFor(h)
    BY <1>1 DEF vars, IssuedFor, Versions
  <2>2. held' = held
    BY <1>1 DEF vars
  <2>3. \A b \in Accounts, h \in Gids : Position(b, h)' = Position(b, h)
    BY <2>1, <2>2 DEF Position
  <2>4. LogInv'
    BY <2>1, <2>2 DEF LogInv, Chain
  <2> QED BY <2>1, <2>3, <2>4, StayFrom
<1>2. ASSUME NEW a \in Creators, NEW g \in Gids, CreateGroup(a, g)
      PROVE  LogInv' /\ Log!Extend(a, g)
  <2> DEFINE r == create_group(a, public_bundle_for(a), g, "")
  <2>1. a \in Accounts /\ Build(a, g, r) /\ r # None
    BY <1>2, GroupAssumption DEF CreateGroup, Build
  <2>2. Genuine(r) /\ r.group_id = g /\ assert_admin(r, a)
    BY <2>1, CreateBuilds
  <2>3. IssuedFor(g) = <<>>
    <3> SUFFICES ASSUME IssuedFor(g) # <<>> PROVE FALSE
      OBVIOUS
    <3>1. PICK b \in Creators :
             Chain(IssuedFor(g), b) /\ held[b][g] = IssuedFor(g)[Len(IssuedFor(g))]
      BY DEF LogInv
    <3>2. Len(IssuedFor(g)) \in DOMAIN IssuedFor(g)
      BY LogRange
    <3>3. held[b][g] # None
      BY <3>1, <3>2 DEF Chain
    <3> QED BY <1>2, <3>3, GroupAssumption DEF CreateGroup
  <2> HIDE DEF r
  <2> QED BY <2>1, <2>2, <2>3, BuildStep
<1>3. ASSUME NEW a \in Creators, NEW g \in Gids, Changes(a, g)
      PROVE  LogInv' /\ Log!Extend(a, g)
  <2>1. a \in Accounts
    BY GroupAssumption
  <2>2. PICK r : held[a][g] # None /\ Build(a, g, r) /\ NextVersion(a, held[a][g], r)
    BY <1>3, <2>1, ChangesBuild
  <2>3. /\ Genuine(r) /\ assert_admin(r, a) /\ assert_admin(held[a][g], a)
        /\ r.group_id = held[a][g].group_id
        /\ r.epoch = held[a][g].epoch + 1
    BY <2>2 DEF Build, NextVersion
  <2>4. held[a][g].group_id = g /\ held[a][g].epoch \in Nat
    BY <2>1, <2>2 DEF Inv, HeldInv, Genuine, Shaped
  <2>5. held[a][g].epoch < r.epoch
    BY <2>3, <2>4
  <2>6. Chain(IssuedFor(g), a) /\ held[a][g] = IssuedFor(g)[Len(IssuedFor(g))]
    BY <2>2, <2>3, OwnIsLast
  <2> QED BY <2>2, <2>3, <2>4, <2>5, <2>6, BuildStep
<1>4. ASSUME NEW a \in Creators, NEW g \in Gids, Restore(a, g) PROVE FALSE
  BY <1>4 DEF Restore, Inv
<1>5. ASSUME NEW b \in Accounts, NEW a \in Accounts \ {b}, NEW r \in Sent(a),
             Receive(b, a, r) \/ AcceptInvite(b, a, r)
      PROVE  LogInv' /\ [Log!Next]_(Log!vars)
  BY <1>5, StoreStep DEF Log!Next
<1>6. \/ UNCHANGED vars
      \/ \E a \in Creators, g \in Gids : CreateGroup(a, g) \/ Changes(a, g) \/ Restore(a, g)
      \/ \E b \in Accounts : \E a \in Accounts \ {b} : \E r \in Sent(a) :
            Receive(b, a, r) \/ AcceptInvite(b, a, r)
  BY DEF Next, Changes
<1>7. ASSUME NEW a \in Creators, NEW g \in Gids, Log!Extend(a, g) PROVE Log!Next
  BY <1>7, GroupAssumption DEF Log!Next
<1> QED BY <1>1, <1>2, <1>3, <1>4, <1>5, <1>6, <1>7

\* While the admins of groups go on from the newest roster and sign only what
\* they build, a group is one log that its members follow forwards, each from a
\* version that lists it to a later one, whatever is sent, changed or lost on
\* the way (sign_unsigned, evaluate_incoming_roster).
THEOREM GroupIsOneLog ==
    ASSUME MaxRestores = 0, Creators \cap OtherClients = {}
    PROVE  Spec => ImplementsLog
<1>1. Init => Log!Init /\ LogInv
  BY LogInit
<1>2. Inv /\ LogInv /\ [Next]_vars => LogInv' /\ [Log!Next]_(Log!vars)
  BY LogNext
<1> QED BY <1>1, <1>2, Invariance, PTL DEF Spec, ImplementsLog, Log!Spec
============================================================================
