------------------------------ MODULE Ratchet ------------------------------
(***************************************************************************)
(* A Double Ratchet session between two parties (src/src/ratchet.rs), from *)
(* the state X3DH leaves both of them in, over a network that may reorder, *)
(* duplicate, lose, reflect and garble what it carries: at any time either *)
(* party may be handed any message ever sent, by the peer or by itself, or *)
(* a garbled copy of one.                                                  *)
(***************************************************************************)
EXTENDS RatchetOps

CONSTANTS
    MaxSent,    \* bound: messages each party seals
    Garbles,    \* whether the network also garbles what it carries
    MaxHeader,  \* bound: largest number in a garbled header
    Upgraders,  \* parties whose session was sealed by an older version
    Wipers      \* parties that may drop their session

ASSUME BoundsAssumption ==
    /\ MaxSent \in Nat
    /\ Garbles \in BOOLEAN
    /\ MaxHeader \in Nat
    /\ Upgraders \subseteq Party
    /\ Wipers \subseteq Party

VARIABLES
    st,        \* st[p]: the RatchetState of p
    sent,      \* sent[p]: the messages p sealed, in that order
    read,      \* read[p]: the messages ratchet_decrypt opened for p, in order
    upgraded,  \* parties that have loaded the session of an older version
    dropped    \* parties that have dropped their session

vars == <<st, sent, read, upgraded, dropped>>

\* The signed prekey X3DH used: both ratchets start from it.
Spk == <<"responder", 0>>

Init ==
    /\ st = [p \in Party |-> IF p = "initiator" THEN init_initiator(Spk)
                                                ELSE init_responder(Spk)]
    /\ sent = [p \in Party |-> <<>>]
    /\ read = [p \in Party |-> <<>>]
    /\ upgraded = {}
    /\ dropped = {}

---------------------------------------------------------------------------
(* The network.                                                            *)

AllSent == UNION {Range(sent[p]) : p \in Party}

\* Keys a garbled header may name: one in use, one nobody owns, not a key.
Named == {m.header.dh : m \in AllSent} \cup {Spk, <<"other", 0>>, None}

\* A copy with one header field, or the ciphertext, changed.
Garbled(m) ==
         {[m EXCEPT !.header.n = k] : k \in 0..MaxHeader}
    \cup {[m EXCEPT !.header.pn = k] : k \in 0..MaxHeader}
    \cup {[m EXCEPT !.header.dh = k] : k \in Named}
    \cup {[m EXCEPT !.sealed = None]}

OnTheWire == AllSent \cup UNION {Garbled(m) : m \in IF Garbles THEN AllSent ELSE {}}

---------------------------------------------------------------------------
(* The operations of a party: on a session it has not dropped.             *)

Wiped(p) == p \in dropped

Encrypt(p) ==
    /\ ~Wiped(p)
    /\ Len(sent[p]) < MaxSent
    /\ st[p].sending_chain_key # None
    /\ sent' = [sent EXCEPT ![p] = Append(@, EncryptedMessage(st[p]))]
    /\ st' = [st EXCEPT ![p] = ratchet_encrypt(@)]
    /\ UNCHANGED <<read, upgraded, dropped>>

\* A ciphertext that is refused leaves the state ratchet_decrypt returns.
Decrypt(p, m) ==
    /\ ~Wiped(p)
    /\ \E r \in {ratchet_decrypt(st[p], m)} :
          /\ st' = [st EXCEPT ![p] = r.s]
          /\ read' = IF r.err = "none" THEN [read EXCEPT ![p] = Append(@, m)] ELSE read
    /\ UNCHANGED <<sent, upgraded, dropped>>

\* p saved its session with a version that had neither the cap on banked keys
\* nor the two lists, and continues with this one.  Until the cap bites, the
\* older version's state is this one's without the lists: it banked all but
\* one of the messages sent to it, or fewer.
Upgrade(p) ==
    /\ ~Wiped(p)
    /\ p \notin upgraded
    /\ Len(sent[Peer(p)]) <= MAX_SKIPPED_KEYS + 1
    /\ st' = [st EXCEPT ![p] = LoadLegacy(@)]
    /\ upgraded' = upgraded \cup {p}
    /\ UNCHANGED <<sent, read, dropped>>

\* p drops its session, and drop calls zeroize_secrets.  st[p] is what stays in
\* the memory it occupied; no function is called on it again.
Wipe(p) ==
    /\ ~Wiped(p)
    /\ st' = [st EXCEPT ![p] = zeroize_secrets(@)]
    /\ dropped' = dropped \cup {p}
    /\ UNCHANGED <<sent, read, upgraded>>

Next ==
    \/ \E p \in Party : Encrypt(p)
    \/ \E p \in Party, m \in OnTheWire : Decrypt(p, m)
    \/ \E p \in Upgraders : Upgrade(p)
    \/ \E p \in Wipers : Wipe(p)

Spec == Init /\ [][Next]_vars

\* An intact copy of the peer's i-th message arrives and is opened.
Deliver(p, i) == /\ i \in DOMAIN sent[Peer(p)]
                 /\ read' = [read EXCEPT ![p] = Append(@, sent[Peer(p)][i])]
                 /\ Decrypt(p, sent[Peer(p)][i])

\* The relay keeps a message until it has been opened, and retries.
FairSpec == Spec /\ \A p \in Party, i \in 1..MaxSent : WF_vars(Deliver(p, i))

---------------------------------------------------------------------------
(* Properties.                                                             *)

TypeOK ==
    /\ st \in [Party -> RatchetState]
    /\ sent \in [Party -> Seq(Messages)]
    /\ read \in [Party -> Seq(Messages)]
    /\ upgraded \subseteq Party
    /\ dropped \subseteq Party

Verdict(p, m) == ratchet_decrypt(st[p], m).err

\* Only what the peer sealed is ever opened, and never twice, whatever the
\* network does: ratchet_decrypt with its replay check, its bank of skipped
\* keys and the header in the associated data implement Channel.
Abstract == INSTANCE Channel WITH Ends <- Party, OtherEnd <- Peer
ImplementsChannel == Abstract!Spec

\* The peer's i-th message is out of reach for good: refused, and not just
\* until the gap in front of it closes.
Lost(p, i) == Verdict(p, sent[Peer(p)][i]) \notin {"none", "TooManySkipped"}
Unread(p, i) == sent[Peer(p)][i] \notin Range(read[p])
Banked(p, i) ==
    LET header == sent[Peer(p)][i].header
    IN  skipped_key_id(header.dh, header.n) \in Ids(st[p].skipped_keys)

\* An unread message is lost only to evict_oldest_skipped_keys, hence only
\* behind MAX_SKIPPED_KEYS others that were banked when it went, and none of
\* them older (a session from an older version has no ages for its keys).  So
\* a refused message loses nothing (the rollback in ratchet_decrypt), nor does
\* a Diffie-Hellman step with messages of the old chain still in flight.
LostOnlyToTheCap ==
    \A p \in Party : \A i \in DOMAIN sent[Peer(p)] :
        Unread(p, i) /\ Lost(p, i) /\ ~Wiped(p) =>
            LET others == {j \in DOMAIN sent[Peer(p)] \ {i} : p \in upgraded \/ j > i}
            IN  /\ Cardinality({j \in others : ~Unread(p, j) \/ Banked(p, j) \/ Lost(p, j)})
                      >= MAX_SKIPPED_KEYS
                /\ \A j \in DOMAIN sent[Peer(p)] : Banked(p, j) => j \in others

\* The map and its order list agree: no id twice, none without a key, and,
\* except for keys from an older version, none missing; and the map stays
\* within its cap (bank_skipped_key, try_skipped_message_key, the adoption).
BankOrder ==
    \A p \in Party :
        LET s == st[p] IN
        /\ IsInjective(s.skipped_key_order)
        /\ Range(s.skipped_key_order) \subseteq Ids(s.skipped_keys)
        /\ p \in upgraded \/ Range(s.skipped_key_order) = Ids(s.skipped_keys)
        /\ Cardinality(s.skipped_keys) = Cardinality(Ids(s.skipped_keys))
        /\ Cardinality(s.skipped_keys) <= MAX_SKIPPED_KEYS

\* The state s still yields message key k: from the bank, by advancing a
\* chain key, or through a root key k was derived from.
Yields(s, k) ==
    \/ \E e \in s.skipped_keys : e.mk = k
    \/ \E ck \in {s.sending_chain_key, s.receiving_chain_key} \ {None} :
          ck.rk = k.rk /\ ck.i <= k.i
    \/ IsStrictPrefix(s.root_key, k.rk)

\* Forward secrecy: nothing a party keeps yields the key of a message it has
\* sent or read (kdf_ck and kdf_rk overwrite, a used skipped key is removed).
UsedKeysAreGone ==
    \A p \in Party : \A m \in Range(sent[p]) \cup Range(read[p]) :
        ~Yields(st[p], m.sealed.key)

\* A message already read is refused as a replay while its chain is current
\* or among the last MAX_RETIRED_DH_KEYS completed ones.  Nothing is said of
\* a party that has loaded a session of an older version: it starts without the
\* list of completed chains.
RecentReplayIsReplay ==
    \A p \in Party \ upgraded : \A m \in Range(read[p]) :
        \/ Wiped(p)
        \/ st[p].dhr[2] - m.header.dh[2] > MAX_RETIRED_DH_KEYS
        \/ Verdict(p, m) = "Replay"

\* What the comment in ratchet_decrypt_inner and the README say of every
\* message of a completed chain, however long ago it was completed.
ReadIsReplay ==
    \A p \in Party : \A m \in Range(read[p]) : Wiped(p) \/ Verdict(p, m) = "Replay"

\* What drop leaves of a session opens none of it: neither what was sent or
\* read before, nor what was still in flight or banked, nor what the peer, who
\* knows nothing of the drop, seals afterwards (zeroize_secrets).
WipedHoldsNothing ==
    \A p \in Party : Wiped(p) => \A m \in AllSent : ~Yields(st[p], m.sealed.key)

\* With a bank that holds everything, every message is eventually read in
\* whatever order the copies arrive, even when MAX_SKIP makes the ones ahead
\* wait for those before them.
EventuallyRead ==
    \A p \in Party, i \in 1..MaxSent :
        i \in DOMAIN sent[Peer(p)] ~> i \in DOMAIN sent[Peer(p)] /\ ~Unread(p, i)
============================================================================
