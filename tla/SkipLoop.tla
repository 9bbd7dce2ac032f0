------------------------------ MODULE SkipLoop ------------------------------
(***************************************************************************)
(* The loops of skip_message_keys and evict_oldest_skipped_keys            *)
(* (src/src/ratchet.rs), one iteration a step, from any bank a session may *)
(* have: within the cap or, sealed by a version without one, beyond it,    *)
(* and with an order list that is complete, partial or empty.  RatchetOps  *)
(* states in one go what the loops leave; here they are run.               *)
(***************************************************************************)
EXTENDS RatchetOps

CONSTANTS
    OldIds,    \* ids of keys of earlier chains a bank may start with
    MaxPassed, \* bound: receiving_msg_number at the start
    MaxUntil   \* bound: message number skipped to

\* The peer key of the chain that is being forwarded.
Dhr == <<"initiator", 2>>

ASSUME LoopAssumption ==
    /\ OldIds \subseteq SkippedIds
    /\ IsFiniteSet(OldIds)
    /\ \A id \in OldIds : id[1] # Dhr
    /\ MaxPassed \in Nat
    /\ MaxUntil \in Nat

VARIABLES
    start,  \* the state skip_message_keys is called with
    until,  \* and its argument
    s,      \* the state as it goes along
    ck,     \* its local chain key
    pc      \* "skip": head of its loop; "evict": in bank_skipped_key; "done"

vars == <<start, until, s, ck, pc>>

\* Keys of the chain itself are banked only for messages already passed.
Init ==
    /\ \E n \in 0..MaxPassed :
       \E ids \in SUBSET (OldIds \cup ({Dhr} \X (0..n-1))) :
       \E ordered \in SUBSET ids :
       \E order \in SetToSeqs(ordered) :
          start = [init_responder(<<"responder", 0>>) EXCEPT
                     !.dhr = Dhr,
                     !.receiving_msg_number = n,
                     !.receiving_chain_key = [rk |-> <<{Dhr}>>, i |-> n],
                     !.skipped_keys = {[id |-> id, mk |-> [rk |-> <<{id[1]}>>, i |-> id[2]]] :
                                          id \in ids},
                     !.skipped_key_order = order]
    /\ until \in 0..MaxUntil
    /\ start.receiving_msg_number + MAX_SKIP >= until
    /\ s = start
    /\ ck = start.receiving_chain_key
    /\ pc = "skip"

\* Mutant: keys from before the order list existed are not adopted.
NoAdoption ==
    LET id == skipped_key_id(s.dhr, s.receiving_msg_number)
        banked == [s EXCEPT
                     !.skipped_keys = {e \in @ : e.id # id} \cup {[id |-> id, mk |-> kdf_ck(ck).mk]},
                     !.skipped_key_order = IF id \in Ids(s.skipped_keys) THEN @ ELSE Append(@, id)]
    IN  /\ pc = "skip"
        /\ s.receiving_msg_number < until
        /\ ck' = kdf_ck(ck).next
        /\ IF Cardinality(banked.skipped_keys) <= MAX_SKIPPED_KEYS
           THEN s' = [banked EXCEPT !.receiving_msg_number = @ + 1] /\ pc' = pc
           ELSE s' = banked /\ pc' = "evict"
        /\ UNCHANGED <<start, until>>

\* One key into the bank, up to the cap check in evict_oldest_skipped_keys.
BankKey ==
    LET id == skipped_key_id(s.dhr, s.receiving_msg_number)
        banked == [s EXCEPT
                     !.skipped_keys = {e \in @ : e.id # id} \cup {[id |-> id, mk |-> kdf_ck(ck).mk]},
                     !.skipped_key_order = IF id \in Ids(s.skipped_keys) THEN @ ELSE Append(@, id)]
    IN  /\ pc = "skip"
        /\ s.receiving_msg_number < until
        /\ ck' = kdf_ck(ck).next
        /\ IF Cardinality(banked.skipped_keys) <= MAX_SKIPPED_KEYS
           THEN s' = [banked EXCEPT !.receiving_msg_number = @ + 1] /\ pc' = pc
           ELSE s' = adopt_unordered_skipped_keys(banked) /\ pc' = "evict"
        /\ UNCHANGED <<start, until>>

OverCap == /\ Cardinality(s.skipped_keys) > MAX_SKIPPED_KEYS
           /\ s.skipped_key_order # <<>>

\* Mutant: the newest key goes.
EvictNewest ==
    /\ pc = "evict"
    /\ OverCap
    /\ s' = [s EXCEPT !.skipped_keys = {e \in @ : e.id # Last(s.skipped_key_order)},
                      !.skipped_key_order = Front(@)]
    /\ UNCHANGED <<start, until, ck, pc>>

EvictKey ==
    /\ pc = "evict"
    /\ OverCap
    /\ s' = [s EXCEPT !.skipped_keys = {e \in @ : e.id # Head(s.skipped_key_order)},
                      !.skipped_key_order = Tail(@)]
    /\ UNCHANGED <<start, until, ck, pc>>

Evicted ==
    /\ pc = "evict"
    /\ ~OverCap
    /\ s' = [s EXCEPT !.receiving_msg_number = @ + 1]
    /\ pc' = "skip"
    /\ UNCHANGED <<start, until, ck>>

Finish ==
    /\ pc = "skip"
    /\ s.receiving_msg_number >= until
    /\ s' = [s EXCEPT !.receiving_chain_key = ck]
    /\ pc' = "done"
    /\ UNCHANGED <<start, until, ck>>

Next == BankKey \/ EvictKey \/ Evicted \/ Finish

Spec == Init /\ [][Next]_vars /\ WF_vars(Next)

---------------------------------------------------------------------------

\* What the loops leave, key by key, is what skip_message_keys of RatchetOps
\* says in one go: same bank, same order, same chain position, whatever was
\* evicted on the way and whenever the unordered keys were adopted.
LoopComputesSkip ==
    pc = "done" => [err |-> "none", s |-> s] = skip_message_keys(start, until)

\* The loops end, with the bank within its cap: eviction never finds the order
\* list empty while keys are left over the cap, even for an over-full bank of
\* an older version.
EndsWithinCap ==
    <>(pc = "done" /\ (until > start.receiving_msg_number =>
                         Cardinality(s.skipped_keys) <= MAX_SKIPPED_KEYS))
============================================================================
