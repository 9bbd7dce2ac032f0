------------------------------ MODULE Channel ------------------------------
(***************************************************************************)
(* What a ratchet session promises the two ends of a conversation: each    *)
(* sealed message is new, and each end reads only messages the other end   *)
(* sealed, each of them at most once, in any order.  Nothing is promised   *)
(* about delivery.                                                         *)
(***************************************************************************)
EXTENDS Sequences, Functions

CONSTANTS Ends, OtherEnd(_)

VARIABLES
    sent,   \* sent[p]: the messages p sealed, in that order
    read    \* read[p]: the messages whose plaintext p was given, in that order

vars == <<sent, read>>

Init ==
    /\ sent = [p \in Ends |-> <<>>]
    /\ read = [p \in Ends |-> <<>>]

Send(p) ==
    /\ \E m \in Range(sent'[p]) \ Range(sent[p]) :
          sent' = [sent EXCEPT ![p] = Append(@, m)]
    /\ UNCHANGED read

Read(p) ==
    /\ \E m \in Range(sent[OtherEnd(p)]) \ Range(read[p]) :
          read' = [read EXCEPT ![p] = Append(@, m)]
    /\ UNCHANGED sent

Next == \E p \in Ends : Send(p) \/ Read(p)

Spec == Init /\ [][Next]_vars
============================================================================
