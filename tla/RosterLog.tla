----------------------------- MODULE RosterLog -----------------------------
(***************************************************************************)
(* What group.rs promises the members of a group: its creator extends a    *)
(* log of versions, and everybody else follows it, forwards only, skipping *)
(* what they like, and only to versions that list them.                    *)
(***************************************************************************)
EXTENDS Naturals, Sequences

CONSTANTS Groups, Followers, Lists(_, _)  \* Lists(version, follower)

VARIABLES
    log,  \* log[g]: the versions of g, oldest first
    at    \* at[f][g]: the position of the version of g that f has, 0 for none

vars == <<log, at>>

Init ==
    /\ log = [g \in Groups |-> <<>>]
    /\ at = [f \in Followers |-> [g \in Groups |-> 0]]

\* Only who has the last version writes the next, and has it at once.
Extend(f, g) ==
    LET next == Len(log[g]) + 1
    IN  /\ at[f][g] = Len(log[g])
        /\ Len(log'[g]) = next
        /\ Lists(log'[g][next], f)
        /\ log' = [log EXCEPT ![g] = Append(@, log'[g][next])]
        /\ at' = [at EXCEPT ![f][g] = next]

Follow(f, g) ==
    /\ \E k \in at[f][g] + 1 .. Len(log[g]) :
          /\ Lists(log[g][k], f)
          /\ at' = [at EXCEPT ![f][g] = k]
    /\ UNCHANGED log

Next == \E f \in Followers, g \in Groups : Extend(f, g) \/ Follow(f, g)

Spec == Init /\ [][Next]_vars
============================================================================
