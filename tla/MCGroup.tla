------------------------------ MODULE MCGroup ------------------------------
(* Instances of Group for TLC. *)
EXTENDS Group, TLC

CONSTANTS p1, p2, p3, g1, g2

MCName == "renamed"
MCPhoto == [file |-> "photo", thumb |-> "small"]

\* Accounts that create no groups are alike, and so are group ids.
MCSymmetry == Permutations(Accounts \ Creators) \cup Permutations(Gids)
============================================================================
