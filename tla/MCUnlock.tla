------------------------------ MODULE MCUnlock ------------------------------
(* Instances of Unlock for TLC. *)
EXTENDS Unlock

\* An authenticator that is behind, right, or ahead.
MCSkews == {-2, 0, 4}
============================================================================
