----------------------------- MODULE MCFormats -----------------------------
(***************************************************************************)
(* The two conversions of the crate in one run: the text of the TOTP       *)
(* secret (Base32) and the plaintext of a message (Envelope).  Neither     *)
(* reads the other's state, so envelopes are sent beside the conversion of *)
(* the empty secret only.                                                  *)
(***************************************************************************)
EXTENDS Base32

CONSTANTS Texts, Wrong, None, Empty

VARIABLES meant, wire, got

Plaintext == INSTANCE Envelope

FormatsInit == Init /\ Plaintext!Init

FormatsNext ==
    \/ Next /\ UNCHANGED <<meant, wire, got>>
    \/ bytes = <<>> /\ Plaintext!Next /\ UNCHANGED vars

FormatsSpec == FormatsInit /\ [][FormatsNext]_<<vars, meant, wire, got>>

\* What is sent is read as it was meant (decode_envelope): see Envelope.
ReadsWhatWasMeant == Plaintext!ReadsWhatWasMeant
============================================================================
