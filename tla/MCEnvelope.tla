----------------------------- MODULE MCEnvelope -----------------------------
EXTENDS Envelope
============================================================================
