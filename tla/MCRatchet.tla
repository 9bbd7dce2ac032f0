----------------------------- MODULE MCRatchet -----------------------------
EXTENDS Ratchet
============================================================================
