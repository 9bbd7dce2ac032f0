---------------------------- MODULE MCHandshake ----------------------------
EXTENDS Handshake
============================================================================
