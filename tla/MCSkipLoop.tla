----------------------------- MODULE MCSkipLoop -----------------------------
EXTENDS SkipLoop

\* Two keys left of one earlier chain and one of another.
MCOldIds == {<<<<"initiator", 0>>, 1>>, <<<<"initiator", 0>>, 2>>, <<<<"initiator", 1>>, 0>>}
============================================================================
