------------------------ MODULE MCSessionWriteBehind ------------------------
\* Instance for TLC: two concurrent flush callers.
EXTENDS SessionWriteBehind
CONSTANTS c1, c2
MCCallers == {c1, c2}
=============================================================================
