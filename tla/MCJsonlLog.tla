----------------------------- MODULE MCJsonlLog -----------------------------
\* Instances for TLC: both encodings, chosen in the initial state.
EXTENDS JsonlLog
FileLimit == [faults |-> 2, cleanups |-> 1, stops |-> 1, losses |-> 1]
=============================================================================
