---------------------- MODULE MCPersistenceCoordinator ----------------------
\* An instance for TLC: one caller resumes, the other does anything.
EXTENDS PersistenceCoordinator
CONSTANTS c1, c2
TwoCallers == {c1, c2}
CallerOps  == [c \in TwoCallers |-> IF c = c1 THEN {"prepare"} ELSE Ops]
CoordinatorLimit == [calls |-> 2, faults |-> 2]
=============================================================================
