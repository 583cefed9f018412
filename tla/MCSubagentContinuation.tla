----------------------- MODULE MCSubagentContinuation -----------------------
\* An instance for TLC: a child, and its child.
EXTENDS SubagentContinuation
CONSTANTS root, child, grandchild
Family == {child, grandchild}
Lineage == [c \in Family |-> IF c = child THEN root ELSE child]
Resumable == {child}
SubagentLimit == [calls |-> 3, faults |-> 1]
=============================================================================
