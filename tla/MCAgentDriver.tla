--------------------------- MODULE MCAgentDriver ---------------------------
\* Instances for TLC: two interchangeable messages, and for each run the
\* mixes of disturbances.
EXTENDS AgentDriver
CONSTANTS m1, m2
MCMessages == {m1, m2}
Symmetry == Permutations(MCMessages)

Calm == [kind \in Kinds |-> 0]
LogMixes  == {[Calm EXCEPT !["cancels"] = 1, !["edits"] = 1, !["jobs"] = 1],
              [Calm EXCEPT !["cancels"] = 1, !["steps"] = 1, !["crashes"] = 1]}
LiveMixes == {[Calm EXCEPT !["cancels"] = 1, !["disposals"] = 1]}
=============================================================================
