-------------------------- MODULE MCToolScheduler --------------------------
\* Instances for TLC: for each run, the disturbances it mixes.
EXTENDS ToolScheduler
Calm == [kind \in Kinds |-> 0]
PoolLimit    == [Calm EXCEPT !["registry"] = 1]
RetryLimit   == [Calm EXCEPT !["retries"] = 1]
AllLimit     == [kind \in Kinds |-> 1]
First == {1}
Second == {2}
=============================================================================
