----------------------------- MODULE MCSchedule -----------------------------
\* Instances for TLC: reminders for the next tick, for the last instant and for
\* every tick; either two calls and a failure or one call and two failures.
EXTENDS Schedule

Reminders == {[kind |-> "after", time |-> 1], [kind |-> "at", time |-> 3],
              [kind |-> "every", time |-> 1]}
ScheduleMixes == {[calls |-> 2, turns |-> 2, faults |-> 1],
                  [calls |-> 1, turns |-> 1, faults |-> 2]}
=============================================================================
