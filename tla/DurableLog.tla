----------------------------- MODULE DurableLog -----------------------------
(***************************************************************************)
(* What session persistence promises the rest of the harness, with no      *)
(* queues, timers or retries: a log whose events become durable in the     *)
(* order in which they were accepted, and a flush that reports success     *)
(* only when everything accepted before the call is durable.               *)
(*                                                                         *)
(* Events are their sequence numbers: 1 .. accepted is everything the      *)
(* session has appended and 1 .. durable what a restart would read back.   *)
(***************************************************************************)
EXTENDS Naturals

CONSTANTS Callers,     \* the concurrent users of flush
          MaxEvents    \* bound on the number of accepted events

VARIABLES accepted,    \* number of events the session has appended
          durable,     \* number of events the backend has made durable
          call,        \* caller -> "idle", "waiting", "resolved", "rejected"
          must         \* caller -> how many events its flush has to cover

vars == <<accepted, durable, call, must>>

CallStates == {"idle", "waiting", "resolved", "rejected"}

Init == /\ accepted \in 0 .. MaxEvents
        /\ durable \in 0 .. accepted
        /\ call = [c \in Callers |-> "idle"]
        /\ must = [c \in Callers |-> 0]

Accept == /\ accepted < MaxEvents
          /\ accepted' = accepted + 1
          /\ UNCHANGED <<durable, call, must>>

Persist == /\ \E k \in (durable + 1) .. accepted : durable' = k
           /\ UNCHANGED <<accepted, call, must>>

Flush(c) == /\ call[c] # "waiting"
            /\ call' = [call EXCEPT ![c] = "waiting"]
            /\ must' = [must EXCEPT ![c] = accepted]
            /\ UNCHANGED <<accepted, durable>>

\* One barrier settles any number of waiting callers at once.
Settle(outcome) ==
  /\ call' \in [Callers -> CallStates]
  /\ \A c \in Callers : call'[c] # call[c] => call[c] = "waiting" /\ call'[c] = outcome
  /\ UNCHANGED <<accepted, durable, must>>

Resolve == /\ Settle("resolved")
           /\ \A c \in Callers : call'[c] # call[c] => must[c] <= durable

Reject == Settle("rejected")

Next == \/ Accept
        \/ Persist
        \/ \E c \in Callers : Flush(c)
        \/ Resolve
        \/ Reject

Spec == Init /\ [][Next]_vars
=============================================================================
