------------------------ MODULE ToolSchedulerProofs ------------------------
(***************************************************************************)
(* The tool scheduler for any number of calls, any pool size, any modes    *)
(* and any number of cancellations, registry changes, retries and          *)
(* failures.                                                               *)
(*                                                                         *)
(* First who may run and when the scheduler stops, from the counters, the  *)
(* pool and the stages alone; then what the log holds for every call, from *)
(* how SessionLog's readers answer an append (SessionLogProofs); then what *)
(* crash repair makes of the log, wherever it was cut.                     *)
(***************************************************************************)
EXTENDS ToolScheduler, SessionLogProofs, FiniteSetTheorems

Starting == {"called", "preparing", "prepared"}
Waiting  == {"pause", "fill", "drain"}
Busy     == Starting \cup {"drain", "resume", "commit", "finalizing", "pause"}

Typed ==
  /\ pc \in Busy \cup {"group", "fill", "failing", "done", "failed"}
  /\ safe \in [Calls -> BOOLEAN]
  /\ signal \in BOOLEAN /\ aborted \in BOOLEAN /\ failure \in BOOLEAN
  /\ pool \in [first : Nat, last : Nat, parallel : BOOLEAN]
  /\ started \in 0..N /\ committed \in 0..N
  /\ inFlight \subseteq Calls
  /\ stage \in [Calls -> Stages] /\ startedAs \in [Calls -> BOOLEAN]

\* The group being run, and who is in its pool.
GroupOK ==
  /\ 1 <= pool.first /\ pool.first <= started + 1
  /\ started <= pool.last /\ pool.last <= N
  /\ ~pool.parallel => pool.last <= pool.first
  /\ pool.parallel => /\ pool.first <= N
                      /\ \A c \in pool.first..started : startedAs[c]
  /\ inFlight \subseteq pool.first..started
  /\ pc \in {"group", "done"} => inFlight = {}
  /\ pc = "fill" /\ pool.parallel /\ started < pool.first => safe[pool.first]
  /\ pc \in Busy => pool.first <= started

BoundOK ==
  /\ Cardinality(inFlight) <= MaxParallel
  /\ pc \in Starting => Cardinality(inFlight) < MaxParallel

\* How far each call is, against the counters that follow the model order.
StageOK ==
  /\ committed <= started
  /\ \A c \in Calls : Active(c) => c \in inFlight
  /\ pc # "done" => \A c \in Calls : c > started => stage[c] = "planned"
  /\ pc # "done" => \A c \in Calls : committed < c /\ c <= started =>
                      stage[c] \notin {"planned", "over"}
  /\ \A c \in Calls : stage[c] = "preparing" =>
       failure \/ (pc \in Starting /\ c = started)

AbortOK ==
  /\ aborted => signal
  /\ pc = "fill" /\ signal => aborted

\* A failure stops the scheduler at its next step; without one, the first
\* uncommitted call is still to be raced whenever the scheduler waits.
FailureOK ==
  /\ pc \in {"group", "fill"} => ~failure
  /\ pc \in {"failing", "failed"} => failure
  /\ \A c \in Calls : stage[c] = "rejected" => failure
  /\ pc = "group" => committed = started
  /\ ~failure /\ pc \in Waiting \cup Starting /\ committed < started =>
       \/ committed + 1 \in inFlight
       \/ (pc \in Starting /\ committed + 1 = started)
  /\ pc \in {"done", "failed"} => \A c \in Calls : ~Active(c)

SchedulerInv == Typed /\ GroupOK /\ BoundOK /\ StageOK /\ AbortOK /\ FailureOK
-----------------------------------------------------------------------------
\* The scheduler starts with nothing started.
LEMMA InitInv == SchedulerInit => SchedulerInv
<1> SUFFICES ASSUME SchedulerInit PROVE SchedulerInv
  OBVIOUS
<1> USE SchedulerAssumption DEF SchedulerInit, Calls, Starting, Waiting, Busy, Active, Stages
<1>1. Typed
  <2>1. stage \in [Calls -> Stages] /\ startedAs \in [Calls -> BOOLEAN]
    BY DEF SchedulerInit
  <2>2. pool \in [first : Nat, last : Nat, parallel : BOOLEAN]
    BY DEF SchedulerInit
  <2>3. inFlight \subseteq Calls /\ started \in 0..N /\ committed \in 0..N
    BY DEF SchedulerInit
  <2>4. signal \in BOOLEAN /\ aborted \in BOOLEAN /\ failure \in BOOLEAN
    BY DEF SchedulerInit
  <2>5. pc = "group" /\ safe \in [Calls -> BOOLEAN]
    BY DEF SchedulerInit
  <2> QED
    BY <2>1, <2>2, <2>3, <2>4, <2>5 DEF Typed
<1>2. Cardinality(inFlight) = 0
  BY FS_EmptySet
<1>3. GroupOK /\ BoundOK
  BY <1>2 DEF GroupOK, BoundOK
<1>4. StageOK /\ AbortOK /\ FailureOK
  BY DEF StageOK, AbortOK, FailureOK
<1> QED
  BY <1>1, <1>3, <1>4 DEF SchedulerInv

\* The pool is a finite set, so it has a size to bound.
LEMMA PoolFinite == Typed => IsFiniteSet(inFlight)
<1>1. IsFiniteSet(1..N)
  BY SchedulerAssumption, FS_Interval
<1> QED
  BY <1>1, FS_Subset DEF Typed, Calls

\* Every step of the scheduler, of a dispatched call and of the environment
\* keeps the invariant.
LEMMA NextInv == SchedulerInv /\ [SchedulerNext]_vars => SchedulerInv'
<1> SUFFICES ASSUME SchedulerInv, [SchedulerNext]_vars PROVE SchedulerInv'
  OBVIOUS
<1> USE SchedulerAssumption DEF SchedulerInv, Calls, Starting, Waiting, Busy, Active, Stages, group, calls, world, Goto
<1>1. ASSUME Cancel PROVE SchedulerInv'
  <2>1. Typed'
    BY <1>1 DEF Cancel, Interruptible, Typed
  <2>2. GroupOK'
    BY <1>1 DEF Cancel, Interruptible, GroupOK
  <2>3. BoundOK'
    BY <1>1 DEF Cancel, Interruptible, BoundOK
  <2>4. StageOK'
    BY <1>1 DEF Cancel, Interruptible, StageOK
  <2>5. AbortOK'
    BY <1>1 DEF Cancel, Interruptible, AbortOK
  <2>6. FailureOK'
    BY <1>1 DEF Cancel, Interruptible, FailureOK
  <2> QED
    BY <2>1, <2>2, <2>3, <2>4, <2>5, <2>6
<1>2. ASSUME Register PROVE SchedulerInv'
  <2>1. Typed'
    BY <1>2 DEF Register, Interruptible, Spend, Typed
  <2>2. GroupOK'
    BY <1>2 DEF Register, Interruptible, Spend, GroupOK
  <2>3. BoundOK'
    BY <1>2 DEF Register, Interruptible, Spend, BoundOK
  <2>4. StageOK'
    BY <1>2 DEF Register, Interruptible, Spend, StageOK
  <2>5. AbortOK'
    BY <1>2 DEF Register, Interruptible, Spend, AbortOK
  <2>6. FailureOK'
    BY <1>2 DEF Register, Interruptible, Spend, FailureOK
  <2> QED
    BY <2>1, <2>2, <2>3, <2>4, <2>5, <2>6
<1>3. ASSUME Throws PROVE SchedulerInv'
  <2>1. Typed'
    BY <1>3 DEF Throws, Spend, Typed
  <2>2. GroupOK'
    BY <1>3 DEF Throws, Spend, GroupOK
  <2>3. BoundOK'
    BY <1>3 DEF Throws, Spend, BoundOK
  <2>4. StageOK'
    BY <1>3 DEF Throws, Spend, StageOK
  <2>5. AbortOK'
    BY <1>3 DEF Throws, Spend, AbortOK
  <2>6. FailureOK'
    BY <1>3 DEF Throws, Spend, FailureOK
  <2> QED
    BY <2>1, <2>2, <2>3, <2>4, <2>5, <2>6
<1>4. ASSUME OpenGroup PROVE SchedulerInv'
  <2>1. Typed'
    BY <1>4 DEF OpenGroup, Typed
  <2>2. GroupOK'
    BY <1>4 DEF OpenGroup, Typed, GroupOK
  <2>3. BoundOK'
    BY <1>4 DEF OpenGroup, BoundOK
  <2>4. StageOK'
    BY <1>4 DEF OpenGroup, StageOK
  <2>5. AbortOK'
    BY <1>4 DEF OpenGroup, AbortOK
  <2>6. FailureOK'
    BY <1>4 DEF OpenGroup, Typed, FailureOK
  <2> QED
    BY <2>1, <2>2, <2>3, <2>4, <2>5, <2>6
<1>5. ASSUME AllStarted PROVE SchedulerInv'
  <2>1. Typed'
    BY <1>5 DEF AllStarted, Typed
  <2>2. GroupOK'
    BY <1>5 DEF AllStarted, GroupOK
  <2>3. BoundOK'
    BY <1>5 DEF AllStarted, BoundOK
  <2>4. StageOK'
    BY <1>5 DEF AllStarted, StageOK
  <2>5. AbortOK'
    BY <1>5 DEF AllStarted, AbortOK
  <2>6. FailureOK'
    BY <1>5 DEF AllStarted, Typed, GroupOK, StageOK, FailureOK
  <2> QED
    BY <2>1, <2>2, <2>3, <2>4, <2>5, <2>6
<1>6. ASSUME StartCall PROVE SchedulerInv'
  <2>1. Typed'
    BY <1>6 DEF StartCall, MayStart, Typed, GroupOK, BoundOK, StageOK,
      AbortOK, FailureOK
  <2>2. GroupOK'
    BY <1>6 DEF StartCall, MayStart, Typed, GroupOK
  <2>3. BoundOK'
    BY <1>6 DEF StartCall, MayStart, BoundOK
  <2>4. StageOK'
    BY <1>6 DEF StartCall, MayStart, Typed, StageOK
  <2>5. AbortOK'
    BY <1>6 DEF StartCall, MayStart, AbortOK
  <2>6. FailureOK'
    BY <1>6 DEF StartCall, MayStart, Typed, FailureOK
  <2> QED
    BY <2>1, <2>2, <2>3, <2>4, <2>5, <2>6
<1>7. ASSUME EnterPrepare PROVE SchedulerInv'
  <2>1. Typed'
    BY <1>7 DEF EnterPrepare, Current, Typed
  <2>2. GroupOK'
    BY <1>7 DEF EnterPrepare, Current, GroupOK
  <2>3. BoundOK'
    BY <1>7 DEF EnterPrepare, Current, BoundOK
  <2>4. StageOK'
    BY <1>7 DEF EnterPrepare, Current, StageOK
  <2>5. AbortOK'
    BY <1>7 DEF EnterPrepare, Current, AbortOK
  <2>6. FailureOK'
    BY <1>7 DEF EnterPrepare, Current, FailureOK
  <2> QED
    BY <2>1, <2>2, <2>3, <2>4, <2>5, <2>6
<1>8. ASSUME PrepareSettles PROVE SchedulerInv'
  <2>1. Typed'
    BY <1>8 DEF PrepareSettles, Current, Typed
  <2>2. GroupOK'
    BY <1>8 DEF PrepareSettles, Current, GroupOK
  <2>3. BoundOK'
    BY <1>8 DEF PrepareSettles, Current, BoundOK
  <2>4. StageOK'
    BY <1>8 DEF PrepareSettles, Current, StageOK
  <2>5. AbortOK'
    BY <1>8 DEF PrepareSettles, Current, AbortOK
  <2>6. FailureOK'
    BY <1>8 DEF PrepareSettles, Current, FailureOK
  <2> QED
    BY <2>1, <2>2, <2>3, <2>4, <2>5, <2>6
<1>9. ASSUME Prepared PROVE SchedulerInv'
  <2>1. Typed'
    <3>1. started \in Calls
      BY <1>9 DEF Prepared, Typed, GroupOK
    <3>2. /\ inFlight' = inFlight \/ inFlight' = inFlight \cup {started}
          /\ \E to \in {"flushing", "settled"} :
               stage' = [stage EXCEPT ![started] = to]
      BY <1>9 DEF Prepared, Current
    <3>3. inFlight' \subseteq Calls /\ stage' \in [Calls -> Stages]
      <4>1. inFlight \subseteq Calls /\ stage \in [Calls -> Stages]
        BY DEF Typed
      <4>2. inFlight' \subseteq Calls
        BY <3>1, <3>2, <4>1
      <4>3. stage' \in [Calls -> Stages]
        BY <3>2, <4>1
      <4> QED
        BY <4>2, <4>3
    <3>4. /\ pc' = "resume"
          /\ UNCHANGED <<safe, signal, aborted, failure, pool, started,
                         committed, startedAs>>
      BY <1>9 DEF Prepared
    <3> QED
      BY <3>3, <3>4 DEF Typed
  <2>2. GroupOK'
    <3>1. pc = "prepared" /\ pc' = "resume" /\ inFlight' \subseteq inFlight \cup {started}
      BY <1>9 DEF Prepared, Current
    <3>2. UNCHANGED <<pool, started, startedAs, safe>>
      BY <1>9 DEF Prepared
    <3>3. started \in pool.first..started
      BY <3>1 DEF Typed, GroupOK
    <3> QED
      BY <3>1, <3>2, <3>3 DEF GroupOK
  <2>3. BoundOK'
    <3>1. pc = "prepared" /\ pc' = "resume"
      BY <1>9 DEF Prepared
    <3>2. inFlight' = inFlight \/ inFlight' = inFlight \cup {started}
      BY <1>9 DEF Prepared, Current
    <3>3. Cardinality(inFlight) \in Nat
      BY PoolFinite, FS_CardinalityType
    <3>4. Cardinality(inFlight') <= Cardinality(inFlight) + 1
      BY <3>2, <3>3, PoolFinite, FS_AddElement
    <3>5. Cardinality(inFlight') \in Nat
      BY <3>2, PoolFinite, FS_AddElement, FS_CardinalityType
    <3> QED
      BY <3>1, <3>3, <3>4, <3>5 DEF BoundOK
  <2>4. StageOK'
    BY <1>9 DEF Prepared, Current, Typed, StageOK
  <2>5. AbortOK'
    BY <1>9 DEF Prepared, Current, AbortOK
  <2>6. FailureOK'
    BY <1>9 DEF Prepared, Current, Typed, FailureOK
  <2> QED
    BY <2>1, <2>2, <2>3, <2>4, <2>5, <2>6
<1>10. ASSUME Resume PROVE SchedulerInv'
  <2>1. Typed'
    BY <1>10 DEF Resume, Typed
  <2>2. GroupOK'
    BY <1>10 DEF Resume, GroupOK
  <2>3. BoundOK'
    BY <1>10 DEF Resume, BoundOK
  <2>4. StageOK'
    BY <1>10 DEF Resume, StageOK
  <2>5. AbortOK'
    BY <1>10 DEF Resume, AbortOK
  <2>6. FailureOK'
    BY <1>10 DEF Resume, FailureOK
  <2> QED
    BY <2>1, <2>2, <2>3, <2>4, <2>5, <2>6
<1>11. ASSUME CommitFinal PROVE SchedulerInv'
  <2>1. Typed'
    BY <1>11 DEF CommitFinal, Ready, Next1, AppendResult, Typed
  <2>2. GroupOK'
    BY <1>11 DEF CommitFinal, Ready, Next1, AppendResult, GroupOK
  <2>3. BoundOK'
    BY <1>11 DEF CommitFinal, Ready, Next1, AppendResult, BoundOK
  <2>4. StageOK'
    BY <1>11 DEF CommitFinal, Ready, Next1, AppendResult, Typed, StageOK
  <2>5. AbortOK'
    BY <1>11 DEF CommitFinal, Ready, Next1, AppendResult, AbortOK
  <2>6. FailureOK'
    BY <1>11 DEF CommitFinal, Ready, Next1, AppendResult, FailureOK
  <2> QED
    BY <2>1, <2>2, <2>3, <2>4, <2>5, <2>6
<1>12. ASSUME StartFinalize PROVE SchedulerInv'
  <2>1. Typed'
    BY <1>12 DEF StartFinalize, Typed
  <2>2. GroupOK'
    BY <1>12 DEF StartFinalize, GroupOK
  <2>3. BoundOK'
    BY <1>12 DEF StartFinalize, BoundOK
  <2>4. StageOK'
    BY <1>12 DEF StartFinalize, StageOK
  <2>5. AbortOK'
    BY <1>12 DEF StartFinalize, AbortOK
  <2>6. FailureOK'
    BY <1>12 DEF StartFinalize, FailureOK
  <2> QED
    BY <2>1, <2>2, <2>3, <2>4, <2>5, <2>6
<1>13. ASSUME Finalize PROVE SchedulerInv'
  <2>1. Typed'
    BY <1>13 DEF Finalize, Ready, Next1, AppendResult, Typed
  <2>2. GroupOK'
    BY <1>13 DEF Finalize, Ready, Next1, AppendResult, GroupOK
  <2>3. BoundOK'
    BY <1>13 DEF Finalize, Ready, Next1, AppendResult, BoundOK
  <2>4. StageOK'
    BY <1>13 DEF Finalize, Ready, Next1, AppendResult, Typed, StageOK
  <2>5. AbortOK'
    BY <1>13 DEF Finalize, Ready, Next1, AppendResult, AbortOK
  <2>6. FailureOK'
    BY <1>13 DEF Finalize, Ready, Next1, AppendResult, FailureOK
  <2> QED
    BY <2>1, <2>2, <2>3, <2>4, <2>5, <2>6
<1>14. ASSUME CommittedReady PROVE SchedulerInv'
  <2>1. Typed'
    BY <1>14 DEF CommittedReady, Ready, Next1, Typed
  <2>2. GroupOK'
    BY <1>14 DEF CommittedReady, Ready, Next1, GroupOK
  <2>3. BoundOK'
    BY <1>14 DEF CommittedReady, Ready, Next1, BoundOK
  <2>4. StageOK'
    BY <1>14 DEF CommittedReady, Ready, Next1, StageOK
  <2>5. AbortOK'
    BY <1>14 DEF CommittedReady, Ready, Next1, AbortOK
  <2>6. FailureOK'
    BY <1>14 DEF CommittedReady, Ready, Next1, Typed, StageOK, FailureOK
  <2> QED
    BY <2>1, <2>2, <2>3, <2>4, <2>5, <2>6
<1>15. ASSUME Refill PROVE SchedulerInv'
  <2>1. Typed'
    BY <1>15 DEF Refill, Typed
  <2>2. GroupOK'
    BY <1>15 DEF Refill, Typed, GroupOK
  <2>3. BoundOK'
    BY <1>15 DEF Refill, BoundOK
  <2>4. StageOK'
    BY <1>15 DEF Refill, StageOK
  <2>5. AbortOK'
    BY <1>15 DEF Refill, AbortOK
  <2>6. FailureOK'
    BY <1>15 DEF Refill, FailureOK
  <2> QED
    BY <2>1, <2>2, <2>3, <2>4, <2>5, <2>6
<1>16. ASSUME AwaitPool PROVE SchedulerInv'
  <2>1. Typed'
    BY <1>16 DEF AwaitPool, Typed
  <2>2. GroupOK'
    <3>1. PICK d \in inFlight : d \in pool.first..started
      BY <1>16 DEF AwaitPool, GroupOK
    <3>2. pool.first <= started
      BY <3>1 DEF Typed
    <3> QED
      BY <1>16, <3>2 DEF AwaitPool, GroupOK
  <2>3. BoundOK'
    BY <1>16 DEF AwaitPool, BoundOK
  <2>4. StageOK'
    BY <1>16 DEF AwaitPool, StageOK
  <2>5. AbortOK'
    BY <1>16 DEF AwaitPool, AbortOK
  <2>6. FailureOK'
    BY <1>16 DEF AwaitPool, FailureOK
  <2> QED
    BY <2>1, <2>2, <2>3, <2>4, <2>5, <2>6
<1>17. ASSUME Race PROVE SchedulerInv'
  <2>1. Typed'
    BY <1>17 DEF Race, Typed
  <2>2. GroupOK'
    BY <1>17 DEF Race, GroupOK
  <2>3. BoundOK'
    <3>1. inFlight' \subseteq inFlight /\ pc' = "resume"
      BY <1>17 DEF Race
    <3>2. Cardinality(inFlight') <= Cardinality(inFlight)
      BY <3>1, PoolFinite, FS_Subset
    <3>3. Cardinality(inFlight) \in Nat /\ Cardinality(inFlight') \in Nat
      BY <3>1, PoolFinite, FS_Subset, FS_CardinalityType
    <3> QED
      BY <3>1, <3>2, <3>3 DEF BoundOK
  <2>4. StageOK'
    BY <1>17 DEF Race, StageOK
  <2>5. AbortOK'
    BY <1>17 DEF Race, AbortOK
  <2>6. FailureOK'
    BY <1>17 DEF Race, FailureOK
  <2> QED
    BY <2>1, <2>2, <2>3, <2>4, <2>5, <2>6
<1>18. ASSUME CloseGroup PROVE SchedulerInv'
  <2>1. Typed'
    BY <1>18 DEF CloseGroup, Typed
  <2>2. GroupOK'
    BY <1>18 DEF CloseGroup, GroupOK
  <2>3. BoundOK'
    BY <1>18 DEF CloseGroup, BoundOK
  <2>4. StageOK'
    BY <1>18 DEF CloseGroup, StageOK
  <2>5. AbortOK'
    BY <1>18 DEF CloseGroup, AbortOK
  <2>6. FailureOK'
    BY <1>18 DEF CloseGroup, Typed, StageOK, FailureOK
  <2> QED
    BY <2>1, <2>2, <2>3, <2>4, <2>5, <2>6
<1>19. ASSUME SkipRest PROVE SchedulerInv'
  <2>1. Typed'
    BY <1>19 DEF SkipRest, Skipped, Typed
  <2>2. GroupOK'
    BY <1>19 DEF SkipRest, Skipped, GroupOK
  <2>3. BoundOK'
    BY <1>19 DEF SkipRest, Skipped, BoundOK
  <2>4. StageOK'
    BY <1>19 DEF SkipRest, Skipped, StageOK
  <2>5. AbortOK'
    BY <1>19 DEF SkipRest, Skipped, AbortOK
  <2>6. FailureOK'
    BY <1>19 DEF SkipRest, Skipped, Typed, StageOK, FailureOK
  <2> QED
    BY <2>1, <2>2, <2>3, <2>4, <2>5, <2>6
<1>20. ASSUME Rethrows PROVE SchedulerInv'
  <2>1. Typed'
    BY <1>20 DEF Rethrows, Typed
  <2>2. GroupOK'
    BY <1>20 DEF Rethrows, GroupOK
  <2>3. BoundOK'
    BY <1>20 DEF Rethrows, BoundOK
  <2>4. StageOK'
    BY <1>20 DEF Rethrows, StageOK
  <2>5. AbortOK'
    BY <1>20 DEF Rethrows, AbortOK
  <2>6. FailureOK'
    BY <1>20 DEF Rethrows, FailureOK
  <2> QED
    BY <2>1, <2>2, <2>3, <2>4, <2>5, <2>6
<1>21. ASSUME Drain PROVE SchedulerInv'
  <2>1. Typed'
    BY <1>21 DEF Drain, Typed
  <2>2. GroupOK'
    BY <1>21 DEF Drain, GroupOK
  <2>3. BoundOK'
    BY <1>21 DEF Drain, BoundOK
  <2>4. StageOK'
    BY <1>21 DEF Drain, StageOK
  <2>5. AbortOK'
    BY <1>21 DEF Drain, AbortOK
  <2>6. FailureOK'
    BY <1>21 DEF Drain, Typed, StageOK, FailureOK
  <2> QED
    BY <2>1, <2>2, <2>3, <2>4, <2>5, <2>6
<1>22. ASSUME Settled PROVE SchedulerInv'
  <2>1. Typed'
    BY <1>22 DEF Settled, vars, Typed
  <2>2. GroupOK'
    BY <1>22 DEF Settled, vars, GroupOK
  <2>3. BoundOK'
    BY <1>22 DEF Settled, vars, BoundOK
  <2>4. StageOK'
    BY <1>22 DEF Settled, vars, StageOK
  <2>5. AbortOK'
    BY <1>22 DEF Settled, vars, AbortOK
  <2>6. FailureOK'
    BY <1>22 DEF Settled, vars, FailureOK
  <2> QED
    BY <2>1, <2>2, <2>3, <2>4, <2>5, <2>6
<1>23. ASSUME NEW c \in Calls, Dispatched(c) PROVE SchedulerInv'
  <2>1. Typed'
    BY <1>23 DEF Dispatched, Flushed, BodyStarts, BodySettles,
      DispatchSettles, Settle, quiet, Spend, Typed
  <2>2. GroupOK'
    BY <1>23 DEF Dispatched, Flushed, BodyStarts, BodySettles,
      DispatchSettles, Settle, quiet, Spend, GroupOK
  <2>3. BoundOK'
    BY <1>23 DEF Dispatched, Flushed, BodyStarts, BodySettles,
      DispatchSettles, Settle, quiet, Spend, BoundOK
  <2>4. StageOK'
    BY <1>23 DEF Dispatched, Flushed, BodyStarts, BodySettles,
      DispatchSettles, Settle, quiet, Spend, Typed, StageOK
  <2>5. AbortOK'
    BY <1>23 DEF Dispatched, Flushed, BodyStarts, BodySettles,
      DispatchSettles, Settle, quiet, Spend, AbortOK
  <2>6. FailureOK'
    BY <1>23 DEF Dispatched, Flushed, BodyStarts, BodySettles,
      DispatchSettles, Settle, quiet, Spend, Typed, GroupOK, StageOK, FailureOK
  <2> QED
    BY <2>1, <2>2, <2>3, <2>4, <2>5, <2>6
<1>24. ASSUME NEW c \in Calls, Retry(c) PROVE SchedulerInv'
  <2>1. Typed'
    BY <1>24 DEF Retry, Settle, quiet, Spend, Typed
  <2>2. GroupOK'
    BY <1>24 DEF Retry, Settle, quiet, Spend, GroupOK
  <2>3. BoundOK'
    BY <1>24 DEF Retry, Settle, quiet, Spend, BoundOK
  <2>4. StageOK'
    BY <1>24 DEF Retry, Settle, quiet, Spend, StageOK
  <2>5. AbortOK'
    BY <1>24 DEF Retry, Settle, quiet, Spend, AbortOK
  <2>6. FailureOK'
    BY <1>24 DEF Retry, Settle, quiet, Spend, FailureOK
  <2> QED
    BY <2>1, <2>2, <2>3, <2>4, <2>5, <2>6
<1>25. CASE UNCHANGED vars
  BY <1>25 DEF vars, Typed, GroupOK, BoundOK, StageOK, AbortOK, FailureOK
<1> QED
  BY <1>1, <1>2, <1>3, <1>4, <1>5, <1>6, <1>7, <1>8, <1>9, <1>10, <1>11, <1>12,
     <1>13, <1>14, <1>15, <1>16, <1>17, <1>18, <1>19, <1>20, <1>21, <1>22, <1>23, <1>24, <1>25
  DEF SchedulerNext, Scheduler
-----------------------------------------------------------------------------
\* The control state of runGroup and of the calls it started keeps the
\* invariant above in every behaviour.
THEOREM SchedulerCorrect == SchedulerSpec => []SchedulerInv
  BY InitInv, NextInv, PTL DEF SchedulerSpec

\* A call that was exclusive when startCall began overlaps no other dispatch:
\* the reclassification in fillPool makes it wait for the pool to drain.
THEOREM BarrierCorrect == SchedulerSpec => []ExclusiveAlone
<1>1. SchedulerInv => ExclusiveAlone
  <2> SUFFICES ASSUME SchedulerInv, NEW c \in Calls, NEW d \in Calls,
                      Active(c), Active(d), c # d
               PROVE  startedAs[c] /\ startedAs[d]
    BY DEF ExclusiveAlone
  <2>1. c \in pool.first..started /\ d \in pool.first..started
    BY DEF SchedulerInv, StageOK, GroupOK
  <2>2. pool.parallel
    BY <2>1 DEF SchedulerInv, Typed, GroupOK
  <2> QED
    BY <2>1, <2>2 DEF SchedulerInv, GroupOK
<1> QED
  BY <1>1, SchedulerCorrect, PTL

\* maxParallelToolCalls bounds the dispatched calls that have not settled.
THEOREM PoolCorrect == SchedulerSpec => []PoolBounded
<1>1. SchedulerInv => PoolBounded
  <2> SUFFICES ASSUME SchedulerInv PROVE PoolBounded
    OBVIOUS
  <2> DEFINE running == {c \in Calls : Active(c)}
  <2>1. running \subseteq inFlight
    BY DEF SchedulerInv, StageOK
  <2>2. IsFiniteSet(inFlight)
    BY PoolFinite DEF SchedulerInv
  <2>3. /\ Cardinality(running) <= Cardinality(inFlight)
        /\ Cardinality(running) \in Nat /\ Cardinality(inFlight) \in Nat
    BY <2>1, <2>2, FS_Subset, FS_CardinalityType
  <2> QED
    BY <2>3, SchedulerAssumption DEF SchedulerInv, BoundOK, PoolBounded
<1> QED
  BY <1>1, SchedulerCorrect, PTL

\* executeToolCalls throws only a recorded failure and only after the drain:
\* the error for uncommitted settled calls (tool-calls.ts:244) is unreachable.
THEOREM DrainCorrect == SchedulerSpec => []FailureDrains
<1>1. SchedulerInv => FailureDrains
  BY DEF SchedulerInv, FailureOK, FailureDrains
<1> QED
  BY <1>1, SchedulerCorrect, PTL

\* After the signal is aborted no step starts a call, although fillPool looks
\* only at its cached copy of the signal.
THEOREM AbortCorrect == SchedulerSpec => AbortStopsStarts
<1>1. SchedulerInv /\ [SchedulerNext]_vars =>
        (signal => \A c \in Calls : stage'[c] = "preparing" => stage[c] = stage'[c])
  <2> SUFFICES ASSUME SchedulerInv, [SchedulerNext]_vars, signal, NEW c \in Calls,
                      stage'[c] = "preparing"
               PROVE  stage[c] = stage'[c]
    OBVIOUS
  <2> USE DEF SchedulerInv, Typed, group, calls, world, Goto
  <2>1. ~StartCall
    BY DEF StartCall, MayStart, AbortOK
  <2>2. CASE Prepared
    BY <2>2 DEF Prepared
  <2>3. CASE CommitFinal \/ Finalize
    BY <2>3 DEF CommitFinal, Finalize, AppendResult
  <2>4. CASE SkipRest
    BY <2>4 DEF SkipRest
  <2>5. ASSUME NEW d \in Calls, Dispatched(d) \/ Retry(d) PROVE stage[c] = stage'[c]
    BY <2>5 DEF Dispatched, Retry, Flushed, BodyStarts, BodySettles,
                DispatchSettles, Settle, quiet
  <2>6. CASE UNCHANGED stage
    BY <2>6
  <2> QED
    BY <2>1, <2>2, <2>3, <2>4, <2>5, <2>6
    DEF SchedulerNext, Scheduler, Settled, vars, Cancel, Register, Throws,
        OpenGroup, AllStarted, EnterPrepare, PrepareSettles, Resume,
        StartFinalize, CommittedReady, Refill, AwaitPool, Race, CloseGroup,
        Rethrows, Drain
<1> QED
  BY <1>1, SchedulerCorrect, PTL DEF SchedulerSpec, AbortStopsStarts

\* Once schedulerFailure is set no prepared call is dispatched, not even the one
\* whose prepare was pending when a sibling failed.
THEOREM FailureCorrect == SchedulerSpec => FailureStopsDispatch
<1>1. SchedulerInv /\ [SchedulerNext]_vars =>
        (failure => \A c \in Calls : stage'[c] = "flushing" => stage[c] = stage'[c])
  <2> SUFFICES ASSUME SchedulerInv, [SchedulerNext]_vars, failure, NEW c \in Calls,
                      stage'[c] = "flushing"
               PROVE  stage[c] = stage'[c]
    OBVIOUS
  <2> USE DEF SchedulerInv, Typed, group, calls, world, Goto
  <2>1. ~Prepared
    BY DEF Prepared
  <2>2. CASE StartCall
    BY <2>2 DEF StartCall
  <2>3. CASE CommitFinal \/ Finalize
    BY <2>3 DEF CommitFinal, Finalize, AppendResult
  <2>4. CASE SkipRest
    BY <2>4 DEF SkipRest
  <2>5. ASSUME NEW d \in Calls, Dispatched(d) \/ Retry(d) PROVE stage[c] = stage'[c]
    BY <2>5 DEF Dispatched, Retry, Flushed, BodyStarts, BodySettles,
                DispatchSettles, Settle, quiet
  <2>6. CASE UNCHANGED stage
    BY <2>6
  <2> QED
    BY <2>1, <2>2, <2>3, <2>4, <2>5, <2>6
    DEF SchedulerNext, Scheduler, Settled, vars, Cancel, Register, Throws,
        OpenGroup, AllStarted, EnterPrepare, PrepareSettles, Resume,
        StartFinalize, CommittedReady, Refill, AwaitPool, Race, CloseGroup,
        Rethrows, Drain
<1> QED
  BY <1>1, SchedulerCorrect, PTL DEF SchedulerSpec, FailureStopsDispatch
-----------------------------------------------------------------------------
(***************************************************************************)
(* What enters the log.                                                    *)
(***************************************************************************)
LogEvent ==
  {TurnStart(1), StepStart(1, 1), Assistant(1, 1, [i \in Calls |-> i])}
    \cup [type : {"tool/call"}, turn : {1}, step : {1}, call : Calls]
    \cup [type : {"tool/result"}, turn : {1}, step : {1}, call : Calls,
          error : Results]
    \cup [type : {"agent/inbox/spliced"}, target : {"next-step"}, start : Nat,
          removed : {0}, inserted : {<<c>> : c \in Calls}, canceled : {FALSE}]

\* A result the log holds.
HasResult(l, c, kind) ==
  \E i \in 1..Len(l) :
    l[i].type = "tool/result" /\ l[i].call = c /\ l[i].error = kind

\* The first k events of l hold the calls of 1..s and the results of 1..r, in
\* order and each once.
Numbered(l, k, r, s) ==
  /\ \A i \in 1..k : /\ l[i].type = "tool/call" => l[i].call \in 1..s
                     /\ l[i].type = "tool/result" => l[i].call \in 1..r
  /\ \A c \in 1..s : \E i \in 1..k : l[i].type = "tool/call" /\ l[i].call = c
  /\ \A c \in 1..r : \E i \in 1..k : l[i].type = "tool/result" /\ l[i].call = c
  /\ \A i, j \in 1..k : i < j =>
       /\ l[i].type = "tool/call" /\ l[j].type = "tool/call" =>
            l[i].call < l[j].call
       /\ l[i].type = "tool/result" /\ l[j].type = "tool/result" =>
            l[i].call < l[j].call

\* The trace while the step is open, with the calls that have no result yet.
StepTrace(pending) ==
  [openTurn |-> 1, openStep |-> 1, nextTurn |-> 1, nextStep |-> 1,
   pendingCalls |-> pending]

\* A log of the open step with the calls of 1..s and the results of 1..r.
Shape(l, r, s) ==
  /\ l \in Seq(LogEvent) /\ Numbered(l, Len(l), r, s)
  /\ Traces(l)[Len(l)] = StepTrace((r + 1)..s)

\* The contexts staged for the next step, of the first r calls.
Staged(l, r) ==
  LET box == ReplayInbox(l)
  IN  /\ box \in [Targets -> Seq(Calls)]
      /\ \A i, j \in 1..Len(box["next-step"]) :
           i < j => box["next-step"][i] < box["next-step"][j]
      /\ ToSet(box["next-step"]) = Deferring \cap 1..r

\* How many results and calls the log has: all, once the rest was skipped.
Done(count) == IF pc = "done" THEN N ELSE count

LogOK ==
  /\ Shape(log, Done(committed), Done(started))
  /\ Staged(log, committed)

\* A result a slot can be filled with, and a slot.
Answer == [kind : Results, post : BOOLEAN]
Slot   == Answer \cup {Pending}

DataTyped ==
  /\ outcome \in [Calls -> Slot]
  /\ \A c \in Calls : stage[c] \in {"returned", "settled"} => outcome[c] \in Answer
  /\ invoked \in [Calls -> BOOLEAN] /\ concluded \in BOOLEAN
  /\ used \in [Kinds -> Nat]

\* The turn concludes when a concluding call has succeeded.
ConcludedOK ==
  concluded <=> \E c \in Concluding : HasResult(log, c, "ok")

\* What a result says of the body: aborted only if it ran; and, as long as no
\* wrapper delegates twice, before dispatch only if it did not.
Truthful(kind, ran) ==
  /\ kind = "ABORTED" => ran
  /\ kind = "ABORTED_BEFORE_DISPATCH" /\ Limit["retries"] = 0 => ~ran

ToldOK ==
  /\ pc \in Starting => stage[started] = "preparing"
  /\ \A c \in Calls : Truthful(outcome[c].kind, invoked[c])
  /\ \A c \in Calls : stage[c] = "running" => invoked[c]
  /\ \A c \in Calls : stage[c] \in {"planned", "preparing"} => ~invoked[c]
  /\ \A c \in Calls : stage[c] \in {"flushing", "wrapping"} =>
       outcome[c] = Pending /\ (Limit["retries"] = 0 => ~invoked[c])
  /\ \A c \in Calls, kind \in Results : HasResult(log, c, kind) =>
       stage[c] = "over" /\ Truthful(kind, invoked[c])

LogInv == SchedulerInv /\ DataTyped /\ LogOK /\ ConcludedOK /\ ToldOK
-----------------------------------------------------------------------------
\* The rules accept a call event in the open step, and await its result.
LEMMA CallEvent ==
  ASSUME NEW c \in Calls, NEW P
  PROVE  /\ ToolCall(1, 1, c) \in LogEvent
         /\ validateEvent(StepTrace(P), ToolCall(1, 1, c))
         /\ applyTransition(StepTrace(P), ToolCall(1, 1, c)) = StepTrace(P \cup {c})
<1>1. ToolCall(1, 1, c) \in LogEvent
  BY DEF LogEvent, ToolCall
<1>2. validateEvent(StepTrace(P), ToolCall(1, 1, c))
  BY DEF validateEvent, requireOpenStep, StepTrace, ToolCall
<1>3. applyTransition(StepTrace(P), ToolCall(1, 1, c)) = StepTrace(P \cup {c})
  BY DEF applyTransition, StepTrace, ToolCall
<1> QED
  BY <1>1, <1>2, <1>3

\* The rules accept the result of a call that has none yet.
LEMMA ResultEvent ==
  ASSUME NEW c \in Calls, NEW kind \in Results, NEW P
  PROVE  /\ ToolResult(1, 1, c, kind) \in LogEvent
         /\ c \in P => validateEvent(StepTrace(P), ToolResult(1, 1, c, kind))
         /\ applyTransition(StepTrace(P), ToolResult(1, 1, c, kind)) = StepTrace(P \ {c})
<1>1. ToolResult(1, 1, c, kind) \in LogEvent
  BY DEF LogEvent, ToolResult
<1>2. c \in P => validateEvent(StepTrace(P), ToolResult(1, 1, c, kind))
  BY DEF validateEvent, requireOpenStep, StepTrace, ToolResult
<1>3. applyTransition(StepTrace(P), ToolResult(1, 1, c, kind)) = StepTrace(P \ {c})
  BY DEF applyTransition, StepTrace, ToolResult
<1> QED
  BY <1>1, <1>2, <1>3

\* The rules accept a staged context anywhere.
LEMMA SpliceEvent ==
  ASSUME NEW n \in Nat, NEW c \in Calls, NEW P
  PROVE  /\ Spliced("next-step", n, 0, <<c>>, FALSE) \in LogEvent
         /\ validateEvent(StepTrace(P), Spliced("next-step", n, 0, <<c>>, FALSE))
         /\ applyTransition(StepTrace(P), Spliced("next-step", n, 0, <<c>>, FALSE)) = StepTrace(P)
<1>1. Spliced("next-step", n, 0, <<c>>, FALSE) \in LogEvent
  BY DEF LogEvent, Spliced
<1>2. validateEvent(StepTrace(P), Spliced("next-step", n, 0, <<c>>, FALSE))
  BY DEF validateEvent, requireOpenStep, StepTrace, Spliced
<1>3. applyTransition(StepTrace(P), Spliced("next-step", n, 0, <<c>>, FALSE)) = StepTrace(P)
  BY DEF applyTransition, StepTrace, Spliced
<1> QED
  BY <1>1, <1>2, <1>3

\* A log with an event more, position by position.
LEMMA AppendedLog ==
  ASSUME NEW l \in Seq(LogEvent), NEW e \in LogEvent
  PROVE  /\ Append(l, e) \in Seq(LogEvent) /\ Len(l) \in Nat
         /\ Len(Append(l, e)) = Len(l) + 1
         /\ \A i \in 1..Len(l) : Append(l, e)[i] = l[i]
         /\ Append(l, e)[Len(l) + 1] = e
         /\ Traces(Append(l, e))[Len(l) + 1]
              = applyTransition(Traces(l)[Len(l)], e)
         /\ l \o <<e>> = Append(l, e)
  BY AppendProperties, LenProperties, TracesAppend, AppendIsConcat

\* Numbering the call event of the next call.
LEMMA NumberedCall ==
  ASSUME NEW l, NEW m, NEW k \in Nat, NEW r \in Nat, NEW s \in Nat,
         \A i \in 1..k : m[i] = l[i], Numbered(l, k, r, s),
         m[k + 1].type = "tool/call", m[k + 1].call = s + 1
  PROVE  Numbered(m, k + 1, r, s + 1)
<1> USE DEF Numbered
<1>1. \A i \in 1..(k + 1) :
        /\ m[i].type = "tool/call" => m[i].call \in 1..(s + 1)
        /\ m[i].type = "tool/result" => m[i].call \in 1..(r)
  OBVIOUS
<1>2. \A c \in 1..(s + 1) :
        \E i \in 1..(k + 1) : m[i].type = "tool/call" /\ m[i].call = c
  OBVIOUS
<1>3. \A c \in 1..(r) :
        \E i \in 1..(k + 1) : m[i].type = "tool/result" /\ m[i].call = c
  OBVIOUS
<1>4. ASSUME NEW i \in 1..(k + 1), NEW j \in 1..(k + 1), i < j
      PROVE  /\ m[i].type = "tool/call" /\ m[j].type = "tool/call" =>
                  m[i].call < m[j].call
             /\ m[i].type = "tool/result" /\ m[j].type = "tool/result" =>
                  m[i].call < m[j].call
  BY <1>4
<1> QED
  BY <1>1, <1>2, <1>3, <1>4

\* Numbering the result of the next call in model order.
LEMMA NumberedResult ==
  ASSUME NEW l, NEW m, NEW k \in Nat, NEW r \in Nat, NEW s \in Nat,
         \A i \in 1..k : m[i] = l[i], Numbered(l, k, r, s),
         m[k + 1].type = "tool/result", m[k + 1].call = r + 1
  PROVE  Numbered(m, k + 1, r + 1, s)
<1> USE DEF Numbered
<1>1. \A i \in 1..(k + 1) :
        /\ m[i].type = "tool/call" => m[i].call \in 1..(s)
        /\ m[i].type = "tool/result" => m[i].call \in 1..(r + 1)
  OBVIOUS
<1>2. \A c \in 1..(s) :
        \E i \in 1..(k + 1) : m[i].type = "tool/call" /\ m[i].call = c
  OBVIOUS
<1>3. \A c \in 1..(r + 1) :
        \E i \in 1..(k + 1) : m[i].type = "tool/result" /\ m[i].call = c
  OBVIOUS
<1>4. ASSUME NEW i \in 1..(k + 1), NEW j \in 1..(k + 1), i < j
      PROVE  /\ m[i].type = "tool/call" /\ m[j].type = "tool/call" =>
                  m[i].call < m[j].call
             /\ m[i].type = "tool/result" /\ m[j].type = "tool/result" =>
                  m[i].call < m[j].call
  BY <1>4
<1> QED
  BY <1>1, <1>2, <1>3, <1>4

\* Any other event leaves the numbering alone.
LEMMA NumberedOther ==
  ASSUME NEW l, NEW m, NEW k \in Nat, NEW r \in Nat, NEW s \in Nat,
         \A i \in 1..k : m[i] = l[i], Numbered(l, k, r, s),
         m[k + 1].type \notin {"tool/call", "tool/result"}
  PROVE  Numbered(m, k + 1, r, s)
<1> USE DEF Numbered
<1>1. \A i \in 1..(k + 1) :
        /\ m[i].type = "tool/call" => m[i].call \in 1..(s)
        /\ m[i].type = "tool/result" => m[i].call \in 1..(r)
  OBVIOUS
<1>2. \A c \in 1..(s) :
        \E i \in 1..(k + 1) : m[i].type = "tool/call" /\ m[i].call = c
  OBVIOUS
<1>3. \A c \in 1..(r) :
        \E i \in 1..(k + 1) : m[i].type = "tool/result" /\ m[i].call = c
  OBVIOUS
<1>4. ASSUME NEW i \in 1..(k + 1), NEW j \in 1..(k + 1), i < j
      PROVE  /\ m[i].type = "tool/call" /\ m[j].type = "tool/call" =>
                  m[i].call < m[j].call
             /\ m[i].type = "tool/result" /\ m[j].type = "tool/result" =>
                  m[i].call < m[j].call
  BY <1>4
<1> QED
  BY <1>1, <1>2, <1>3, <1>4

\* The call event of the next call keeps the shape.
LEMMA ShapeCall ==
  ASSUME NEW l, NEW r \in Nat, NEW s \in Nat, r <= s, s + 1 \in Calls,
         Shape(l, r, s)
  PROVE  /\ Shape(Append(l, ToolCall(1, 1, s + 1)), r, s + 1)
         /\ validateEvent(Traces(l)[Len(l)], ToolCall(1, 1, s + 1))
<1> DEFINE e == ToolCall(1, 1, s + 1)
           m == Append(l, e)
<1>1. /\ e \in LogEvent /\ e.type = "tool/call" /\ e.call = s + 1
      /\ validateEvent(StepTrace((r + 1)..s), e)
      /\ applyTransition(StepTrace((r + 1)..s), e) = StepTrace(((r + 1)..s) \cup {s + 1})
  BY CallEvent DEF ToolCall
<1>2. /\ l \in Seq(LogEvent) /\ Traces(l)[Len(l)] = StepTrace((r + 1)..s)
      /\ Numbered(l, Len(l), r, s)
  BY DEF Shape
<1> HIDE DEF e
<1>3. /\ m \in Seq(LogEvent) /\ Len(l) \in Nat /\ Len(m) = Len(l) + 1
      /\ \A i \in 1..Len(l) : m[i] = l[i]
      /\ m[Len(l) + 1] = e
      /\ Traces(m)[Len(l) + 1] = applyTransition(Traces(l)[Len(l)], e)
  BY <1>1, <1>2, AppendedLog
<1> HIDE DEF m
<1>4. ((r + 1)..s) \cup {s + 1} = (r + 1)..(s + 1)
  OBVIOUS
<1>5. Traces(m)[Len(m)] = StepTrace((r + 1)..(s + 1))
  BY <1>1, <1>2, <1>3, <1>4
<1>6. Numbered(m, Len(l) + 1, r, s + 1)
  BY <1>1, <1>2, <1>3, NumberedCall
<1>7. Shape(m, r, s + 1)
  BY <1>3, <1>5, <1>6 DEF Shape
<1>8. validateEvent(Traces(l)[Len(l)], e)
  BY <1>1, <1>2
<1> QED
  BY <1>7, <1>8 DEF e, m

\* The result of the next call in model order keeps the shape.
LEMMA ShapeResult ==
  ASSUME NEW l, NEW r \in Nat, NEW s \in Nat, r + 1 <= s, r + 1 \in Calls, NEW kind \in Results,
         Shape(l, r, s)
  PROVE  /\ Shape(Append(l, ToolResult(1, 1, r + 1, kind)), r + 1, s)
         /\ validateEvent(Traces(l)[Len(l)], ToolResult(1, 1, r + 1, kind))
<1> DEFINE e == ToolResult(1, 1, r + 1, kind)
           m == Append(l, e)
<1>1. /\ e \in LogEvent /\ e.type = "tool/result" /\ e.call = r + 1
      /\ validateEvent(StepTrace((r + 1)..s), e)
      /\ applyTransition(StepTrace((r + 1)..s), e) = StepTrace(((r + 1)..s) \ {r + 1})
  <2>1. r + 1 \in (r + 1)..s
    OBVIOUS
  <2>2. e.type = "tool/result" /\ e.call = r + 1
    BY DEF ToolResult
  <2> HIDE DEF e
  <2>3. /\ ToolResult(1, 1, r + 1, kind) \in LogEvent
        /\ validateEvent(StepTrace((r + 1)..s), ToolResult(1, 1, r + 1, kind))
        /\ applyTransition(StepTrace((r + 1)..s), ToolResult(1, 1, r + 1, kind))
             = StepTrace(((r + 1)..s) \ {r + 1})
    BY <2>1, ResultEvent
  <2> QED
    BY <2>2, <2>3 DEF e
<1>2. /\ l \in Seq(LogEvent) /\ Traces(l)[Len(l)] = StepTrace((r + 1)..s)
      /\ Numbered(l, Len(l), r, s)
  BY DEF Shape
<1> HIDE DEF e
<1>3. /\ m \in Seq(LogEvent) /\ Len(l) \in Nat /\ Len(m) = Len(l) + 1
      /\ \A i \in 1..Len(l) : m[i] = l[i]
      /\ m[Len(l) + 1] = e
      /\ Traces(m)[Len(l) + 1] = applyTransition(Traces(l)[Len(l)], e)
  BY <1>1, <1>2, AppendedLog
<1> HIDE DEF m
<1>4. ((r + 1)..s) \ {r + 1} = (r + 1 + 1)..s
  OBVIOUS
<1>5. Traces(m)[Len(m)] = StepTrace((r + 1 + 1)..(s))
  BY <1>1, <1>2, <1>3, <1>4
<1>6. Numbered(m, Len(l) + 1, r + 1, s)
  BY <1>1, <1>2, <1>3, NumberedResult
<1>7. Shape(m, r + 1, s)
  BY <1>3, <1>5, <1>6 DEF Shape
<1>8. validateEvent(Traces(l)[Len(l)], e)
  BY <1>1, <1>2
<1> QED
  BY <1>7, <1>8 DEF e, m

\* The context a result carries keeps the shape.
LEMMA ShapeSplice ==
  ASSUME NEW l, NEW r \in Nat, NEW s \in Nat, NEW n \in Nat, NEW c \in Calls,
         Shape(l, r, s)
  PROVE  /\ Shape(Append(l, Spliced("next-step", n, 0, <<c>>, FALSE)), r, s)
         /\ validateEvent(Traces(l)[Len(l)], Spliced("next-step", n, 0, <<c>>, FALSE))
<1> DEFINE e == Spliced("next-step", n, 0, <<c>>, FALSE)
           m == Append(l, e)
<1>1. /\ e \in LogEvent /\ e.type = "agent/inbox/spliced"
      /\ validateEvent(StepTrace((r + 1)..s), e)
      /\ applyTransition(StepTrace((r + 1)..s), e) = StepTrace((r + 1)..s)
  <2>1. e.type = "agent/inbox/spliced"
    BY DEF Spliced
  <2>2. /\ Spliced("next-step", n, 0, <<c>>, FALSE) \in LogEvent
        /\ validateEvent(StepTrace((r + 1)..s), Spliced("next-step", n, 0, <<c>>, FALSE))
        /\ applyTransition(StepTrace((r + 1)..s), Spliced("next-step", n, 0, <<c>>, FALSE))
             = StepTrace((r + 1)..s)
    BY SpliceEvent
  <2> QED
    BY <2>1, <2>2 DEF e
<1>2. /\ l \in Seq(LogEvent) /\ Traces(l)[Len(l)] = StepTrace((r + 1)..s)
      /\ Numbered(l, Len(l), r, s)
  BY DEF Shape
<1> HIDE DEF e
<1>3. /\ m \in Seq(LogEvent) /\ Len(l) \in Nat /\ Len(m) = Len(l) + 1
      /\ \A i \in 1..Len(l) : m[i] = l[i]
      /\ m[Len(l) + 1] = e
      /\ Traces(m)[Len(l) + 1] = applyTransition(Traces(l)[Len(l)], e)
  BY <1>1, <1>2, AppendedLog
<1> HIDE DEF m
<1>5. Traces(m)[Len(m)] = StepTrace((r + 1)..(s))
  BY <1>1, <1>2, <1>3
<1>6. Numbered(m, Len(l) + 1, r, s)
  BY <1>1, <1>2, <1>3, NumberedOther
<1>7. Shape(m, r, s)
  BY <1>3, <1>5, <1>6 DEF Shape
<1>8. validateEvent(Traces(l)[Len(l)], e)
  BY <1>1, <1>2
<1> QED
  BY <1>7, <1>8 DEF e, m

-----------------------------------------------------------------------------
\* Only a splice changes what is staged.
LEMMA ReplaySame ==
  ASSUME NEW l \in Seq(LogEvent), NEW e \in LogEvent, e.type # "agent/inbox/spliced"
  PROVE  ReplayInbox(Append(l, e)) = ReplayInbox(l)
  BY ReplayAppend DEF ReplayInbox, apply

\* A splice at the end of the list appends to it.
LEMMA SpliceAtEnd ==
  ASSUME NEW S, NEW list \in Seq(S), NEW c \in S
  PROVE  SpliceAt(list, Len(list), 0, <<c>>) = Append(list, c)
<1>1. Len(list) \in Nat
  BY LenProperties
<1>2. SubSeq(list, 1, Len(list)) = list
  BY SubSeqFull
<1>3. SubSeq(list, Len(list) + 0 + 1, Len(list)) = <<>>
  BY <1>1, SubSeqEmpty
<1>4. /\ list \o <<c>> = Append(list, c) /\ Append(list, c) \in Seq(S)
  BY AppendIsConcat, AppendProperties
<1>5. Append(list, c) \o <<>> = Append(list, c)
  BY <1>4, ConcatEmptySeq
<1> QED
  BY <1>2, <1>3, <1>4, <1>5 DEF SpliceAt

\* A result whose call defers nothing leaves the staged contexts complete.
LEMMA StagedPlain ==
  ASSUME NEW l \in Seq(LogEvent), NEW e \in LogEvent, NEW r \in Nat, NEW t \in Nat,
         e.type # "agent/inbox/spliced", Staged(l, r),
         Deferring \cap 1..t = Deferring \cap 1..r
  PROVE  Staged(Append(l, e), t)
  BY ReplaySame DEF Staged

\* The context of call r + 1 is staged behind those of the calls before it.
LEMMA StagedSplice ==
  ASSUME NEW l \in Seq(LogEvent), NEW r \in Nat, Staged(l, r),
         r + 1 \in Deferring, r + 1 \in Calls
  PROVE  Staged(Append(l, Spliced("next-step", Len(ReplayInbox(l)["next-step"]),
                                  0, <<r + 1>>, FALSE)), r + 1)
<1> DEFINE box == ReplayInbox(l)
           list == box["next-step"]
           e == Spliced("next-step", Len(list), 0, <<r + 1>>, FALSE)
           new == ReplayInbox(Append(l, e))
<1>1. /\ box \in [Targets -> Seq(Calls)]
      /\ \A i, j \in 1..Len(list) : i < j => list[i] < list[j]
      /\ ToSet(list) = Deferring \cap 1..r
  BY DEF Staged
<1>2. list \in Seq(Calls) /\ Len(list) \in Nat
  <2>1. list \in Seq(Calls)
    BY <1>1 DEF Targets
  <2> QED
    BY <2>1, LenProperties
<1>3. e \in LogEvent
  BY <1>2, SpliceEvent
<1>4. new = [box EXCEPT !["next-step"] = Append(list, r + 1)]
  <2>1. new = apply(box, e)
    BY <1>3, ReplayAppend DEF ReplayInbox
  <2>2. apply(box, e) = [box EXCEPT !["next-step"] =
                           SpliceAt(list, Len(list), 0, <<r + 1>>)]
    BY DEF apply, Spliced
  <2>3. SpliceAt(list, Len(list), 0, <<r + 1>>) = Append(list, r + 1)
    BY <1>2, SpliceAtEnd
  <2> QED
    BY <2>1, <2>2, <2>3
<1> DEFINE longer == Append(list, r + 1)
<1>5. /\ longer \in Seq(Calls) /\ Len(longer) = Len(list) + 1
      /\ \A i \in 1..Len(list) : longer[i] = list[i]
      /\ longer[Len(list) + 1] = r + 1
  BY <1>2, AppendProperties
<1>6. /\ new \in [Targets -> Seq(Calls)] /\ new["next-step"] = longer
  BY <1>1, <1>4, <1>5 DEF Targets
<1> HIDE DEF box, list, e, new, longer
<1>7. /\ DOMAIN list = 1..Len(list) /\ DOMAIN longer = 1..(Len(list) + 1)
  BY <1>2, <1>5, LenProperties
<1>8. \A i \in 1..Len(list) : list[i] \in 1..r
  BY <1>1, <1>7 DEF ToSet
<1>9. \A i, j \in 1..Len(longer) : i < j => longer[i] < longer[j]
  <2> SUFFICES ASSUME NEW i \in 1..(Len(list) + 1), NEW j \in 1..(Len(list) + 1),
                      i < j
               PROVE  longer[i] < longer[j]
    BY <1>5
  <2>1. i \in 1..Len(list) /\ longer[i] = list[i]
    BY <1>2, <1>5
  <2>2. CASE j = Len(list) + 1
    BY <1>5, <1>8, <2>1, <2>2
  <2>3. CASE j \in 1..Len(list)
    BY <1>1, <1>5, <2>1, <2>3
  <2> QED
    BY <1>2, <2>2, <2>3
<1>10. ToSet(longer) = Deferring \cap 1..(r + 1)
  <2>1. ToSet(longer) = ToSet(list) \cup {r + 1}
    BY <1>2, <1>5, <1>7 DEF ToSet
  <2> QED
    BY <1>1, <2>1
<1> QED
  BY <1>6, <1>9, <1>10 DEF Staged, new, e, list, box
-----------------------------------------------------------------------------
\* What the scheduler appends.
StepTypes == {"tool/call", "tool/result", "agent/inbox/spliced"}

\* m extends l by events the rules accept; the results it adds are those of R.
Extended(l, m, R) ==
  /\ Len(l) <= Len(m) /\ \A i \in 1..Len(l) : m[i] = l[i]
  /\ \A i \in (Len(l) + 1)..Len(m) : m[i].type \in StepTypes
  /\ AcceptedAfter(Len(l), m)
  /\ \A c \in Calls, kind \in Results :
       HasResult(m, c, kind) <=> HasResult(l, c, kind) \/ <<c, kind>> \in R

\* Nothing has been added yet.
LEMMA ExtendedSelf ==
  ASSUME NEW l \in Seq(LogEvent)
  PROVE  Extended(l, l, {})
<1>1. AcceptedAfter(Len(l), l)
  BY AcceptedSelf
<1>2. Len(l) \in Nat
  BY LenProperties
<1>3. (Len(l) + 1)..Len(l) = {}
  BY <1>2
<1> QED
  BY <1>1, <1>2, <1>3 DEF Extended

\* One more event the rules accept.
LEMMA ExtendedAppend ==
  ASSUME NEW l \in Seq(LogEvent), NEW m \in Seq(LogEvent), NEW e \in LogEvent, NEW R,
         NEW Q, Extended(l, m, R), validateEvent(Traces(m)[Len(m)], e),
         e.type \in StepTypes,
         \A c \in Calls, kind \in Results :
           <<c, kind>> \in Q <=>
             \/ <<c, kind>> \in R
             \/ e.type = "tool/result" /\ e.call = c /\ e.error = kind
  PROVE  Extended(l, Append(m, e), Q)
<1> DEFINE n == Append(m, e)
<1>1. /\ Len(m) \in Nat /\ Len(n) = Len(m) + 1 /\ n[Len(m) + 1] = e
      /\ \A i \in 1..Len(m) : n[i] = m[i]
  BY AppendedLog
<1>2. Len(l) \in Nat
  BY LenProperties
<1>3. Len(l) <= Len(m) /\ \A i \in 1..Len(l) : m[i] = l[i]
  BY DEF Extended
<1>4. AcceptedAfter(Len(l), n)
  <2>1. AcceptedAfter(Len(l), m) /\ Len(l) \in 0..Len(m)
    BY <1>1, <1>2, <1>3 DEF Extended
  <2> QED
    BY <2>1, AcceptedAppend
<1> HIDE DEF n
<1>5. ASSUME NEW c \in Calls, NEW kind \in Results
      PROVE  HasResult(n, c, kind) <=> HasResult(l, c, kind) \/ <<c, kind>> \in Q
  <2>1. HasResult(m, c, kind) <=> HasResult(l, c, kind) \/ <<c, kind>> \in R
    BY DEF Extended
  <2>2. HasResult(n, c, kind) <=>
          \/ HasResult(m, c, kind)
          \/ e.type = "tool/result" /\ e.call = c /\ e.error = kind
    BY <1>1 DEF HasResult
  <2> QED
    BY <2>1, <2>2
<1>6. Len(l) <= Len(n) /\ \A i \in 1..Len(l) : n[i] = l[i]
  BY <1>1, <1>2, <1>3
<1>7. \A i \in (Len(l) + 1)..Len(n) : n[i].type \in StepTypes
  <2>1. \A i \in (Len(l) + 1)..Len(m) : m[i].type \in StepTypes
    BY DEF Extended
  <2> QED
    BY <1>1, <1>2, <2>1
<1> QED
  BY <1>4, <1>5, <1>6, <1>7 DEF Extended, n
-----------------------------------------------------------------------------
\* startCall logs the next call.
LEMMA StartLog ==
  ASSUME SchedulerInv, LogOK, StartCall
  PROVE  LogOK' /\ Extended(log, log', {})
<1> DEFINE e == ToolCall(1, 1, started + 1)
<1>1. /\ started \in Nat /\ committed \in Nat /\ committed <= started
      /\ started + 1 \in Calls
      /\ Shape(log, committed, started) /\ Staged(log, committed)
  BY SchedulerAssumption
  DEF StartCall, MayStart, SchedulerInv, Typed, StageOK, GroupOK, LogOK, Done, Calls
<1>2. /\ log' = Append(log, e) /\ started' = started + 1 /\ committed' = committed
      /\ pc' = "called"
  BY DEF StartCall
<1>3. log \in Seq(LogEvent) /\ e \in LogEvent /\ e.type = "tool/call"
  BY <1>1, CallEvent DEF Shape, ToolCall
<1>4. Shape(log', committed, started + 1) /\ validateEvent(Traces(log)[Len(log)], e)
  BY <1>1, <1>2, ShapeCall
<1> HIDE DEF e
<1>5. Staged(log', committed)
  BY <1>1, <1>2, <1>3, StagedPlain
<1>6. Extended(log, log', {})
  BY <1>2, <1>3, <1>4, ExtendedSelf, ExtendedAppend DEF StepTypes
<1> QED
  BY <1>2, <1>4, <1>5, <1>6 DEF LogOK, Done

\* commitReady logs the next result in model order, then the context it carries.
LEMMA CommitLog ==
  ASSUME SchedulerInv, LogOK, NEW c \in Ready, NEW kind \in Results,
         AppendResult(c, kind), pc # "done", pc' # "done", started' = started
  PROVE  /\ c = committed + 1 /\ c \in Calls
         /\ LogOK' /\ Extended(log, log', {<<c, kind>>})
<1> DEFINE e == ToolResult(1, 1, c, kind)
           sp == Spliced("next-step", Len(ReplayInbox(log)["next-step"]), 0, <<c>>,
                         FALSE)
           mid == Append(log, e)
<1>1. /\ started \in Nat /\ committed \in Nat /\ c = committed + 1 /\ c <= started
      /\ c \in Calls
      /\ Shape(log, committed, started) /\ Staged(log, committed)
  BY SchedulerAssumption DEF Ready, Next1, SchedulerInv, Typed, LogOK, Done, Calls
<1>2. log \in Seq(LogEvent) /\ e \in LogEvent
      /\ e.type = "tool/result" /\ e.call = c /\ e.error = kind
  BY <1>1, ResultEvent DEF Shape, ToolResult
<1>3. /\ Shape(mid, committed + 1, started)
      /\ validateEvent(Traces(log)[Len(log)], e)
  BY <1>1, ShapeResult
<1>4. mid \in Seq(LogEvent) /\ log \o <<e>> = mid
  BY <1>2, AppendedLog
<1>5. Extended(log, mid, {<<c, kind>>})
  <2> HIDE DEF e
  <2> QED
    BY <1>2, <1>3, ExtendedSelf, ExtendedAppend DEF StepTypes
<1>6. ReplayInbox(mid) = ReplayInbox(log)
  BY <1>2, ReplaySame
<1>7. committed' = committed + 1
  BY DEF AppendResult
<1>8. CASE c \notin Deferring
  <2>1. log' = mid
    <3>1. log' = log \o <<e>> \o <<>>
      BY <1>8 DEF AppendResult
    <3>2. mid \o <<>> = mid
      BY <1>4, ConcatEmptySeq
    <3> QED
      BY <1>4, <3>1, <3>2
  <2>2. Staged(mid, committed + 1)
    <3>1. Deferring \cap 1..(committed + 1) = Deferring \cap 1..committed
      BY <1>1, <1>8
    <3> HIDE DEF e
    <3> QED
      BY <1>1, <1>2, <3>1, StagedPlain
  <2> HIDE DEF mid
  <2> QED
    BY <1>1, <1>3, <1>5, <1>7, <2>1, <2>2 DEF LogOK, Done
<1>9. CASE c \in Deferring
  <2> DEFINE n == Len(ReplayInbox(mid)["next-step"])
  <2>1. Staged(mid, committed)
    <3> HIDE DEF e
    <3> QED
      BY <1>1, <1>2, StagedPlain
  <2>2. n \in Nat
    <3>1. ReplayInbox(mid)["next-step"] \in Seq(Calls)
      BY <2>1 DEF Staged, Targets
    <3> QED
      BY <3>1, LenProperties
  <2>3. sp = Spliced("next-step", n, 0, <<c>>, FALSE) /\ sp \in LogEvent
        /\ sp.type = "agent/inbox/spliced"
    BY <1>1, <1>6, <2>2, SpliceEvent DEF Spliced
  <2>4. /\ Shape(Append(mid, sp), committed + 1, started)
        /\ validateEvent(Traces(mid)[Len(mid)], sp)
    <3>1. committed + 1 \in Nat
      BY <1>1
    <3> HIDE DEF mid, n
    <3>2. /\ Shape(Append(mid, Spliced("next-step", n, 0, <<c>>, FALSE)),
                   committed + 1, started)
          /\ validateEvent(Traces(mid)[Len(mid)],
                           Spliced("next-step", n, 0, <<c>>, FALSE))
      BY <1>1, <1>3, <2>2, <3>1, ShapeSplice
    <3> HIDE DEF sp
    <3> QED
      BY <2>3, <3>2
  <2>5. Staged(Append(mid, sp), committed + 1)
    <3> HIDE DEF mid
    <3> QED
      BY <1>1, <1>4, <1>9, <2>1, <2>3, StagedSplice
  <2>6. Extended(log, Append(mid, sp), {<<c, kind>>})
    <3> HIDE DEF mid, sp
    <3> QED
      BY <1>2, <1>4, <1>5, <2>3, <2>4, ExtendedAppend DEF StepTypes
  <2>7. log' = Append(mid, sp)
    <3>1. log' = log \o <<e>> \o <<sp>>
      BY <1>9 DEF AppendResult
    <3> HIDE DEF sp, mid
    <3>2. mid \o <<sp>> = Append(mid, sp)
      BY <1>4, <2>3, AppendedLog
    <3> QED
      BY <1>4, <3>1, <3>2
  <2> HIDE DEF mid, sp
  <2> QED
    BY <1>1, <1>7, <2>4, <2>5, <2>6, <2>7 DEF LogOK, Done
<1> QED
  BY <1>8, <1>9

\* A pair of events is one event after the other.
LEMMA PairIsConcat ==
  ASSUME NEW S, NEW a \in S, NEW b \in S
  PROVE  <<a, b>> = <<a>> \o <<b>>
<1> DEFINE s == <<a, b>>
           t == <<a>> \o <<b>>
<1>1. /\ <<a>> \in Seq(S) /\ <<b>> \in Seq(S) /\ s \in Seq(S)
      /\ Len(<<a>>) = 1 /\ Len(<<b>>) = 1 /\ Len(s) = 2
      /\ <<a>>[1] = a /\ <<b>>[1] = b /\ s[1] = a /\ s[2] = b
  OBVIOUS
<1>2. t \in Seq(S) /\ Len(t) = 2 /\ t[1] = a /\ t[2] = b
  <2>1. /\ t \in Seq(S) /\ Len(t) = Len(<<a>>) + Len(<<b>>)
        /\ \A i \in 1..(Len(<<a>>) + Len(<<b>>)) :
             t[i] = IF i <= Len(<<a>>) THEN <<a>>[i] ELSE <<b>>[i - Len(<<a>>)]
    BY <1>1, ConcatProperties
  <2> HIDE DEF t
  <2> QED
    BY <1>1, <2>1
<1> HIDE DEF s, t
<1>3. s = t
  BY <1>1, <1>2, SeqEqual
<1> QED
  BY <1>3 DEF s, t

\* An aborted group answers every call it did not start, in model order.
LEMMA SkipLog ==
  ASSUME SchedulerInv, LogOK, SkipRest
  PROVE  /\ committed = started /\ LogOK'
         /\ Extended(log, log',
              {<<c, "ABORTED_BEFORE_DISPATCH">> : c \in (started + 1)..N})
<1>1. /\ started \in 0..N /\ committed = started /\ started' = started
      /\ committed' = committed /\ pc' = "done" /\ N \in Nat
      /\ Shape(log, started, started) /\ Staged(log, committed)
  BY SchedulerAssumption
  DEF SkipRest, SchedulerInv, Typed, StageOK, FailureOK, Waiting, Starting, LogOK, Done, group
<1> DEFINE K == N - started
           pair(i) == SkippedPair(started + i)
           pairs(k) == FlattenSeq([i \in 1..k |-> pair(i)])
           grown(k) == log \o pairs(k)
           R(k) == {<<c, "ABORTED_BEFORE_DISPATCH">> : c \in (started + 1)..(started + k)}
           Kept(k) == /\ pairs(k) \in Seq(LogEvent) /\ grown(k) \in Seq(LogEvent)
                      /\ Shape(grown(k), started + k, started + k)
                      /\ Staged(grown(k), committed)
                      /\ Extended(log, grown(k), R(k))
           T == {k \in Nat : k <= K => Kept(k)}
<1>2. K \in Nat /\ started + K = N /\ Skipped = (started + 1)..N
      /\ Cardinality(Skipped) = K
  <2>1. Skipped = (started + 1)..N
    BY DEF Skipped
  <2>2. Cardinality((started + 1)..N) = IF started + 1 > N THEN 0 ELSE N - (started + 1) + 1
    BY <1>1, FS_Interval
  <2> QED
    BY <1>1, <2>1, <2>2
<1>3. log \in Seq(LogEvent)
  BY <1>1 DEF Shape
<1>4. 0 \in T
  <2>1. [i \in 1..0 |-> pair(i)] = <<>>
    OBVIOUS
  <2>2. pairs(0) = <<>>
    BY <2>1 DEF FlattenSeq
  <2>3. log \o <<>> = log /\ <<>> \in Seq(LogEvent)
    BY <1>3, ConcatEmptySeq
  <2>4. R(0) = {}
    BY <1>1
  <2>5. Extended(log, log, {})
    BY <1>3, ExtendedSelf
  <2>6. started + 0 = started
    BY <1>1
  <2> HIDE DEF pairs, R
  <2> QED
    BY <1>1, <1>3, <2>2, <2>3, <2>4, <2>5, <2>6
<1>5. ASSUME NEW k \in T PROVE k + 1 \in T
  <2> SUFFICES ASSUME k + 1 <= K PROVE Kept(k + 1)
    OBVIOUS
  <2>0. k \in Nat
    OBVIOUS
  <2>1. k \in Nat /\ Kept(k)
    BY <1>2
  <2>12. grown(k) \in Seq(LogEvent) /\ pairs(k) \in Seq(LogEvent)
    <3> HIDE DEF grown, pairs, R
    <3> QED
      BY <2>1
  <2> DEFINE d == started + (k + 1)
             e1 == ToolCall(1, 1, d)
             e2 == ToolResult(1, 1, d, "ABORTED_BEFORE_DISPATCH")
             l1 == Append(grown(k), e1)
             l2 == Append(l1, e2)
  <2>2. d \in Calls /\ d = (started + k) + 1 /\ started + k \in Nat
        /\ "ABORTED_BEFORE_DISPATCH" \in Results
    BY <1>1, <1>2, <2>1 DEF Calls, Results
  <2>3. /\ e1 \in LogEvent /\ e1.type = "tool/call"
        /\ e2 \in LogEvent /\ e2.type = "tool/result"
        /\ e2.call = d /\ e2.error = "ABORTED_BEFORE_DISPATCH"
    <3>1. e1 \in LogEvent
      BY <2>2, CallEvent
    <3>2. e2 \in LogEvent
      BY <2>2, ResultEvent
    <3> QED
      BY <3>1, <3>2 DEF ToolCall, ToolResult
  <2>4. /\ Shape(l1, started + k, d)
        /\ validateEvent(Traces(grown(k))[Len(grown(k))], e1)
    <3> HIDE DEF grown
    <3> QED
      BY <2>1, <2>2, ShapeCall
  <2>5. /\ Shape(l2, d, d) /\ validateEvent(Traces(l1)[Len(l1)], e2)
    <3> HIDE DEF l1
    <3> QED
      BY <2>2, <2>4, ShapeResult
  <2>6. l1 \in Seq(LogEvent) /\ l2 \in Seq(LogEvent)
    BY <2>4, <2>5 DEF Shape
  <2>7. pairs(k + 1) = pairs(k) \o <<e1, e2>>
    <3> DEFINE s == [i \in 1..(k + 1) |-> pair(i)]
    <3>1. \A i \in 1..(k + 1) : pair(i) \in Seq(LogEvent)
      <4> SUFFICES ASSUME NEW i \in 1..(k + 1) PROVE pair(i) \in Seq(LogEvent)
        OBVIOUS
      <4>1. started + i \in Calls
        <5> HIDE DEF K
        <5> QED
          BY <1>1, <1>2, <2>0 DEF Calls
      <4>2. /\ ToolCall(1, 1, started + i) \in LogEvent
            /\ ToolResult(1, 1, started + i, "ABORTED_BEFORE_DISPATCH") \in LogEvent
        BY <2>2, <4>1, CallEvent, ResultEvent
      <4> QED
        BY <4>2 DEF SkippedPair
    <3>2. s \in [1..(k + 1) -> Seq(LogEvent)]
      <4> HIDE DEF pair
      <4> QED
        BY <3>1
    <3>3. /\ [i \in 1..(k + 1) |-> s[i]] = [i \in 1..(k + 1) |-> pair(i)]
          /\ [i \in 1..k |-> s[i]] = [i \in 1..k |-> pair(i)]
      <4> HIDE DEF pair
      <4> QED
        BY <2>1
    <3>4. s[k + 1] = <<e1, e2>>
      BY <2>1 DEF SkippedPair
    <3> HIDE DEF s, pair, e1, e2
    <3> QED
      BY <2>1, <3>2, <3>3, <3>4, FlattenAppend
  <2>8. grown(k + 1) = l2 /\ pairs(k + 1) \in Seq(LogEvent)
    <3> HIDE DEF pairs, e1, e2
    <3>1. pairs(k) \in Seq(LogEvent)
      BY <2>12
    <3>0. <<e1, e2>> = <<e1>> \o <<e2>>
      BY <2>3, PairIsConcat
    <3>2. <<e1, e2>> = <<e1>> \o <<e2>> /\ <<e1>> \in Seq(LogEvent)
          /\ <<e2>> \in Seq(LogEvent) /\ <<e1, e2>> \in Seq(LogEvent)
      BY <2>3, <3>0
    <3>3. grown(k) \o <<e1>> = l1 /\ l1 \o <<e2>> = l2
      <4>1. l1 \in Seq(LogEvent)
        BY <2>6
      <4>2. grown(k) \o <<e1>> = l1
        <5> HIDE DEF grown
        <5> QED
          BY <2>3, <2>12, AppendedLog
      <4> HIDE DEF l1, grown
      <4> QED
        BY <2>3, <4>1, <4>2, AppendedLog
    <3>4. log \o (pairs(k) \o <<e1, e2>>) = (log \o pairs(k)) \o <<e1, e2>>
      BY <1>3, <3>1, <3>2, ConcatAssociative
    <3>5. grown(k) \o (<<e1>> \o <<e2>>) = (grown(k) \o <<e1>>) \o <<e2>>
      <4> HIDE DEF grown
      <4> QED
        BY <2>12, <3>2, ConcatAssociative
    <3>6. pairs(k) \o <<e1, e2>> \in Seq(LogEvent)
      BY <3>1, <3>2, ConcatProperties
    <3> QED
      BY <2>7, <3>2, <3>3, <3>4, <3>5, <3>6
  <2>9. Staged(l2, committed)
    <3> HIDE DEF e1, e2, grown
    <3>0. committed \in Nat
      BY <1>1
    <3>1. Staged(l1, committed)
      BY <3>0, <2>1, <2>3, <2>12, StagedPlain
    <3>2. l1 \in Seq(LogEvent)
      BY <2>6
    <3>3. e2 \in LogEvent /\ e2.type # "agent/inbox/spliced"
      BY <2>3
    <3> HIDE DEF l1
    <3> QED
      BY <3>0, <3>1, <3>2, <3>3, StagedPlain
  <2>10. Extended(log, l2, R(k + 1))
    <3>1. \A c \in Calls, kind \in Results :
            <<c, kind>> \in R(k + 1) <=>
              \/ <<c, kind>> \in R(k)
              \/ c = d /\ kind = "ABORTED_BEFORE_DISPATCH"
      <4>1. (started + 1)..(started + (k + 1)) = ((started + 1)..(started + k)) \cup {d}
        BY <1>1, <2>1
      <4> HIDE DEF d
      <4>2. R(k + 1) = R(k) \cup {<<d, "ABORTED_BEFORE_DISPATCH">>}
        BY <4>1
      <4> HIDE DEF R
      <4> QED
        BY <4>2
    <3> HIDE DEF R, e1, e2, grown, d
    <3>2. Extended(log, l1, R(k))
      BY <1>3, <2>1, <2>3, <2>4, ExtendedAppend DEF StepTypes
    <3> HIDE DEF l1
    <3> QED
      BY <1>3, <2>3, <2>5, <2>6, <3>1, <3>2, ExtendedAppend DEF StepTypes
  <2>11. /\ grown(k + 1) \in Seq(LogEvent)
         /\ Shape(grown(k + 1), started + (k + 1), started + (k + 1))
         /\ Staged(grown(k + 1), committed)
         /\ Extended(log, grown(k + 1), R(k + 1))
    <3> HIDE DEF grown, l2, R
    <3> QED
      BY <2>5, <2>6, <2>8, <2>9, <2>10
  <2> QED
    <3> HIDE DEF grown, pairs, R
    <3> QED
      BY <2>8, <2>11
<1>6. T = Nat
  <2>1. T \subseteq Nat
    OBVIOUS
  <2> HIDE DEF T
  <2> QED
    BY <1>4, <1>5, <2>1, NatSetInduction
<1>7. Kept(K)
  <2> HIDE DEF Kept
  <2> QED
    BY <1>2, <1>6
<1>8. log' = grown(K)
  BY <1>2 DEF SkipRest
<1>9. R(K) = {<<c, "ABORTED_BEFORE_DISPATCH">> : c \in (started + 1)..N}
  BY <1>2
<1>10. Shape(log', N, N) /\ Staged(log', committed) /\ Extended(log, log', R(K))
  <2> HIDE DEF grown, pairs, R
  <2> QED
    BY <1>2, <1>7, <1>8
<1> HIDE DEF R, K
<1> QED
  BY <1>1, <1>9, <1>10 DEF LogOK, Done
-----------------------------------------------------------------------------
\* The scheduler starts on the opening of the step.
LEMMA InitLog == SchedulerInit => DataTyped /\ LogOK /\ ConcludedOK /\ ToldOK
<1> SUFFICES ASSUME SchedulerInit PROVE DataTyped /\ LogOK /\ ConcludedOK /\ ToldOK
  OBVIOUS
<1> DEFINE a == TurnStart(1)
           b == StepStart(1, 1)
           c == Assistant(1, 1, [i \in Calls |-> i])
           l1 == Append(<<>>, a)
           l2 == Append(l1, b)
           l3 == Append(l2, c)
<1>1. a \in LogEvent /\ b \in LogEvent /\ c \in LogEvent
  BY DEF LogEvent
<1>2. /\ a.type = "turn/start" /\ b.type = "step/start" /\ c.type = "assistant/message"
      /\ a.turn = 1 /\ b.step = 1
  BY DEF TurnStart, StepStart, Assistant
<1>3. log = <<a, b, c>> /\ <<a, b, c>> = l3
  BY DEF SchedulerInit, Opening
<1> HIDE DEF a, b, c
<1> DEFINE l0 == <<>>
<1>4. l0 \in Seq(LogEvent) /\ Len(l0) = 0
  OBVIOUS
<1>5. /\ l1 \in Seq(LogEvent) /\ Len(l1) = 1 /\ l1[1] = a
      /\ Traces(l1)[1] = applyTransition(Traces(l0)[0], a)
      /\ ReplayInbox(l1) = ReplayInbox(l0)
  <2>1. l1 = Append(l0, a)
    OBVIOUS
  <2> HIDE DEF l0, l1
  <2>2. ReplayInbox(l1) = ReplayInbox(l0)
    BY <1>1, <1>2, <1>4, <2>1, ReplaySame
  <2>3. /\ l1 \in Seq(LogEvent) /\ Len(l1) = Len(l0) + 1 /\ l1[Len(l0) + 1] = a
        /\ Traces(l1)[Len(l0) + 1] = applyTransition(Traces(l0)[Len(l0)], a)
    BY <1>1, <1>4, <2>1, AppendedLog
  <2>4. Len(l0) = 0 /\ Len(l0) + 1 = 1
    BY <1>4
  <2> QED
    BY <2>2, <2>3, <2>4
<1> HIDE DEF l0
<1>6. /\ l2 \in Seq(LogEvent) /\ Len(l2) = 2 /\ l2[1] = a /\ l2[2] = b
      /\ Traces(l2)[2] = applyTransition(Traces(l1)[1], b)
      /\ ReplayInbox(l2) = ReplayInbox(l0)
  <2> HIDE DEF l1
  <2>1. l2 = Append(l1, b)
    OBVIOUS
  <2> HIDE DEF l2
  <2>2. ReplayInbox(l2) = ReplayInbox(l1)
    BY <1>1, <1>2, <1>5, <2>1, ReplaySame
  <2>3. /\ l2 \in Seq(LogEvent) /\ Len(l2) = Len(l1) + 1 /\ l2[Len(l1) + 1] = b
        /\ \A i \in 1..Len(l1) : l2[i] = l1[i]
        /\ Traces(l2)[Len(l1) + 1] = applyTransition(Traces(l1)[Len(l1)], b)
    BY <1>1, <1>5, <2>1, AppendedLog
  <2>4. Len(l1) = 1 /\ Len(l1) + 1 = 2 /\ 1 \in 1..1
    BY <1>5
  <2> QED
    BY <1>5, <2>2, <2>3, <2>4
<1>7. /\ l3 \in Seq(LogEvent) /\ Len(l3) = 3
      /\ l3[1] = a /\ l3[2] = b /\ l3[3] = c
      /\ Traces(l3)[3] = applyTransition(Traces(l2)[2], c)
      /\ ReplayInbox(l3) = ReplayInbox(l0)
  <2> HIDE DEF l2
  <2>1. l3 = Append(l2, c)
    OBVIOUS
  <2> HIDE DEF l3
  <2>2. ReplayInbox(l3) = ReplayInbox(l2)
    BY <1>1, <1>2, <1>6, <2>1, ReplaySame
  <2>3. /\ l3 \in Seq(LogEvent) /\ Len(l3) = Len(l2) + 1 /\ l3[Len(l2) + 1] = c
        /\ \A i \in 1..Len(l2) : l3[i] = l2[i]
        /\ Traces(l3)[Len(l2) + 1] = applyTransition(Traces(l2)[Len(l2)], c)
    BY <1>1, <1>6, <2>1, AppendedLog
  <2>4. Len(l2) = 2 /\ Len(l2) + 1 = 3 /\ 1 \in 1..2 /\ 2 \in 1..2
    BY <1>6
  <2> QED
    BY <1>6, <2>2, <2>3, <2>4
<1> HIDE DEF l1, l2, l3
<1>8. Traces(l3)[3] = StepTrace({})
  <2>1. Traces(l0)[0] = FreshTrace
    <3>1. Traces(l0) = [i \in 0..Len(l0) |->
             IF i = 0 THEN FreshTrace
             ELSE applyTransition(Traces(l0)[i - 1], l0[i])]
      <4>1. Len(l0) \in Nat
        BY <1>4
      <4> QED
        BY <4>1, TracesDef
    <3> QED
      BY <1>4, <3>1
  <2>2. Traces(l1)[1] = [FreshTrace EXCEPT !.openTurn = 1, !.nextStep = 1]
    BY <1>2, <1>5, <2>1 DEF applyTransition
  <2>3. Traces(l2)[2] = [openTurn |-> 1, openStep |-> 1, nextTurn |-> 1,
                         nextStep |-> 1, pendingCalls |-> {}]
    BY <1>2, <1>6, <2>2 DEF applyTransition, FreshTrace
  <2> QED
    BY <1>2, <1>7, <2>3 DEF applyTransition, StepTrace
<1>9. Shape(log, 0, 0)
  <2>1. Numbered(l3, 3, 0, 0)
    BY <1>2, <1>7 DEF Numbered
  <2>2. (0 + 1)..0 = {}
    OBVIOUS
  <2> QED
    BY <1>3, <1>7, <1>8, <2>1, <2>2 DEF Shape
<1>10. Staged(log, 0)
  <2>1. ReplayInbox(log) = EmptyInbox
    BY <1>3, <1>7, ReplayEmpty DEF ReplayInbox, l0
  <2>2. EmptyInbox \in [Targets -> Seq(Calls)] /\ EmptyInbox["next-step"] = <<>>
    BY DEF EmptyInbox, Targets
  <2>3. ToSet(<<>>) = {} /\ 1..0 = {} /\ Len(<<>>) = 0
    BY DEF ToSet
  <2> QED
    BY <2>1, <2>2, <2>3 DEF Staged
<1>11. LogOK
  BY <1>9, <1>10 DEF LogOK, Done, SchedulerInit
<1>12. \A d \in Calls, kind \in Results : ~HasResult(log, d, kind)
  BY <1>2, <1>3, <1>7 DEF HasResult
<1>13. ConcludedOK
  BY <1>12, SchedulerAssumption DEF ConcludedOK, SchedulerInit, Results
<1>14. ToldOK
  BY <1>12 DEF ToldOK, Truthful, SchedulerInit, Pending, Starting
<1>15. DataTyped
  BY DEF DataTyped, SchedulerInit, Slot
<1> QED
  BY <1>11, <1>13, <1>14, <1>15

\* Every settled slot holds a result, and so does what supersedes it.
LEMMA ReadyResult ==
  ASSUME SchedulerInv, DataTyped, NEW c \in Ready
  PROVE  /\ c \in Calls /\ outcome[c].kind \in Results
         /\ \A from \in {outcome[c].kind, "error"} : Superseded(c, from) \in Results
<1>1. c \in Calls /\ stage[c] = "settled"
  BY SchedulerAssumption DEF Ready, Next1, SchedulerInv, Typed, Calls
<1>2. outcome[c].kind \in Results
  BY <1>1 DEF DataTyped, Answer
<1> QED
  BY <1>1, <1>2 DEF Superseded, Results

\* Filling one slot keeps the slots typed.
LEMMA FillSlot ==
  ASSUME SchedulerInv, DataTyped, NEW c \in Calls, NEW next \in Stages, NEW slot \in Slot,
         stage' = [stage EXCEPT ![c] = next], outcome' = [outcome EXCEPT ![c] = slot],
         next \in {"returned", "settled"} => slot \in Answer
  PROVE  /\ outcome' \in [Calls -> Slot]
         /\ \A d \in Calls : stage'[d] \in {"returned", "settled"} =>
                               outcome'[d] \in Answer
<1>1. stage \in [Calls -> Stages] /\ outcome \in [Calls -> Slot]
  BY DEF SchedulerInv, Typed, DataTyped
<1>2. outcome' \in [Calls -> Slot]
  BY <1>1
<1>3. ASSUME NEW d \in Calls, stage'[d] \in {"returned", "settled"}
      PROVE  outcome'[d] \in Answer
  BY <1>1, <1>3 DEF DataTyped
<1> QED
  BY <1>2, <1>3

\* A disturbance is counted.
LEMMA SpendTyped ==
  ASSUME used \in [Kinds -> Nat], NEW kind \in Kinds, Spend(kind)
  PROVE  used' \in [Kinds -> Nat]
  BY DEF Spend

\* Every result kind makes an answer, with or without a post-execute.
LEMMA Answers ==
  ASSUME NEW kind \in Results
  PROVE  Post(kind) \in Answer /\ Final(kind) \in Answer
  BY DEF Answer, Post, Final

\* What supersedes an answer of a call is a result again.
LEMMA SupersededKind ==
  ASSUME NEW c \in Calls, NEW kind \in Results
  PROVE  Superseded(c, kind) \in Results
  BY DEF Superseded, Results

\* Settling a dispatched call keeps the slots typed.
LEMMA SettleTyped ==
  ASSUME SchedulerInv, DataTyped, NEW c \in Calls, Dispatched(c) \/ Retry(c)
  PROVE  /\ outcome' \in [Calls -> Slot]
         /\ \A d \in Calls : stage'[d] \in {"returned", "settled"} =>
                               outcome'[d] \in Answer
<1> USE DEF Settle
<1>1. {"ok", "error", "ABORTED", "ABORTED_BEFORE_DISPATCH"} = Results
  BY DEF Results
<1>2. {"returned", "settled", "wrapping", "rejected", "running"} \subseteq Stages
  BY DEF Stages
<1>3. Pending \in Slot /\ Answer \subseteq Slot
  BY DEF Slot
<1>4. ASSUME NEW next \in {"wrapping", "running"},
             stage' = [stage EXCEPT ![c] = next], outcome' = outcome
      PROVE  /\ outcome' \in [Calls -> Slot]
             /\ \A d \in Calls : stage'[d] \in {"returned", "settled"} =>
                                   outcome'[d] \in Answer
  BY <1>4 DEF SchedulerInv, Typed, DataTyped
<1>5. ASSUME NEW kind \in Results, NEW next \in {"returned", "settled"},
             Settle(c, next, Post(kind)) \/ Settle(c, next, Final(kind))
      PROVE  /\ outcome' \in [Calls -> Slot]
             /\ \A d \in Calls : stage'[d] \in {"returned", "settled"} =>
                                   outcome'[d] \in Answer
  BY <1>2, <1>3, <1>5, Answers, FillSlot
<1>6. CASE Flushed(c)
  BY <1>1, <1>4, <1>5, <1>6 DEF Flushed
<1>7. CASE BodyStarts(c)
  BY <1>1, <1>4, <1>5, <1>7 DEF BodyStarts
<1>8. CASE BodySettles(c)
  BY <1>1, <1>5, <1>8 DEF BodySettles
<1>9. CASE DispatchSettles(c)
  <2>1. outcome[c] \in Answer /\ outcome[c].kind \in Results
    BY <1>9 DEF DispatchSettles, DataTyped, Answer
  <2>2. \A kind \in {outcome[c].kind, "error"} : Superseded(c, kind) \in Results
    BY <1>1, <2>1, SupersededKind
  <2>3. CASE Settle(c, "rejected", outcome[c])
    BY <1>2, <1>3, <2>1, <2>3, FillSlot
  <2> QED
    BY <1>1, <1>5, <1>9, <2>2, <2>3 DEF DispatchSettles
<1>10. CASE Retry(c)
  BY <1>2, <1>3, <1>10, FillSlot DEF Retry
<1> QED
  BY <1>6, <1>7, <1>8, <1>9, <1>10 DEF Dispatched

\* The types of the results, of the bodies and of the turn.
LEMMA DataStep ==
  ASSUME SchedulerInv, DataTyped, [SchedulerNext]_vars
  PROVE  DataTyped'
<1> USE DEF group, calls, world, Goto
<1>1. CASE Cancel
  BY <1>1 DEF Cancel, DataTyped
<1>2. CASE Register \/ Throws
  <2>1. used' \in [Kinds -> Nat]
    BY <1>2, SpendTyped DEF Register, Throws, Kinds, DataTyped
  <2> QED
    BY <1>2, <2>1 DEF Register, Throws, DataTyped
<1>3. CASE StartCall
  BY <1>3 DEF StartCall, SchedulerInv, Typed, DataTyped
<1>4. CASE EnterPrepare \/ PrepareSettles
  <2>1. /\ stage' = stage /\ UNCHANGED <<invoked, concluded, used>>
        /\ \/ outcome' = outcome
           \/ \E kind \in Results :
                outcome' \in {[outcome EXCEPT ![started] = Post(kind)],
                             [outcome EXCEPT ![started] = Final(kind)]}
    BY <1>4 DEF EnterPrepare, PrepareSettles, Current, Results
  <2>2. ASSUME NEW slot \in Answer, outcome' = [outcome EXCEPT ![started] = slot]
        PROVE  DataTyped'
    BY <2>1, <2>2 DEF DataTyped, Slot
  <2> QED
    BY <2>1, <2>2, Answers DEF DataTyped
<1>5. CASE Prepared
  <2>1. /\ UNCHANGED <<outcome, invoked, concluded, used>>
        /\ \/ stage' = [stage EXCEPT ![started] = "flushing"]
           \/ /\ stage' = [stage EXCEPT ![started] = "settled"]
              /\ outcome[started] # Pending
    BY <1>5 DEF Prepared, Current
  <2>2. started \in Calls
    BY <1>5 DEF Prepared, SchedulerInv, Typed, GroupOK, Busy, Starting, Calls
  <2> QED
    BY <2>1, <2>2 DEF SchedulerInv, Typed, DataTyped, Slot
<1>6. ASSUME NEW c \in Ready, NEW kind \in Results, AppendResult(c, kind),
             UNCHANGED <<invoked, used>>
      PROVE  DataTyped'
  <2>1. c \in Calls
    BY ReadyResult
  <2>2. concluded' \in BOOLEAN
    BY <1>6 DEF AppendResult, DataTyped
  <2>3. /\ outcome' \in [Calls -> Slot]
        /\ \A d \in Calls : stage'[d] \in {"returned", "settled"} =>
                              outcome'[d] \in Answer
    BY <1>6, <2>1, Answers, FillSlot DEF AppendResult, Stages, Slot
  <2> QED
    BY <1>6, <2>2, <2>3 DEF DataTyped
<1>7. CASE CommitFinal
  <2>1. PICK c \in Ready : AppendResult(c, outcome[c].kind)
    BY <1>7 DEF CommitFinal
  <2> QED
    BY <1>6, <1>7, <2>1, ReadyResult DEF CommitFinal
<1>8. CASE Finalize
  <2>1. PICK c \in Ready : \E from \in {outcome[c].kind, "error"} :
          AppendResult(c, Superseded(c, from))
    BY <1>8 DEF Finalize
  <2> QED
    BY <1>6, <1>8, <2>1, ReadyResult DEF Finalize
<1>9. CASE SkipRest
  BY <1>9 DEF SkipRest, DataTyped
<1>10. ASSUME NEW c \in Calls, Dispatched(c) \/ Retry(c) PROVE DataTyped'
  <2>1. /\ outcome' \in [Calls -> Slot]
        /\ \A d \in Calls : stage'[d] \in {"returned", "settled"} =>
                              outcome'[d] \in Answer
    BY <1>10, SettleTyped
  <2>2. used' \in [Kinds -> Nat]
    <3>1. used' = used \/ \E kind \in Kinds : Spend(kind)
      BY <1>10 DEF Dispatched, Flushed, BodyStarts, BodySettles, DispatchSettles,
                   Retry, Kinds
    <3> QED
      BY <3>1, SpendTyped DEF DataTyped
  <2>3. invoked' \in [Calls -> BOOLEAN] /\ concluded' \in BOOLEAN
    BY <1>10 DEF Dispatched, Flushed, BodyStarts, BodySettles, DispatchSettles,
                 Retry, quiet, DataTyped
  <2> QED
    BY <2>1, <2>2, <2>3 DEF DataTyped
<1>11. CASE UNCHANGED <<outcome, stage, invoked, concluded, used>>
  BY <1>11 DEF DataTyped
<1> QED
  BY <1>1, <1>2, <1>3, <1>4, <1>5, <1>7, <1>8, <1>9, <1>10, <1>11
  DEF SchedulerNext, Scheduler, Settled, vars, OpenGroup, AllStarted, Resume,
      StartFinalize, CommittedReady, Refill, AwaitPool, Race, CloseGroup, Rethrows,
      Drain
-----------------------------------------------------------------------------
\* commitReady commits a result the slot holds, or one that supersedes it.
LEMMA Commits ==
  ASSUME SchedulerInv, DataTyped, CommitFinal \/ Finalize
  PROVE  \E c \in Ready : \E kind \in Results :
           /\ AppendResult(c, kind)
           /\ kind = outcome[c].kind
                \/ \E from \in {outcome[c].kind, "error"} : kind = Superseded(c, from)
           /\ UNCHANGED <<started, invoked, signal>>
           /\ pc \notin Starting \cup {"done"} /\ pc' \notin Starting \cup {"done"}
<1> USE DEF Starting
<1>1. CASE CommitFinal
  <2>1. PICK c \in Ready : AppendResult(c, outcome[c].kind)
    BY <1>1 DEF CommitFinal
  <2>2. outcome[c].kind \in Results
    BY ReadyResult
  <2>3. /\ UNCHANGED <<started, invoked, signal>>
        /\ pc = "commit" /\ pc' = "commit"
    BY <1>1 DEF CommitFinal
  <2> QED
    BY <2>1, <2>2, <2>3
<1>2. CASE Finalize
  <2>1. PICK c \in Ready : \E from \in {outcome[c].kind, "error"} :
          AppendResult(c, Superseded(c, from))
    BY <1>2 DEF Finalize
  <2>2. PICK from \in {outcome[c].kind, "error"} : AppendResult(c, Superseded(c, from))
    BY <2>1
  <2>3. Superseded(c, from) \in Results
    BY ReadyResult
  <2>4. /\ UNCHANGED <<started, invoked, signal>>
        /\ pc = "finalizing" /\ pc' = "commit"
    BY <1>2 DEF Finalize
  <2> QED
    BY <2>2, <2>3, <2>4
<1> QED
  BY <1>1, <1>2

\* The log grows when a call starts, when a result is committed and when the
\* rest is skipped, and at no other step.
LEMMA LogSteps ==
  ASSUME SchedulerInv, [SchedulerNext]_vars
  PROVE  \/ StartCall \/ SkipRest \/ CommitFinal \/ Finalize
         \/ /\ UNCHANGED <<log, started, committed, concluded>>
            /\ pc = "done" => pc' = "done"
            /\ pc # "done" /\ pc' = "done" => started = N /\ committed = N
<1> USE DEF group, calls, world, Goto
<1> DEFINE Same == /\ UNCHANGED <<log, started, committed, concluded>>
                   /\ pc = "done" => pc' = "done"
                   /\ pc # "done" /\ pc' = "done" => started = N /\ committed = N
<1>1. CASE Cancel \/ Register \/ Throws
  BY <1>1 DEF Cancel, Register, Throws
<1>2. CASE OpenGroup \/ EnterPrepare \/ PrepareSettles \/ Prepared
  BY <1>2 DEF OpenGroup, EnterPrepare, PrepareSettles, Prepared
<1>3. CASE AllStarted
  BY <1>3 DEF AllStarted, SchedulerInv, FailureOK
<1>4. CASE Resume \/ StartFinalize \/ CommittedReady \/ Refill
  BY <1>4 DEF Resume, StartFinalize, CommittedReady, Refill
<1>5. CASE AwaitPool \/ Race \/ CloseGroup \/ Rethrows \/ Drain
  BY <1>5 DEF AwaitPool, Race, CloseGroup, Rethrows, Drain
<1>6. CASE Settled \/ UNCHANGED vars
  BY <1>6 DEF Settled, vars
<1>7. ASSUME NEW c \in Calls, Dispatched(c) \/ Retry(c) PROVE Same
  BY <1>7 DEF Dispatched, Flushed, BodyStarts, BodySettles, DispatchSettles, Retry,
              quiet
<1> QED
  BY <1>1, <1>2, <1>3, <1>4, <1>5, <1>6, <1>7 DEF SchedulerNext, Scheduler

\* Every step keeps the account of the log, and appends what the rules accept.
LEMMA LogStep ==
  ASSUME SchedulerInv, DataTyped, LogOK, [SchedulerNext]_vars
  PROVE  LogOK' /\ \E R : Extended(log, log', R)
<1>1. CASE StartCall
  BY <1>1, StartLog
<1>2. CASE SkipRest
  BY <1>2, SkipLog
<1>3. CASE CommitFinal \/ Finalize
  <2>1. PICK c \in Ready : \E kind \in Results :
               /\ AppendResult(c, kind) /\ UNCHANGED started
               /\ pc # "done" /\ pc' # "done"
    BY <1>3, Commits
  <2>2. PICK kind \in Results :
               /\ AppendResult(c, kind) /\ UNCHANGED started
               /\ pc # "done" /\ pc' # "done"
    BY <2>1
  <2> QED
    BY <2>2, CommitLog
<1>4. ASSUME UNCHANGED <<log, started, committed, concluded>>,
             pc = "done" => pc' = "done",
             pc # "done" /\ pc' = "done" => started = N /\ committed = N
      PROVE  LogOK' /\ \E R : Extended(log, log', R)
  <2>1. Done(committed)' = Done(committed) /\ Done(started)' = Done(started)
    BY <1>4 DEF Done
  <2>2. LogOK'
    BY <1>4, <2>1 DEF LogOK
  <2>3. log \in Seq(LogEvent)
    BY DEF LogOK, Shape
  <2>4. Extended(log, log, {})
    BY <2>3, ExtendedSelf
  <2> QED
    BY <1>4, <2>2, <2>4
<1> QED
  BY <1>1, <1>2, <1>3, <1>4, LogSteps

\* The turn is concluded by a step that commits the success of a concluding call.
LEMMA ConcludedStep ==
  ASSUME SchedulerInv, DataTyped, LogOK, ConcludedOK, [SchedulerNext]_vars
  PROVE  ConcludedOK'
<1> USE SchedulerAssumption DEF ConcludedOK
<1>0. "ok" \in Results /\ Concluding \subseteq Calls
  BY DEF Results
<1>1. CASE StartCall
  <2>1. Extended(log, log', {}) /\ concluded' = concluded
    BY <1>1, StartLog DEF StartCall, world
  <2> QED
    BY <1>0, <2>1 DEF Extended
<1>2. CASE SkipRest
  <2> DEFINE R == {<<c, "ABORTED_BEFORE_DISPATCH">> : c \in (started + 1)..N}
  <2>1. Extended(log, log', R) /\ concluded' = concluded
    BY <1>2, SkipLog DEF SkipRest, world
  <2>2. \A c \in Calls : <<c, "ok">> \notin R
    OBVIOUS
  <2> HIDE DEF R
  <2> QED
    BY <1>0, <2>1, <2>2 DEF Extended
<1>3. CASE CommitFinal \/ Finalize
  <2>1. PICK c \in Ready : \E kind \in Results :
               /\ AppendResult(c, kind) /\ UNCHANGED started
               /\ pc # "done" /\ pc' # "done"
    BY <1>3, Commits
  <2>2. PICK kind \in Results :
               /\ AppendResult(c, kind) /\ UNCHANGED started
               /\ pc # "done" /\ pc' # "done"
    BY <2>1
  <2>3. /\ c \in Calls /\ Extended(log, log', {<<c, kind>>})
        /\ concluded' = (concluded \/ (kind = "ok" /\ c \in Concluding))
    BY <2>2, CommitLog DEF AppendResult
  <2>4. \A d \in Calls : HasResult(log', d, "ok") <=>
          HasResult(log, d, "ok") \/ (d = c /\ kind = "ok")
    BY <1>0, <2>3 DEF Extended
  <2> QED
    BY <1>0, <2>3, <2>4
<1>4. CASE UNCHANGED <<log, started, committed, concluded>>
  BY <1>4
<1> QED
  BY <1>1, <1>2, <1>3, <1>4, LogSteps

\* A dispatched call says of its body what it did.
LEMMA ToldDispatched ==
  ASSUME SchedulerInv, DataTyped, ToldOK, NEW c \in Calls, Dispatched(c) \/ Retry(c)
  PROVE  ToldOK'
<1> DEFINE Once == Limit["retries"] = 0
<1>1. /\ stage \in [Calls -> Stages] /\ outcome \in [Calls -> Slot]
      /\ invoked \in [Calls -> BOOLEAN] /\ "retries" \in Kinds
      /\ used["retries"] \in Nat
  BY DEF SchedulerInv, Typed, DataTyped, Kinds
<1>2. UNCHANGED <<log, pc, started>>
  BY DEF Dispatched, Flushed, BodyStarts, BodySettles, DispatchSettles, Retry, quiet
<1>3. /\ Truthful(outcome[c].kind, invoked[c])
      /\ stage[c] = "running" => invoked[c]
      /\ stage[c] \in {"flushing", "wrapping"} =>
           outcome[c] = Pending /\ (Once => ~invoked[c])
  BY DEF ToldOK
<1>4. /\ stage[c] \in {"flushing", "wrapping", "running", "returned"}
      /\ \A d \in Calls : d # c => /\ stage'[d] = stage[d] /\ outcome'[d] = outcome[d]
                                   /\ invoked'[d] = invoked[d]
  BY <1>1 DEF Dispatched, Flushed, BodyStarts, BodySettles, DispatchSettles, Retry,
              Settle
<1>5. /\ Truthful(outcome'[c].kind, invoked'[c])
      /\ stage'[c] = "running" => invoked'[c]
      /\ stage'[c] \notin {"planned", "preparing"}
      /\ stage'[c] \in {"flushing", "wrapping"} =>
             outcome'[c] = Pending /\ (Once => ~invoked'[c])
  <2> USE DEF Settle, Post, Final, Truthful
  <2>1. CASE Flushed(c)
    BY <1>1, <1>3, <2>1 DEF Flushed
  <2>2. CASE BodyStarts(c)
    <3>1. CASE Settle(c, "returned", Post("ABORTED_BEFORE_DISPATCH")) /\ UNCHANGED invoked
      BY <1>1, <1>3, <2>2, <3>1 DEF BodyStarts
    <3>2. CASE /\ \E kind \in {"ok", "error"} : Settle(c, "returned", Post(kind))
               /\ UNCHANGED invoked
      BY <1>1, <2>2, <3>2 DEF BodyStarts
    <3>3. CASE /\ invoked' = [invoked EXCEPT ![c] = TRUE]
               /\ stage' = [stage EXCEPT ![c] = "running"]
               /\ UNCHANGED outcome
      <4>1. outcome[c].kind = "none"
        BY <1>3, <2>2 DEF BodyStarts, Pending
      <4> QED
        BY <1>1, <2>2, <3>3, <4>1 DEF BodyStarts
    <3> QED
      BY <2>2, <3>1, <3>2, <3>3 DEF BodyStarts
  <2>3. CASE BodySettles(c)
    BY <1>1, <1>3, <2>3 DEF BodySettles
  <2>4. CASE DispatchSettles(c)
    <3>1. \A kind \in {outcome[c].kind, "error"} :
            Truthful(Superseded(c, kind), invoked[c])
      BY <1>3 DEF Superseded
    <3> QED
      BY <1>1, <1>3, <2>4, <3>1 DEF DispatchSettles
  <2>5. CASE Retry(c)
    <3>1. ~Once
      BY <1>1, <2>5, SchedulerAssumption DEF Retry, Spend
    <3> QED
      BY <1>1, <2>5, <3>1 DEF Retry, Pending
  <2> QED
    BY <2>1, <2>2, <2>3, <2>4, <2>5 DEF Dispatched
<1> HIDE DEF Once
<1>6. ASSUME NEW d \in Calls
      PROVE  /\ Truthful(outcome'[d].kind, invoked'[d])
             /\ stage'[d] = "running" => invoked'[d]
             /\ stage'[d] \in {"planned", "preparing"} => ~invoked'[d]
             /\ stage'[d] \in {"flushing", "wrapping"} =>
                  outcome'[d] = Pending /\ (Once => ~invoked'[d])
  <2>1. CASE d = c
    BY <1>5, <2>1
  <2>2. CASE d # c
    BY <1>4, <2>2 DEF ToldOK, Once
  <2> QED
    BY <2>1, <2>2
<1>7. ASSUME NEW d \in Calls, NEW kind \in Results, HasResult(log, d, kind)
      PROVE  stage'[d] = "over" /\ Truthful(kind, invoked'[d])
  <2>1. stage[d] = "over" /\ Truthful(kind, invoked[d])
    BY <1>7 DEF ToldOK
  <2> QED
    BY <1>4, <2>1
<1>8. pc \in Starting => stage'[started] = "preparing"
  <2> SUFFICES ASSUME pc \in Starting PROVE stage'[started] = "preparing"
    OBVIOUS
  <2>1. started \in Calls
    BY DEF SchedulerInv, Typed, GroupOK, Busy, Calls
  <2> QED
    BY <1>4, <2>1 DEF ToldOK
<1> QED
  BY <1>2, <1>6, <1>7, <1>8 DEF ToldOK, Once

\* A committed result says of the body what its slot said.
LEMMA ToldCommit ==
  ASSUME SchedulerInv, DataTyped, LogOK, ToldOK, CommitFinal \/ Finalize
  PROVE  ToldOK'
<1>1. PICK c \in Ready : \E kind \in Results :
           /\ AppendResult(c, kind)
           /\ kind = outcome[c].kind
                \/ \E from \in {outcome[c].kind, "error"} : kind = Superseded(c, from)
           /\ UNCHANGED <<started, invoked, signal>>
           /\ pc \notin Starting \cup {"done"} /\ pc' \notin Starting \cup {"done"}
  BY Commits
<1>2. PICK kind \in Results :
           /\ AppendResult(c, kind)
           /\ kind = outcome[c].kind
                \/ \E from \in {outcome[c].kind, "error"} : kind = Superseded(c, from)
           /\ UNCHANGED <<started, invoked, signal>>
           /\ pc \notin Starting \cup {"done"} /\ pc' \notin Starting \cup {"done"}
  BY <1>1
<1>3. /\ c \in Calls
      /\ \A d \in Calls, k \in Results :
           HasResult(log', d, k) <=> HasResult(log, d, k) \/ <<d, k>> \in {<<c, kind>>}
  BY <1>2, CommitLog DEF Extended
<1>4. /\ stage \in [Calls -> Stages] /\ outcome \in [Calls -> Slot]
      /\ stage' = [stage EXCEPT ![c] = "over"] /\ outcome' = [outcome EXCEPT ![c] = Final(kind)]
  BY <1>2 DEF AppendResult, SchedulerInv, Typed, DataTyped
<1>5. Truthful(kind, invoked[c])
  BY <1>2, <1>3 DEF ToldOK, Truthful, Superseded
<1>6. ASSUME NEW d \in Calls
      PROVE  /\ Truthful(outcome'[d].kind, invoked'[d])
             /\ stage'[d] = "running" => invoked'[d]
             /\ stage'[d] \in {"planned", "preparing"} => ~invoked'[d]
             /\ stage'[d] \in {"flushing", "wrapping"} =>
                  outcome'[d] = Pending /\ (Limit["retries"] = 0 => ~invoked'[d])
  <2>1. CASE d = c
    BY <1>2, <1>4, <1>5, <2>1 DEF Final
  <2>2. CASE d # c
    BY <1>2, <1>4, <2>2 DEF ToldOK
  <2> QED
    BY <2>1, <2>2
<1>7. ASSUME NEW d \in Calls, NEW k \in Results, HasResult(log', d, k)
      PROVE  stage'[d] = "over" /\ Truthful(k, invoked'[d])
  <2>1. CASE d = c /\ k = kind
    BY <1>2, <1>4, <1>5, <2>1
  <2>2. CASE HasResult(log, d, k)
    BY <1>2, <1>4, <2>2 DEF ToldOK
  <2> QED
    BY <1>3, <1>7, <2>1, <2>2
<1> QED
  BY <1>2, <1>6, <1>7 DEF ToldOK

\* A skipped call was never started, so its body never ran.
LEMMA ToldSkip ==
  ASSUME SchedulerInv, DataTyped, LogOK, ToldOK, SkipRest
  PROVE  ToldOK'
<1> DEFINE R == {<<c, "ABORTED_BEFORE_DISPATCH">> : c \in (started + 1)..N}
<1>1. /\ UNCHANGED <<invoked, outcome, started>> /\ pc' = "done"
      /\ stage' = [c \in Calls |-> IF c \in Skipped THEN "over" ELSE stage[c]]
      /\ Skipped = (started + 1)..N /\ started \in 0..N
      /\ pc # "done"
  BY DEF SkipRest, group, Skipped, SchedulerInv, Typed
<1>2. \A d \in Calls, k \in Results :
        HasResult(log', d, k) <=> HasResult(log, d, k) \/ <<d, k>> \in R
  BY SkipLog DEF Extended
<1>3. ASSUME NEW d \in Calls, d \in Skipped PROVE ~invoked[d]
  <2>1. stage[d] = "planned"
    BY <1>1, <1>3 DEF SchedulerInv, StageOK, Calls
  <2> QED
    BY <2>1 DEF ToldOK
<1>4. ASSUME NEW d \in Calls
      PROVE  /\ Truthful(outcome'[d].kind, invoked'[d])
             /\ stage'[d] = "running" => invoked'[d]
             /\ stage'[d] \in {"planned", "preparing"} => ~invoked'[d]
             /\ stage'[d] \in {"flushing", "wrapping"} =>
                  outcome'[d] = Pending /\ (Limit["retries"] = 0 => ~invoked'[d])
  BY <1>1 DEF ToldOK
<1>5. ASSUME NEW d \in Calls, NEW k \in Results, HasResult(log', d, k)
      PROVE  stage'[d] = "over" /\ Truthful(k, invoked'[d])
  <2>1. CASE <<d, k>> \in R
    <3>1. d \in Skipped /\ k = "ABORTED_BEFORE_DISPATCH"
      BY <1>1, <2>1
    <3> QED
      BY <1>1, <1>3, <3>1 DEF Truthful
  <2>2. CASE HasResult(log, d, k)
    BY <1>1, <2>2 DEF ToldOK
  <2> QED
    BY <1>2, <1>5, <2>1, <2>2
<1> QED
  BY <1>1, <1>4, <1>5 DEF ToldOK, Starting

\* No step makes what the log says of a body untrue.
LEMMA ToldStep ==
  ASSUME SchedulerInv, DataTyped, LogOK, ToldOK, [SchedulerNext]_vars
  PROVE  ToldOK'
<1> USE DEF group, calls, world, Goto, Starting
<1>1. CASE Cancel \/ Register \/ Throws
  BY <1>1 DEF Cancel, Register, Throws, ToldOK
<1>2. CASE OpenGroup \/ AllStarted \/ Refill
  BY <1>2 DEF OpenGroup, AllStarted, Refill, ToldOK
<1>3. CASE StartCall
  <2>1. /\ started + 1 \in Calls /\ started \in 0..N
        /\ stage' = [stage EXCEPT ![started + 1] = "preparing"]
        /\ stage \in [Calls -> Stages] /\ started' = started + 1
        /\ UNCHANGED <<outcome, invoked>> /\ pc' = "called" /\ pc = "fill"
    BY <1>3, SchedulerAssumption
    DEF StartCall, MayStart, SchedulerInv, Typed, GroupOK, Calls
  <2>2. stage[started + 1] = "planned"
    BY <2>1 DEF SchedulerInv, StageOK
  <2>3. \A d \in Calls, k \in Results : HasResult(log', d, k) <=> HasResult(log, d, k)
    BY <1>3, StartLog DEF Extended
  <2>4. ASSUME NEW d \in Calls
        PROVE  /\ Truthful(outcome'[d].kind, invoked'[d])
               /\ stage'[d] = "running" => invoked'[d]
               /\ stage'[d] \in {"planned", "preparing"} => ~invoked'[d]
               /\ stage'[d] \in {"flushing", "wrapping"} =>
                    outcome'[d] = Pending /\ (Limit["retries"] = 0 => ~invoked'[d])
    BY <2>1, <2>2 DEF ToldOK
  <2>5. ASSUME NEW d \in Calls, NEW k \in Results, HasResult(log', d, k)
        PROVE  stage'[d] = "over" /\ Truthful(k, invoked'[d])
    BY <2>1, <2>2, <2>3, <2>5 DEF ToldOK
  <2> QED
    BY <2>1, <2>4, <2>5 DEF ToldOK
<1>4. CASE EnterPrepare \/ PrepareSettles
  <2>1. /\ UNCHANGED <<log, stage, invoked, started>> /\ pc \in Starting
        /\ \/ outcome' = outcome
           \/ \E kind \in {"error", "ABORTED_BEFORE_DISPATCH"} :
                outcome' \in {[outcome EXCEPT ![started] = Post(kind)],
                             [outcome EXCEPT ![started] = Final(kind)]}
    BY <1>4 DEF EnterPrepare, PrepareSettles, Current
  <2>2. started \in Calls
    BY <2>1 DEF SchedulerInv, Typed, GroupOK, Busy, Calls
  <2>3. stage[started] = "preparing" /\ ~invoked[started]
    BY <2>1, <2>2 DEF ToldOK
  <2>4. ASSUME NEW d \in Calls
        PROVE  /\ Truthful(outcome'[d].kind, invoked'[d])
               /\ d # started => outcome'[d] = outcome[d]
    <3>1. outcome \in [Calls -> Slot] /\ Truthful(outcome[d].kind, invoked[d])
      BY DEF DataTyped, ToldOK
    <3>2. CASE d = started
      BY <2>1, <2>3, <3>1, <3>2 DEF Post, Final, Truthful
    <3>3. CASE d # started
      BY <2>1, <3>1, <3>3
    <3> QED
      BY <3>2, <3>3
  <2> QED
    BY <2>1, <2>3, <2>4 DEF ToldOK
<1>5. CASE Prepared
  <2>1. /\ UNCHANGED <<log, outcome, invoked, started>> /\ pc = "prepared"
        /\ pc' = "resume"
        /\ \/ /\ stage' = [stage EXCEPT ![started] = "flushing"]
              /\ outcome[started] = Pending
           \/ stage' = [stage EXCEPT ![started] = "settled"]
    BY <1>5 DEF Prepared, Current
  <2>2. started \in Calls /\ stage \in [Calls -> Stages]
    BY <2>1 DEF SchedulerInv, Typed, GroupOK, Busy, Calls
  <2>3. stage[started] = "preparing" /\ ~invoked[started]
    BY <2>1, <2>2 DEF ToldOK
  <2>4. \A d \in Calls : d # started => stage'[d] = stage[d]
    BY <2>1, <2>2
  <2>5. /\ stage'[started] \in {"flushing", "settled"}
        /\ stage'[started] = "flushing" => outcome[started] = Pending
    BY <2>1, <2>2
  <2>6. ASSUME NEW d \in Calls
        PROVE  /\ Truthful(outcome'[d].kind, invoked'[d])
               /\ stage'[d] = "running" => invoked'[d]
               /\ stage'[d] \in {"planned", "preparing"} => ~invoked'[d]
               /\ stage'[d] \in {"flushing", "wrapping"} =>
                    outcome'[d] = Pending /\ (Limit["retries"] = 0 => ~invoked'[d])
    BY <2>1, <2>3, <2>4, <2>5 DEF ToldOK
  <2>7. ASSUME NEW d \in Calls, NEW k \in Results, HasResult(log', d, k)
        PROVE  stage'[d] = "over" /\ Truthful(k, invoked'[d])
    BY <2>1, <2>3, <2>4, <2>7 DEF ToldOK
  <2> QED
    BY <2>1, <2>6, <2>7 DEF ToldOK
<1>6. CASE Resume \/ StartFinalize \/ CommittedReady
  BY <1>6 DEF Resume, StartFinalize, CommittedReady, ToldOK
<1>7. CASE AwaitPool \/ Race \/ CloseGroup \/ Rethrows \/ Drain
  BY <1>7 DEF AwaitPool, Race, CloseGroup, Rethrows, Drain, ToldOK
<1>8. CASE Settled \/ UNCHANGED vars
  BY <1>8 DEF Settled, vars, ToldOK
<1>9. CASE CommitFinal \/ Finalize
  BY <1>9, ToldCommit
<1>10. CASE SkipRest
  BY <1>10, ToldSkip
<1>11. ASSUME NEW c \in Calls, Dispatched(c) \/ Retry(c) PROVE ToldOK'
  BY <1>11, ToldDispatched
<1> QED
  BY <1>1, <1>2, <1>3, <1>4, <1>5, <1>6, <1>7, <1>8, <1>9, <1>10, <1>11
  DEF SchedulerNext, Scheduler
-----------------------------------------------------------------------------
\* One step of the scheduler.
LEMMA LogNext == LogInv /\ [SchedulerNext]_vars => LogInv'
  BY NextInv, DataStep, LogStep, ConcludedStep, ToldStep DEF LogInv

\* The log, the slots, the turn's ending and what the results say of the bodies
\* are as described in every reachable state.
THEOREM LogCorrect == SchedulerSpec => []LogInv
<1>1. SchedulerInit => LogInv
  BY InitInv, InitLog DEF LogInv
<1> QED
  BY <1>1, LogNext, PTL DEF SchedulerSpec

\* Whatever order the bodies settle in, results and the contexts they carry
\* enter the log in model order, each once; when executeToolCalls returns every
\* call of the message has its one call event and its one result, aborted or not
\* (commitReady, runGroup and executeToolCalls of tool-calls.ts).
THEOREM StepCorrect == SchedulerSpec => []StepAccounted
<1>1. ASSUME LogInv PROVE StepAccounted
  <2> DEFINE r == Done(committed)
             s == Done(started)
             box == ReplayInbox(log)
  <2>1. /\ Numbered(log, Len(log), r, s) /\ log \in Seq(LogEvent)
        /\ Staged(log, committed)
    BY <1>1 DEF LogInv, LogOK, Shape
  <2>2. InModelOrder("tool/call") /\ InModelOrder("tool/result")
    BY <2>1 DEF InModelOrder, At, Numbered
  <2>3. CallsOf("tool/result") = 1..r /\ CallsOf("tool/call") = 1..s
    BY <2>1 DEF CallsOf, At, Numbered
  <2>4. /\ \A i, j \in 1..Len(box["next-step"]) :
             i < j => box["next-step"][i] < box["next-step"][j]
        /\ ToSet(box["next-step"]) = Deferring \cap 1..committed
    BY <2>1 DEF Staged
  <2>5. CallsOf("tool/result") = IF pc = "done" THEN Calls ELSE 1..committed
    BY <2>3 DEF Done, Calls
  <2>6. ASSUME pc = "done"
        PROVE  /\ CallsOf("tool/call") = Calls
               /\ concluded <=> \E i \in At("tool/result") :
                                   log[i].call \in Concluding /\ log[i].error = "ok"
    <3>1. CallsOf("tool/call") = Calls
      BY <2>3, <2>6 DEF Done, Calls
    <3>2. concluded <=> \E c \in Concluding : HasResult(log, c, "ok")
      BY <1>1 DEF LogInv, ConcludedOK
    <3> QED
      BY <3>1, <3>2 DEF At, HasResult
  <2> QED
    BY <2>2, <2>4, <2>5, <2>6 DEF StepAccounted
<1> QED
  BY <1>1, LogCorrect, PTL

\* A sequence whose positions another one continues is a prefix of it.
LEMMA PrefixByPosition ==
  ASSUME NEW S, NEW l \in Seq(S), NEW m \in Seq(S), Len(l) <= Len(m),
         \A i \in 1..Len(l) : m[i] = l[i]
  PROVE  IsPrefix(l, m)
<1>1. Len(l) \in Nat /\ Len(m) \in Nat
  BY LenProperties
<1> DEFINE t == SubSeq(m, 1, Len(l))
<1>2. /\ t \in Seq(S) /\ Len(t) = Len(l)
      /\ \A i \in 1..Len(l) : t[i] = m[i]
  <2>1. \A i \in 1..Len(l) : m[i] \in S
    BY <1>1, ElementOfSeq
  <2> QED
    BY <1>1, <2>1, SubSeqProperties
<1> HIDE DEF t
<1>3. t = l
  BY <1>1, <1>2, SeqEqual
<1> QED
  BY <1>1, <1>3 DEF IsPrefix, t

\* Every event the scheduler appends is accepted by the relational rules of the
\* session log, and nothing it has written is ever changed.
THEOREM AcceptedCorrect == SchedulerSpec => AppendsAccepted
<1>1. ASSUME LogInv, LogInv', [SchedulerNext]_vars PROVE Extend
  <2>1. PICK R : Extended(log, log', R)
    BY <1>1, LogStep DEF LogInv
  <2>2. log \in Seq(LogEvent) /\ log' \in Seq(LogEvent)
    BY <1>1 DEF LogInv, LogOK, Shape
  <2>3. /\ Len(log) <= Len(log') /\ \A i \in 1..Len(log) : log'[i] = log[i]
        /\ AcceptedAfter(Len(log), log')
    BY <2>1 DEF Extended
  <2>4. IsPrefix(log, log')
    BY <2>2, <2>3, PrefixByPosition
  <2> QED
    BY <2>3, <2>4 DEF Extend
<1> QED
  BY <1>1, LogCorrect, PTL DEF SchedulerSpec, AppendsAccepted

\* The results in the log are of calls of the message.
LEMMA ResultsNamed ==
  ASSUME LogInv, NEW i \in 1..Len(log), log[i].type = "tool/result"
  PROVE  log[i].call \in Calls
<1>1. log[i].call \in 1..Done(committed)
  BY DEF LogInv, LogOK, Shape, Numbered
<1>2. committed \in 0..N /\ N \in Nat
  BY SchedulerAssumption DEF LogInv, SchedulerInv, Typed
<1> QED
  BY <1>1, <1>2 DEF Done, Calls

\* A result that says its call was aborted is one of a call whose body ran, even
\* when wrappers delegate again (cancellationResult in core/tools).
THEOREM AbortedRan ==
  SchedulerSpec => [](\A i \in 1..Len(log) :
    log[i].type = "tool/result" /\ log[i].error = "ABORTED" => invoked[log[i].call])
<1>1. ASSUME LogInv
      PROVE  \A i \in 1..Len(log) :
               log[i].type = "tool/result" /\ log[i].error = "ABORTED"
                 => invoked[log[i].call]
  <2>1. ASSUME NEW i \in 1..Len(log), log[i].type = "tool/result",
               log[i].error = "ABORTED"
        PROVE  invoked[log[i].call]
    <3>1. log[i].call \in Calls
      BY <1>1, <2>1, ResultsNamed
    <3>2. HasResult(log, log[i].call, "ABORTED") /\ "ABORTED" \in Results
      BY <2>1 DEF HasResult, Results
    <3> QED
      BY <1>1, <3>1, <3>2 DEF LogInv, ToldOK, Truthful
  <2> QED
    BY <2>1
<1> QED
  BY <1>1, LogCorrect, PTL

\* When no wrapper delegates twice, what the model is told of a cancelled call is
\* true: before dispatch only if the body never ran, aborted only if it did.  The
\* hypothesis is needed: the run ToolRetry shows a retried call misreported.
THEOREM ToldCorrect ==
  ASSUME Limit["retries"] = 0
  PROVE  SchedulerSpec => []CancelToldTruly
<1>1. ASSUME LogInv PROVE CancelToldTruly
  <2>1. ASSUME NEW i \in 1..Len(log), log[i].type = "tool/result"
        PROVE  /\ log[i].error = "ABORTED_BEFORE_DISPATCH" => ~invoked[log[i].call]
               /\ log[i].error = "ABORTED" => invoked[log[i].call]
    <3>1. log[i].call \in Calls
      BY <1>1, <2>1, ResultsNamed
    <3>2. HasResult(log, log[i].call, log[i].error)
      BY <2>1 DEF HasResult
    <3>3. {"ABORTED", "ABORTED_BEFORE_DISPATCH"} \subseteq Results
      BY DEF Results
    <3> QED
      BY <1>1, <3>1, <3>2, <3>3 DEF LogInv, ToldOK, Truthful
  <2> QED
    BY <2>1 DEF CancelToldTruly
<1> QED
  BY <1>1, LogCorrect, PTL
-----------------------------------------------------------------------------
(***************************************************************************)
(* What a crash leaves.  The log is the opening of the step and then its   *)
(* calls and results, so a crash may cut it anywhere: the repair finds the *)
(* step open, with the calls that have no result still to be answered.     *)
(***************************************************************************)
\* The opening of the step, and nothing after it that opens or closes a step.
Opened(l) ==
  /\ l \in Seq(LogEvent) /\ Len(l) >= 3
  /\ l[1] = TurnStart(1) /\ l[2] = StepStart(1, 1)
  /\ l[3] = Assistant(1, 1, [i \in Calls |-> i])
  /\ \A i \in 4..Len(l) : l[i].type \in StepTypes
  /\ AcceptedAfter(3, l)

\* A call that got past its checkpoint has its call event in storage.
DurableOK ==
  /\ durable \in 0..Len(log)
  /\ \A c \in Calls :
       invoked[c] \/ stage[c] \in {"wrapping", "running", "returned"} =>
         \E i \in 1..durable : log[i].type = "tool/call" /\ log[i].call = c

CrashInv == LogInv /\ Opened(log) /\ DurableOK

\* The repair's cursor after the results of 1..r and the calls of 1..s.
Unanswered(r, s) ==
  [i \in 1..(N - r) |-> [call |-> r + i, step |-> 1, started |-> r + i <= s]]
StepCursor(r, s) ==
  [openTurn |-> 1, openStep |-> 1, pendingCalls |-> Unanswered(r, s)]
OpenCall == [call : Calls, step : {1}, started : BOOLEAN]

\* The unanswered calls are a list, in model order.
LEMMA UnansweredList ==
  ASSUME NEW r \in 0..N, NEW s \in 0..N
  PROVE  /\ Unanswered(r, s) \in Seq(OpenCall) /\ Len(Unanswered(r, s)) = N - r
         /\ \A i \in 1..(N - r) :
              Unanswered(r, s)[i] = [call |-> r + i, step |-> 1, started |-> r + i <= s]
<1> DEFINE u == Unanswered(r, s)
<1>1. N \in Nat /\ r \in Nat /\ s \in Nat /\ N - r \in Nat
  BY SchedulerAssumption
<1>2. \A i \in 1..(N - r) : [call |-> r + i, step |-> 1, started |-> r + i <= s] \in OpenCall
  BY <1>1 DEF OpenCall, Calls
<1>3. u \in [1..(N - r) -> OpenCall]
  BY <1>2 DEF Unanswered
<1>4. \A i \in 1..(N - r) : u[i] = [call |-> r + i, step |-> 1, started |-> r + i <= s]
  BY DEF Unanswered
<1> HIDE DEF u
<1>5. u \in Seq(OpenCall) /\ Len(u) = N - r
  BY <1>1, <1>3
<1> QED
  BY <1>4, <1>5 DEF u

\* Marking a call changes nothing else of it.
LEMMA Marked ==
  ASSUME NEW p, NEW c, NEW b, NEW mark, p = [call |-> c, step |-> 1, started |-> b]
  PROVE  [p EXCEPT !.started = mark] = [call |-> c, step |-> 1, started |-> mark]
  OBVIOUS

\* A call event marks the call it starts.
LEMMA ScanCall ==
  ASSUME NEW r \in 0..N, NEW s \in 0..N, s + 1 <= N, NEW e,
         e.type = "tool/call", e.call = s + 1
  PROVE  scan(StepCursor(r, s), e) = StepCursor(r, s + 1)
<1> DEFINE u == Unanswered(r, s)
           v == Unanswered(r, s + 1)
           w == [i \in 1..Len(u) |->
                  IF u[i].call = e.call THEN [u[i] EXCEPT !.started = TRUE] ELSE u[i]]
<1>1. N \in Nat /\ r \in Nat /\ s \in Nat /\ s + 1 \in 0..N
  BY SchedulerAssumption
<1>2. /\ Len(u) = N - r
      /\ \A i \in 1..(N - r) :
           u[i] = [call |-> r + i, step |-> 1, started |-> r + i <= s]
  BY UnansweredList
<1>3. scan(StepCursor(r, s), e) = [StepCursor(r, s) EXCEPT !.pendingCalls = w]
  BY DEF scan, StepCursor
<1>4. w = v
  <2>1. ASSUME NEW i \in 1..(N - r)
        PROVE  (IF u[i].call = e.call THEN [u[i] EXCEPT !.started = TRUE] ELSE u[i])
                 = [call |-> r + i, step |-> 1, started |-> r + i <= s + 1]
    <3>1. u[i] = [call |-> r + i, step |-> 1, started |-> r + i <= s]
      BY <1>2
    <3> HIDE DEF u
    <3>2. CASE r + i = s + 1
      <4>1. u[i].call = e.call
        BY <3>1, <3>2
      <4>2. [u[i] EXCEPT !.started = TRUE]
              = [call |-> r + i, step |-> 1, started |-> TRUE]
        <5> DEFINE before == r + i <= s
        <5>1. u[i] = [call |-> r + i, step |-> 1, started |-> before]
          BY <3>1
        <5> HIDE DEF before
        <5>2. \A mark : [u[i] EXCEPT !.started = mark]
                          = [call |-> r + i, step |-> 1, started |-> mark]
          BY <5>1, Marked
        <5> QED
          BY <5>2
      <4>3. (r + i <= s + 1) = TRUE
        BY <1>1, <3>2
      <4> QED
        BY <4>1, <4>2, <4>3
    <3>3. CASE r + i # s + 1
      <4>1. (r + i <= s) = (r + i <= s + 1) /\ u[i].call # e.call
        BY <1>1, <3>1, <3>3
      <4> QED
        BY <3>1, <4>1
    <3> QED
      BY <3>2, <3>3
  <2> HIDE DEF u
  <2> QED
    BY <1>2, <2>1 DEF Unanswered
<1> HIDE DEF w, u
<1> QED
  BY <1>3, <1>4 DEF StepCursor

\* A result takes the call it answers off the list.
LEMMA ScanResult ==
  ASSUME NEW r \in 0..N, NEW s \in 0..N, r + 1 <= N, NEW e,
         e.type = "tool/result", e.call = r + 1
  PROVE  scan(StepCursor(r, s), e) = StepCursor(r + 1, s)
<1> DEFINE u == Unanswered(r, s)
           v == Unanswered(r + 1, s)
           found == {i \in 1..Len(u) : u[i].call = e.call}
<1>1. N \in Nat /\ r \in Nat /\ s \in Nat /\ r + 1 \in 0..N
  BY SchedulerAssumption
<1>2. /\ u \in Seq(OpenCall) /\ Len(u) = N - r
      /\ \A i \in 1..(N - r) :
           u[i] = [call |-> r + i, step |-> 1, started |-> r + i <= s]
  BY UnansweredList
<1>3. /\ v \in Seq(OpenCall) /\ Len(v) = N - (r + 1)
      /\ \A i \in 1..(N - (r + 1)) :
           v[i] = [call |-> (r + 1) + i, step |-> 1, started |-> (r + 1) + i <= s]
  BY <1>1, UnansweredList
<1> HIDE DEF u, v
<1>4. found = {1}
  <2>1. \A i \in 1..(N - r) : u[i].call = r + i
    BY <1>2
  <2> QED
    BY <1>1, <1>2, <2>1
<1>5. Min({1}) = 1
  BY DEF Min
<1>6. RemoveAt(u, 1) = v
  <2>1. SubSeq(u, 1, 1 - 1) = <<>>
    BY SubSeqEmpty
  <2> DEFINE t == SubSeq(u, 2, N - r)
  <2>2. \A i \in 2..(N - r) : u[i] \in OpenCall
    BY <1>1, <1>2, ElementOfSeq
  <2>3. /\ t \in Seq(OpenCall)
        /\ Len(t) = IF 2 <= N - r THEN N - r - 2 + 1 ELSE 0
        /\ \A i \in 1..(N - r - 2 + 1) : t[i] = u[2 + i - 1]
    <3>1. N - r \in Int
      BY <1>1
    <3> QED
      BY <2>2, <3>1, SubSeqProperties
  <2> HIDE DEF t
  <2>4. Len(t) = Len(v)
    BY <1>1, <1>3, <2>3
  <2>5. ASSUME NEW i \in 1..Len(v) PROVE t[i] = v[i]
    <3>1. i \in 1..(N - r - 2 + 1) /\ 2 + i - 1 = i + 1 /\ i + 1 \in 1..(N - r)
          /\ r + (i + 1) = (r + 1) + i /\ i \in 1..(N - (r + 1))
      BY <1>1, <1>3
    <3>2. t[i] = u[i + 1]
      BY <2>3, <3>1
    <3> QED
      BY <1>2, <1>3, <3>1, <3>2
  <2>6. t = v
    BY <1>3, <2>3, <2>4, <2>5, SeqEqual
  <2>7. <<>> \o v = v
    BY <1>3, ConcatEmptySeq
  <2>8. RemoveAt(u, 1) = SubSeq(u, 1, 1 - 1) \o SubSeq(u, 1 + 1, Len(u))
    BY DEF RemoveAt
  <2>9. SubSeq(u, 1 + 1, Len(u)) = t
    BY <1>2 DEF t
  <2> QED
    BY <2>1, <2>6, <2>7, <2>8, <2>9
<1>7. Without(u, e.call) = v
  BY <1>4, <1>5, <1>6 DEF Without
<1>8. scan(StepCursor(r, s), e)
        = [StepCursor(r, s) EXCEPT !.pendingCalls = Without(u, e.call)]
  BY DEF scan, StepCursor, u
<1> QED
  BY <1>7, <1>8 DEF StepCursor, v

\* A log cut at n, with the results of 1..r and the calls of 1..s: what the rules
\* and the repair have read.
Cut(l, n, r, s) ==
  /\ r \in 0..N /\ s \in r..N
  /\ Numbered(l, n, r, s)
  /\ Traces(l)[n] = StepTrace((r + 1)..s)
  /\ Folded(scan, FreshCursor, Upto(l, n)) = StepCursor(r, s)

\* The rules and the repair read one event more of a log cut one event later.
LEMMA ReadNext ==
  ASSUME NEW l \in Seq(LogEvent), NEW n \in Nat, n + 1 <= Len(l)
  PROVE  /\ Traces(l)[n + 1] = applyTransition(Traces(l)[n], l[n + 1])
         /\ Folded(scan, FreshCursor, Upto(l, n + 1))
              = scan(Folded(scan, FreshCursor, Upto(l, n)), l[n + 1])
<1>1. Len(l) \in Nat /\ n \in 0..Len(l) /\ n + 1 \in 0..Len(l) /\ n + 1 \in 1..Len(l)
  BY LenProperties
<1>2. l[n + 1] \in LogEvent
  BY <1>1, ElementOfSeq
<1>3. Traces(l)[n + 1] = applyTransition(Traces(l)[n], l[n + 1])
  <2> DEFINE f == Traces(l)
  <2>1. f = [i \in 0..Len(l) |-> IF i = 0 THEN FreshTrace
                                 ELSE applyTransition(f[i - 1], l[i])]
    BY <1>1, TracesDef
  <2> HIDE DEF f
  <2>2. f[n + 1] = applyTransition(f[n + 1 - 1], l[n + 1])
    BY <1>1, <2>1
  <2> QED
    BY <2>2 DEF f
<1> DEFINE p == Upto(l, n)
           q == Upto(l, n + 1)
<1>4. /\ p \in Seq(LogEvent) /\ Len(p) = n
      /\ \A i \in 1..n : p[i] = l[i]
  BY <1>1, PrefixOf
<1>5. /\ q \in Seq(LogEvent) /\ Len(q) = n + 1
      /\ \A i \in 1..(n + 1) : q[i] = l[i]
  BY <1>1, PrefixOf
<1> HIDE DEF p, q
<1>6. /\ Append(p, l[n + 1]) \in Seq(LogEvent) /\ Len(Append(p, l[n + 1])) = n + 1
      /\ \A i \in 1..n : Append(p, l[n + 1])[i] = p[i]
      /\ Append(p, l[n + 1])[n + 1] = l[n + 1]
  BY <1>2, <1>4, AppendProperties
<1>7. q = Append(p, l[n + 1])
  <2> DEFINE m == Append(p, l[n + 1])
  <2>1. \A i \in 1..(n + 1) : m[i] = q[i]
    <3> HIDE DEF m
    <3>1. /\ \A i \in 1..n : m[i] = p[i] /\ m[n + 1] = l[n + 1]
      BY <1>6 DEF m
    <3>2. m[n + 1] = l[n + 1]
      BY <1>6 DEF m
    <3> QED
      BY <1>4, <1>5, <3>1, <3>2
  <2>2. m \in Seq(LogEvent) /\ Len(m) = n + 1
    BY <1>6
  <2> HIDE DEF m
  <2>3. m = q
    BY <1>5, <2>1, <2>2, SeqEqual
  <2> QED
    BY <2>3 DEF m
<1>8. Folded(scan, FreshCursor, Append(p, l[n + 1]))
        = scan(Folded(scan, FreshCursor, p), l[n + 1])
  BY <1>2, <1>4, ScanAppend
<1> QED
  BY <1>3, <1>7, <1>8 DEF p, q

\* After the opening every call is planned.
LEMMA CutOpening ==
  ASSUME NEW l, Opened(l)
  PROVE  Cut(l, 3, 0, 0)
<1> DEFINE F(n) == Folded(scan, FreshCursor, Upto(l, n))
<1>1. /\ l \in Seq(LogEvent) /\ Len(l) >= 3 /\ Len(l) \in Nat
      /\ l[1] = TurnStart(1) /\ l[2] = StepStart(1, 1)
      /\ l[3] = Assistant(1, 1, [i \in Calls |-> i])
  BY LenProperties DEF Opened
<1>2. Traces(l)[0] = FreshTrace
  <2>1. Traces(l) = [i \in 0..Len(l) |-> IF i = 0 THEN FreshTrace
                                 ELSE applyTransition(Traces(l)[i - 1], l[i])]
    BY <1>1, TracesDef
  <2> QED
    BY <1>1, <2>1
<1>3. F(0) = FreshCursor
  <2>1. Upto(l, 0) = <<>>
    BY <1>1, PrefixOf
  <2> QED
    BY <2>1, ScanEmpty
<1>4. /\ Traces(l)[1] = applyTransition(FreshTrace, l[1]) /\ F(1) = scan(FreshCursor, l[1])
      /\ Traces(l)[2] = applyTransition(Traces(l)[1], l[2]) /\ F(2) = scan(F(1), l[2])
      /\ Traces(l)[3] = applyTransition(Traces(l)[2], l[3]) /\ F(3) = scan(F(2), l[3])
  <2>1. \A n \in Nat : n + 1 <= Len(l) =>
          /\ Traces(l)[n + 1] = applyTransition(Traces(l)[n], l[n + 1])
          /\ F(n + 1) = scan(F(n), l[n + 1])
    <3> SUFFICES ASSUME NEW n \in Nat, n + 1 <= Len(l)
                 PROVE  /\ Traces(l)[n + 1] = applyTransition(Traces(l)[n], l[n + 1])
                        /\ Folded(scan, FreshCursor, Upto(l, n + 1))
                             = scan(Folded(scan, FreshCursor, Upto(l, n)), l[n + 1])
      OBVIOUS
    <3> QED
      BY <1>1, ReadNext
  <2> HIDE DEF F
  <2>2. /\ Traces(l)[0 + 1] = applyTransition(Traces(l)[0], l[0 + 1])
        /\ F(0 + 1) = scan(F(0), l[0 + 1])
    BY <1>1, <2>1
  <2>3. /\ Traces(l)[1 + 1] = applyTransition(Traces(l)[1], l[1 + 1])
        /\ F(1 + 1) = scan(F(1), l[1 + 1])
    BY <1>1, <2>1
  <2>4. /\ Traces(l)[2 + 1] = applyTransition(Traces(l)[2], l[2 + 1])
        /\ F(2 + 1) = scan(F(2), l[2 + 1])
    BY <1>1, <2>1
  <2>5. 0 + 1 = 1 /\ 1 + 1 = 2 /\ 2 + 1 = 3
    OBVIOUS
  <2> QED
    BY <1>2, <1>3, <2>2, <2>3, <2>4, <2>5
<1> HIDE DEF F
<1>5. Traces(l)[3] = StepTrace({})
  <2>1. Traces(l)[1] = [openTurn |-> 1, openStep |-> None, nextTurn |-> 1,
                        nextStep |-> 1, pendingCalls |-> {}]
    <3>1. Traces(l)[1] = [FreshTrace EXCEPT !.openTurn = 1, !.nextStep = 1]
      BY <1>1, <1>4 DEF applyTransition, TurnStart
    <3> QED
      BY <3>1 DEF FreshTrace
  <2>2. Traces(l)[2] = StepTrace({})
    <3>1. Traces(l)[2] = [Traces(l)[1] EXCEPT !.openStep = 1]
      BY <1>1, <1>4 DEF applyTransition, StepStart
    <3> QED
      BY <2>1, <3>1 DEF StepTrace
  <2> QED
    BY <1>1, <1>4, <2>2 DEF applyTransition, Assistant, StepTrace
<1>6. F(3) = StepCursor(0, 0)
  <2> DEFINE cs == [i \in Calls |-> i]
  <2>1. F(1) = [openTurn |-> 1, openStep |-> None, pendingCalls |-> <<>>]
    BY <1>1, <1>4 DEF scan, FreshCursor, TurnStart
  <2>2. F(2) = [openTurn |-> 1, openStep |-> 1, pendingCalls |-> <<>>]
    BY <1>1, <1>4, <2>1 DEF scan, StepStart
  <2>3. /\ l[3].type = "assistant/message" /\ l[3].calls = cs /\ l[3].step = 1
    BY <1>1 DEF Assistant
  <2>4. N \in Nat /\ cs \in Seq(Calls) /\ Len(cs) = N /\ \A i \in 1..N : cs[i] = i
    BY SchedulerAssumption DEF Calls
  <2> HIDE DEF cs
  <2>5. [i \in 1..Len(cs) |-> [call |-> cs[i], step |-> 1, started |-> FALSE]]
          = Unanswered(0, 0)
    <3>1. N - 0 = N
      BY <2>4
    <3>2. ASSUME NEW i \in 1..N
          PROVE  [call |-> cs[i], step |-> 1, started |-> FALSE]
                   = [call |-> 0 + i, step |-> 1, started |-> 0 + i <= 0]
      <4>1. cs[i] = 0 + i /\ (0 + i <= 0) = FALSE
        BY <2>4
      <4> QED
        BY <4>1
    <3> QED
      BY <2>4, <3>1, <3>2 DEF Unanswered
  <2>6. F(3) = [F(2) EXCEPT !.pendingCalls = @ \o
                  [i \in 1..Len(cs) |-> [call |-> cs[i], step |-> 1, started |-> FALSE]]]
    BY <1>4, <2>3 DEF scan
  <2>7. <<>> \o Unanswered(0, 0) = Unanswered(0, 0)
    <3>1. Unanswered(0, 0) \in Seq(OpenCall)
      BY <2>4, UnansweredList
    <3> QED
      BY <3>1, ConcatEmptySeq
  <2> QED
    BY <2>2, <2>5, <2>6, <2>7 DEF StepCursor
<1>7. Numbered(l, 3, 0, 0)
  <2>1. l[1].type = "turn/start" /\ l[2].type = "step/start"
        /\ l[3].type = "assistant/message"
    BY <1>1 DEF TurnStart, StepStart, Assistant
  <2> QED
    BY <2>1 DEF Numbered
<1>8. (0 + 1)..0 = {} /\ 0 \in 0..N
  BY SchedulerAssumption
<1> QED
  BY <1>5, <1>6, <1>7, <1>8 DEF Cut, F

\* The next call event is that of the first call not started, the next result
\* that of the first call not answered.
LEMMA CutNext ==
  ASSUME NEW l, NEW n \in Nat, NEW r, NEW s, NEW R \in 0..N, NEW S \in 0..N,
         Opened(l), Numbered(l, Len(l), R, S), 3 <= n, n + 1 <= Len(l), Cut(l, n, r, s)
  PROVE  \/ l[n + 1].type = "tool/call" /\ l[n + 1].call = s + 1 /\ s + 1 <= N
         \/ l[n + 1].type = "tool/result" /\ l[n + 1].call = r + 1 /\ r + 1 <= s
         \/ l[n + 1].type = "agent/inbox/spliced"
<1> DEFINE e == l[n + 1]
<1>1. /\ N \in Nat /\ r \in Nat /\ s \in Nat /\ r <= s /\ s <= N
      /\ R \in Nat /\ S \in Nat /\ R <= N /\ S <= N
  BY SchedulerAssumption DEF Cut
<1>2. l \in Seq(LogEvent) /\ Len(l) \in Nat /\ n + 1 \in 1..Len(l) /\ n + 1 \in 4..Len(l)
  BY LenProperties DEF Opened
<1>3. e \in LogEvent /\ e.type \in StepTypes
  BY <1>2, ElementOfSeq DEF Opened
<1>4. validateEvent(StepTrace((r + 1)..s), e)
  <2>1. validateEvent(Traces(l)[n + 1 - 1], l[n + 1])
    BY <1>2 DEF Opened, AcceptedAfter
  <2>2. n + 1 - 1 = n
    OBVIOUS
  <2> QED
    BY <2>1, <2>2 DEF Cut
<1>5. Numbered(l, n, r, s) /\ Numbered(l, Len(l), R, S)
  BY DEF Cut
<1> HIDE DEF e
<1>6. CASE e.type = "tool/call"
  <2>1. e.call \in 1..S
    BY <1>2, <1>5, <1>6 DEF Numbered, e
  <2>2. ASSUME e.call <= s PROVE FALSE
    <3>0. e.call \in 1..s
      BY <1>1, <2>1, <2>2
    <3>1. PICK i \in 1..n : l[i].type = "tool/call" /\ l[i].call = e.call
      BY <1>5, <3>0 DEF Numbered
    <3>2. i \in 1..Len(l) /\ i < n + 1
      BY <1>2
    <3>3. l[i].call < e.call
      BY <1>2, <1>5, <1>6, <3>1, <3>2 DEF Numbered, e
    <3> QED
      BY <2>1, <3>1, <3>3
  <2>3. s + 1 \in 1..S
    BY <1>1, <2>1, <2>2
  <2>4. PICK j \in 1..Len(l) : l[j].type = "tool/call" /\ l[j].call = s + 1
    BY <1>5, <2>3 DEF Numbered
  <2>5. ~(j \in 1..n)
    BY <1>1, <1>5, <2>4 DEF Numbered
  <2>6. ~(j > n + 1)
    <3> SUFFICES ASSUME n + 1 < j PROVE FALSE
      BY <1>2
    <3>1. e.call < l[j].call
      BY <1>2, <1>5, <1>6, <2>4 DEF Numbered, e
    <3> QED
      BY <1>1, <2>1, <2>2, <2>4, <3>1
  <2>7. j = n + 1
    BY <1>2, <2>5, <2>6
  <2> QED
    BY <1>1, <1>6, <2>3, <2>4, <2>7 DEF e
<1>7. CASE e.type = "tool/result"
  <2>1. e.call \in (r + 1)..s
    <3>1. e.error \in Results
      <4>1. /\ TurnStart(1).type = "turn/start" /\ StepStart(1, 1).type = "step/start"
            /\ Assistant(1, 1, [i \in Calls |-> i]).type = "assistant/message"
        BY DEF TurnStart, StepStart, Assistant
      <4>2. e \in [type : {"tool/result"}, turn : {1}, step : {1}, call : Calls,
                   error : Results]
        BY <1>3, <1>7, <4>1 DEF LogEvent
      <4> QED
        BY <4>2
    <3>2. e.error # "TOOL_NOT_STARTED"
      BY <3>1 DEF Results
    <3> QED
      BY <1>4, <1>7, <3>2 DEF validateEvent, StepTrace
  <2>2. e.call \in 1..R
    BY <1>2, <1>5, <1>7 DEF Numbered, e
  <2>3. r + 1 \in 1..R
    BY <1>1, <2>1, <2>2
  <2>4. PICK j \in 1..Len(l) : l[j].type = "tool/result" /\ l[j].call = r + 1
    BY <1>5, <2>3 DEF Numbered
  <2>5. ~(j \in 1..n)
    BY <1>1, <1>5, <2>4 DEF Numbered
  <2>6. ~(j > n + 1)
    <3> SUFFICES ASSUME n + 1 < j PROVE FALSE
      BY <1>2
    <3>1. e.call < l[j].call
      BY <1>2, <1>5, <1>7, <2>4 DEF Numbered, e
    <3> QED
      BY <1>1, <2>1, <2>4, <3>1
  <2>7. j = n + 1
    BY <1>2, <2>5, <2>6
  <2> QED
    BY <1>1, <1>7, <2>1, <2>4, <2>7 DEF e
<1> QED
  BY <1>3, <1>6, <1>7 DEF StepTypes, e

\* Reading one event more, the rules and the repair move on by one call.
LEMMA CutMoves ==
  ASSUME NEW l, NEW n \in Nat, NEW r, NEW s, NEW R \in 0..N, NEW S \in 0..N,
         Opened(l), Numbered(l, Len(l), R, S), 3 <= n, n + 1 <= Len(l), Cut(l, n, r, s)
  PROVE  \E r2, s2 : Cut(l, n + 1, r2, s2)
<1> DEFINE e == l[n + 1]
<1>1. /\ N \in Nat /\ r \in Nat /\ s \in Nat /\ r <= s /\ s <= N
      /\ r \in 0..N /\ s \in 0..N
      /\ Numbered(l, n, r, s) /\ l \in Seq(LogEvent)
  BY SchedulerAssumption DEF Cut, Opened
<1>2. /\ Traces(l)[n + 1] = applyTransition(StepTrace((r + 1)..s), e)
      /\ Folded(scan, FreshCursor, Upto(l, n + 1)) = scan(StepCursor(r, s), e)
  BY <1>1, ReadNext DEF Cut
<1>3. \A i \in 1..n : l[i] = l[i]
  OBVIOUS
<1> HIDE DEF e
<1>4. CASE e.type = "tool/call" /\ e.call = s + 1 /\ s + 1 <= N
  <2>1. applyTransition(StepTrace((r + 1)..s), e) = StepTrace(((r + 1)..s) \cup {s + 1})
    BY <1>4 DEF applyTransition, StepTrace
  <2>2. ((r + 1)..s) \cup {s + 1} = (r + 1)..(s + 1)
    BY <1>1
  <2>3. scan(StepCursor(r, s), e) = StepCursor(r, s + 1)
    BY <1>1, <1>4, ScanCall
  <2>4. Numbered(l, n + 1, r, s + 1)
    BY <1>1, <1>3, <1>4, NumberedCall DEF e
  <2>5. r \in 0..N /\ s + 1 \in r..N
    BY <1>1, <1>4
  <2>6. Cut(l, n + 1, r, s + 1)
    BY <1>2, <2>1, <2>2, <2>3, <2>4, <2>5 DEF Cut
  <2> QED
    BY <2>6
<1>5. CASE e.type = "tool/result" /\ e.call = r + 1 /\ r + 1 <= s
  <2>1. applyTransition(StepTrace((r + 1)..s), e) = StepTrace(((r + 1)..s) \ {r + 1})
    BY <1>5 DEF applyTransition, StepTrace
  <2>2. ((r + 1)..s) \ {r + 1} = (r + 1 + 1)..s
    BY <1>1
  <2>3. scan(StepCursor(r, s), e) = StepCursor(r + 1, s)
    BY <1>1, <1>5, ScanResult
  <2>4. Numbered(l, n + 1, r + 1, s)
    BY <1>1, <1>3, <1>5, NumberedResult DEF e
  <2>5. r + 1 \in 0..N /\ s \in (r + 1)..N
    BY <1>1, <1>5
  <2>6. Cut(l, n + 1, r + 1, s)
    BY <1>2, <2>1, <2>2, <2>3, <2>4, <2>5 DEF Cut
  <2> QED
    BY <2>6
<1>6. CASE e.type = "agent/inbox/spliced"
  <2>1. applyTransition(StepTrace((r + 1)..s), e) = StepTrace((r + 1)..s)
    BY <1>6 DEF applyTransition
  <2>2. scan(StepCursor(r, s), e) = StepCursor(r, s)
    BY <1>6 DEF scan
  <2>3. Numbered(l, n + 1, r, s)
    BY <1>1, <1>3, <1>6, NumberedOther DEF e
  <2>4. Cut(l, n + 1, r, s)
    BY <1>2, <2>1, <2>2, <2>3 DEF Cut
  <2> QED
    BY <2>4
<1> QED
  BY <1>4, <1>5, <1>6, CutNext DEF e

\* Wherever the log is cut after its opening, the step is open and what has no
\* result yet is what the repair still has to answer.
LEMMA CutAnywhere ==
  ASSUME NEW l, NEW R \in 0..N, NEW S \in 0..N, Opened(l), Numbered(l, Len(l), R, S)
  PROVE  \A n \in 3..Len(l) : \E r, s : Cut(l, n, r, s)
<1> DEFINE T == {k \in Nat : 3 + k <= Len(l) => \E r, s : Cut(l, 3 + k, r, s)}
<1>1. 0 \in T
  <2>1. Cut(l, 3 + 0, 0, 0)
    BY CutOpening
  <2> QED
    BY <2>1
<1>2. ASSUME NEW k \in T PROVE k + 1 \in T
  <2> SUFFICES ASSUME 3 + (k + 1) <= Len(l)
               PROVE  \E r, s : Cut(l, 3 + (k + 1), r, s)
    OBVIOUS
  <2>1. Len(l) \in Nat
    BY LenProperties DEF Opened
  <2>2. k \in Nat /\ 3 + k <= Len(l) /\ 3 + (k + 1) = (3 + k) + 1
    BY <2>1
  <2>3. PICK r, s : Cut(l, 3 + k, r, s)
    BY <2>2
  <2> DEFINE n == 3 + k
  <2>4. n \in Nat /\ 3 <= n /\ n + 1 <= Len(l) /\ 3 + (k + 1) = n + 1 /\ Cut(l, n, r, s)
    BY <2>1, <2>2, <2>3
  <2> HIDE DEF n, T
  <2>5. \E r2, s2 : Cut(l, n + 1, r2, s2)
    BY <2>4, CutMoves
  <2> QED
    BY <2>4, <2>5
<1>3. T = Nat
  <2>1. T \subseteq Nat
    OBVIOUS
  <2> HIDE DEF T
  <2> QED
    BY <1>1, <1>2, <2>1, NatSetInduction
<1>4. ASSUME NEW n \in 3..Len(l) PROVE \E r, s : Cut(l, n, r, s)
  <2>1. n - 3 \in Nat /\ 3 + (n - 3) = n /\ n <= Len(l)
    BY LenProperties DEF Opened
  <2>2. n - 3 \in T
    BY <1>3, <2>1
  <2> QED
    BY <2>1, <2>2
<1> QED
  BY <1>4

\* The repair answers the calls that have no result, in model order, and closes
\* the step and the turn.
Answered(p, m, r, s) ==
  /\ Len(m) = Len(p) + (N - r) + 2
  /\ \A i \in 1..Len(p) : m[i] = p[i]
  /\ \A i \in 1..(N - r) :
       m[Len(p) + i] = ToolResult(1, 1, r + i, IF r + i <= s THEN "TOOL_OUTCOME_UNKNOWN"
                                                             ELSE "TOOL_NOT_STARTED")
  /\ m[Len(p) + (N - r) + 1] = StepEnd(1, 1)
  /\ m[Len(p) + (N - r) + 2] = TurnEnd(1, "interrupted")

\* What the repair makes of the log, wherever it was cut.
LEMMA RepairShape ==
  ASSUME NEW l \in Seq(LogEvent), NEW n \in 0..Len(l), NEW r, NEW s, Cut(l, n, r, s)
  PROVE  Answered(Upto(l, n), Recovered(Upto(l, n)), r, s)
<1> DEFINE p == Upto(l, n)
           u == Unanswered(r, s)
           given(i) == ToolResult(1, 1, r + i, IF r + i <= s THEN "TOOL_OUTCOME_UNKNOWN"
                                                            ELSE "TOOL_NOT_STARTED")
           results == [i \in 1..(N - r) |-> given(i)]
           a == <<StepEnd(1, 1)>>
           b == <<TurnEnd(1, "interrupted")>>
           W == LogEvent \cup {given(i) : i \in 1..(N - r)}
                  \cup {StepEnd(1, 1), TurnEnd(1, "interrupted")}
<1>1. /\ N \in Nat /\ r \in 0..N /\ s \in 0..N /\ N - r \in Nat
      /\ Folded(scan, FreshCursor, p) = StepCursor(r, s)
  BY SchedulerAssumption DEF Cut
<1>2. p \in Seq(LogEvent) /\ Len(p) \in Nat
  BY PrefixOf, LenProperties
<1>3. /\ Len(u) = N - r
      /\ \A i \in 1..(N - r) :
           u[i] = [call |-> r + i, step |-> 1, started |-> r + i <= s]
  BY <1>1, UnansweredList
<1>4. interruptedTurnClosers(p) = results \o a \o b
  <2> HIDE DEF p, u
  <2>1. ASSUME NEW i \in 1..(N - r)
        PROVE  ToolResult(1, u[i].step, u[i].call,
                 IF u[i].started THEN "TOOL_OUTCOME_UNKNOWN" ELSE "TOOL_NOT_STARTED")
                 = given(i)
    <3>1. u[i] = [call |-> r + i, step |-> 1, started |-> r + i <= s]
      BY <1>3
    <3> DEFINE before == r + i <= s
    <3>2. u[i] = [call |-> r + i, step |-> 1, started |-> before]
      BY <3>1
    <3> HIDE DEF before
    <3>3. u[i].step = 1 /\ u[i].call = r + i /\ u[i].started = before
      BY <3>2
    <3> QED
      BY <3>3 DEF before
  <2> DEFINE c == Folded(scan, FreshCursor, p)
  <2>2. c.openTurn = 1 /\ c.openStep = 1 /\ c.pendingCalls = u
    BY <1>1 DEF StepCursor, u
  <2> HIDE DEF c, given
  <2>3. [i \in 1..Len(u) |-> ToolResult(1, u[i].step, u[i].call,
                 IF u[i].started THEN "TOOL_OUTCOME_UNKNOWN" ELSE "TOOL_NOT_STARTED")]
          = results
    BY <1>3, <2>1
  <2>4. 1 # None
    BY DEF None
  <2> HIDE DEF results
  <2> QED
    BY <2>2, <2>3, <2>4 DEF interruptedTurnClosers, c
<1>5. /\ results \in Seq(W) /\ Len(results) = N - r
      /\ \A i \in 1..(N - r) : results[i] = given(i)
  <2>1. \A i \in 1..(N - r) : given(i) \in W
    OBVIOUS
  <2> HIDE DEF given, W
  <2>2. results \in [1..(N - r) -> W]
    BY <2>1
  <2>3. \A i \in 1..(N - r) : results[i] = given(i)
    OBVIOUS
  <2> HIDE DEF results
  <2> QED
    BY <1>1, <2>2, <2>3
<1>6. a \in Seq(W) /\ Len(a) = 1 /\ b \in Seq(W) /\ Len(b) = 1
      /\ a[1] = StepEnd(1, 1) /\ b[1] = TurnEnd(1, "interrupted")
  <2>1. StepEnd(1, 1) \in W /\ TurnEnd(1, "interrupted") \in W
    OBVIOUS
  <2> HIDE DEF W
  <2> QED
    BY <2>1
<1>7. p \in Seq(W)
  BY <1>2, SeqMonotonic
<1> DEFINE ra == results \o a
           cl == ra \o b
           m == p \o cl
<1> HIDE DEF W, results, a, b, p, given
<1>8. /\ ra \in Seq(W) /\ Len(ra) = N - r + 1
      /\ \A i \in 1..(N - r) : ra[i] = given(i)
      /\ ra[N - r + 1] = a[1]
  <2>1. /\ ra \in Seq(W) /\ Len(ra) = Len(results) + Len(a)
        /\ \A i \in 1..(Len(results) + Len(a)) :
             ra[i] = IF i <= Len(results) THEN results[i] ELSE a[i - Len(results)]
    BY <1>5, <1>6, ConcatProperties
  <2> HIDE DEF ra
  <2>2. /\ Len(results) + Len(a) = N - r + 1 /\ (N - r + 1) - (N - r) = 1
        /\ N - r + 1 \in 1..(N - r + 1) /\ ~(N - r + 1 <= N - r)
        /\ \A i \in 1..(N - r) : i \in 1..(N - r + 1) /\ i <= N - r
    BY <1>1, <1>5, <1>6
  <2>3. \A i \in 1..(N - r) : ra[i] = given(i)
    BY <1>5, <2>1, <2>2
  <2>4. ra[N - r + 1] = a[1]
    BY <1>5, <2>1, <2>2
  <2> QED
    BY <2>1, <2>2, <2>3, <2>4
<1> HIDE DEF ra
<1>9. /\ cl \in Seq(W) /\ Len(cl) = N - r + 2
      /\ \A i \in 1..(N - r) : cl[i] = given(i)
      /\ cl[N - r + 1] = a[1] /\ cl[N - r + 2] = b[1]
  <2>1. /\ cl \in Seq(W) /\ Len(cl) = Len(ra) + Len(b)
        /\ \A i \in 1..(Len(ra) + Len(b)) :
             cl[i] = IF i <= Len(ra) THEN ra[i] ELSE b[i - Len(ra)]
    BY <1>6, <1>8, ConcatProperties
  <2> HIDE DEF cl
  <2>2. /\ Len(ra) + Len(b) = N - r + 2 /\ (N - r + 2) - (N - r + 1) = 1
        /\ N - r + 2 \in 1..(N - r + 2) /\ ~(N - r + 2 <= N - r + 1)
        /\ N - r + 1 \in 1..(N - r + 2) /\ N - r + 1 <= N - r + 1
        /\ \A i \in 1..(N - r) : i \in 1..(N - r + 2) /\ i <= N - r + 1
    BY <1>1, <1>6, <1>8
  <2>3. \A i \in 1..(N - r) : cl[i] = given(i)
    BY <1>8, <2>1, <2>2
  <2>4. cl[N - r + 1] = a[1]
    BY <1>8, <2>1, <2>2
  <2>5. cl[N - r + 2] = b[1]
    BY <1>8, <2>1, <2>2
  <2> QED
    BY <2>1, <2>2, <2>3, <2>4, <2>5
<1> HIDE DEF cl
<1>10. /\ Len(m) = Len(p) + (N - r) + 2
       /\ \A i \in 1..Len(p) : m[i] = p[i]
       /\ \A i \in 1..(N - r + 2) : m[Len(p) + i] = cl[i]
  <2>1. /\ m \in Seq(W) /\ Len(m) = Len(p) + Len(cl)
        /\ \A i \in 1..(Len(p) + Len(cl)) :
             m[i] = IF i <= Len(p) THEN p[i] ELSE cl[i - Len(p)]
    BY <1>7, <1>9, ConcatProperties
  <2> HIDE DEF m
  <2>2. ASSUME NEW i \in 1..(N - r + 2) PROVE m[Len(p) + i] = cl[i]
    <3>1. Len(p) + i \in 1..(Len(p) + Len(cl)) /\ ~(Len(p) + i <= Len(p))
          /\ (Len(p) + i) - Len(p) = i
      BY <1>1, <1>2, <1>9
    <3> QED
      BY <2>1, <3>1
  <2>3. Len(p) + Len(cl) = Len(p) + (N - r) + 2
    BY <1>1, <1>2, <1>9
  <2>4. ASSUME NEW i \in 1..Len(p) PROVE m[i] = p[i]
    <3>1. i \in 1..(Len(p) + Len(cl)) /\ i <= Len(p)
      BY <1>1, <1>2, <1>9
    <3> QED
      BY <2>1, <3>1
  <2> QED
    BY <2>1, <2>2, <2>3, <2>4
<1>11. Recovered(p) = m
  BY <1>4 DEF Recovered, cl, ra
<1> HIDE DEF m
<1>12. \A i \in 1..(N - r) : m[Len(p) + i] = given(i)
  <2> SUFFICES ASSUME NEW i \in 1..(N - r) PROVE m[Len(p) + i] = given(i)
    OBVIOUS
  <2>1. i \in 1..(N - r + 2)
    BY <1>1
  <2>2. m[Len(p) + i] = cl[i] /\ cl[i] = given(i)
    BY <1>9, <1>10, <2>1
  <2> QED
    BY <2>2
<1>13. /\ m[Len(p) + (N - r) + 1] = StepEnd(1, 1)
       /\ m[Len(p) + (N - r) + 2] = TurnEnd(1, "interrupted")
  <2>1. /\ Len(p) + (N - r) + 1 = Len(p) + (N - r + 1) /\ N - r + 1 \in 1..(N - r + 2)
        /\ Len(p) + (N - r) + 2 = Len(p) + (N - r + 2) /\ N - r + 2 \in 1..(N - r + 2)
    BY <1>1, <1>2
  <2>2. m[Len(p) + (N - r) + 1] = StepEnd(1, 1)
        /\ m[Len(p) + (N - r) + 2] = TurnEnd(1, "interrupted")
    BY <1>6, <1>9, <1>10, <2>1
  <2> QED
    BY <2>2
<1>14. \A i \in 1..(N - r) :
         m[Len(p) + i] = ToolResult(1, 1, r + i, IF r + i <= s THEN "TOOL_OUTCOME_UNKNOWN"
                                                               ELSE "TOOL_NOT_STARTED")
  BY <1>12 DEF given
<1> QED
  BY <1>10, <1>11, <1>13, <1>14 DEF Answered, p

\* The repaired log answers every call of the message once; a call whose call
\* event was kept is not said to have never started.
LEMMA RepairTruth ==
  ASSUME NEW l \in Seq(LogEvent), NEW n \in 0..Len(l), NEW r, NEW s, Cut(l, n, r, s),
         NEW c \in Calls
  PROVE  \E i \in 1..Len(Recovered(Upto(l, n))) :
           /\ {j \in 1..Len(Recovered(Upto(l, n))) :
                 /\ Recovered(Upto(l, n))[j].type = "tool/result"
                 /\ Recovered(Upto(l, n))[j].call = c} = {i}
           /\ c <= s => Recovered(Upto(l, n))[i].error # "TOOL_NOT_STARTED"
<1> DEFINE p == Upto(l, n)
           m == Recovered(p)
<1>1. /\ N \in Nat /\ r \in Nat /\ s \in Nat /\ r <= s /\ s <= N /\ c \in 1..N
      /\ Numbered(l, n, r, s)
  BY SchedulerAssumption DEF Cut, Calls
<1>2. p \in Seq(LogEvent) /\ Len(p) = n /\ n \in Nat /\ \A i \in 1..n : p[i] = l[i]
  BY PrefixOf
<1>3. Answered(p, m, r, s)
  BY RepairShape
<1> HIDE DEF p, m
<1>4. /\ Len(m) = n + (N - r) + 2
      /\ \A i \in 1..n : m[i] = l[i]
      /\ \A i \in 1..(N - r) :
           /\ m[n + i].type = "tool/result" /\ m[n + i].call = r + i
           /\ r + i <= s => m[n + i].error # "TOOL_NOT_STARTED"
      /\ m[n + (N - r) + 1].type # "tool/result"
      /\ m[n + (N - r) + 2].type # "tool/result"
  <2>1. /\ Len(m) = n + (N - r) + 2 /\ \A i \in 1..n : m[i] = l[i]
        /\ m[n + (N - r) + 1].type # "tool/result"
        /\ m[n + (N - r) + 2].type # "tool/result"
    BY <1>2, <1>3 DEF Answered, StepEnd, TurnEnd
  <2>2. ASSUME NEW i \in 1..(N - r)
        PROVE  /\ m[n + i].type = "tool/result" /\ m[n + i].call = r + i
               /\ r + i <= s => m[n + i].error # "TOOL_NOT_STARTED"
    <3>1. m[n + i] = ToolResult(1, 1, r + i, IF r + i <= s THEN "TOOL_OUTCOME_UNKNOWN"
                                                           ELSE "TOOL_NOT_STARTED")
      BY <1>2, <1>3 DEF Answered
    <3> QED
      BY <3>1 DEF ToolResult
  <2> QED
    BY <2>1, <2>2
<1> DEFINE answers == {j \in 1..Len(m) : m[j].type = "tool/result" /\ m[j].call = c}
<1>5. ASSUME NEW j \in answers
      PROVE  \/ j \in 1..n /\ c <= r /\ l[j].type = "tool/result" /\ l[j].call = c
             \/ c = r + (j - n)
  <2>1. j \in 1..Len(m) /\ m[j].type = "tool/result" /\ m[j].call = c
    OBVIOUS
  <2> HIDE DEF answers
  <2>2. CASE j \in 1..n
    <3>1. l[j].type = "tool/result" /\ l[j].call = c
      BY <1>4, <2>1, <2>2
    <3>2. c \in 1..r
      BY <1>1, <2>2, <3>1 DEF Numbered
    <3> QED
      BY <2>2, <3>1, <3>2
  <2>3. CASE j - n \in 1..(N - r)
    <3>1. n + (j - n) = j
      BY <1>2, <1>4, <2>1
    <3>2. m[n + (j - n)].call = r + (j - n)
      BY <1>4, <2>3
    <3> QED
      BY <2>1, <3>1, <3>2
  <2>4. CASE j = n + (N - r) + 1 \/ j = n + (N - r) + 2
    BY <1>4, <2>1, <2>4
  <2> QED
    BY <1>1, <1>2, <1>4, <2>1, <2>2, <2>3, <2>4
<1>6. CASE c <= r
  <2>1. c \in 1..r
    BY <1>1, <1>6
  <2>2. PICK i \in 1..n : l[i].type = "tool/result" /\ l[i].call = c
    BY <1>1, <2>1 DEF Numbered
  <2>3. i \in answers
    BY <1>1, <1>2, <1>4, <2>2
  <2>4. ASSUME NEW j \in answers PROVE j = i
    <3>1. j \in 1..n /\ l[j].type = "tool/result" /\ l[j].call = c
      <4>1. ~(c = r + (j - n)) \/ j \in 1..n
        BY <1>1, <1>2, <1>4, <1>6
      <4>2. CASE j \in 1..n
        <5>1. m[j].type = "tool/result" /\ m[j].call = c
          OBVIOUS
        <5> QED
          BY <1>4, <4>2, <5>1
      <4> QED
        BY <1>5, <4>1, <4>2
    <3> HIDE DEF answers
    <3>2. ~(i < j) /\ ~(j < i)
      BY <1>1, <2>1, <2>2, <3>1 DEF Numbered
    <3> QED
      BY <1>2, <3>1, <3>2
  <2>5. answers = {i}
    <3> HIDE DEF answers
    <3> QED
      BY <2>3, <2>4
  <2>6. m[i].error # "TOOL_NOT_STARTED"
    <3>1. m[i] = l[i] /\ l[i] \in LogEvent
      BY <1>2, <1>4, <2>2, ElementOfSeq
    <3>2. /\ TurnStart(1).type = "turn/start" /\ StepStart(1, 1).type = "step/start"
          /\ Assistant(1, 1, [k \in Calls |-> k]).type = "assistant/message"
      BY DEF TurnStart, StepStart, Assistant
    <3>3. l[i] \in [type : {"tool/result"}, turn : {1}, step : {1}, call : Calls,
                    error : Results]
      BY <2>2, <3>1, <3>2 DEF LogEvent
    <3> QED
      BY <3>1, <3>3 DEF Results
  <2>7. i \in 1..Len(m)
    BY <1>1, <1>2, <1>4, <2>2
  <2> QED
    BY <2>5, <2>6, <2>7 DEF m, p
<1>7. CASE c > r
  <2> DEFINE k == c - r
  <2>1. k \in 1..(N - r) /\ r + k = c
    BY <1>1, <1>7
  <2> HIDE DEF k
  <2>2. n + k \in answers
    BY <1>1, <1>2, <1>4, <2>1
  <2>3. ASSUME NEW j \in answers PROVE j = n + k
    <3>1. j \in 1..Len(m)
      OBVIOUS
    <3>2. c = r + (j - n)
      BY <1>1, <1>5, <1>7
    <3> HIDE DEF answers
    <3> QED
      BY <1>1, <1>2, <1>4, <2>1, <3>1, <3>2
  <2>4. answers = {n + k}
    <3> HIDE DEF answers
    <3> QED
      BY <2>2, <2>3
  <2>5. c <= s => m[n + k].error # "TOOL_NOT_STARTED"
    BY <1>4, <2>1
  <2>6. n + k \in 1..Len(m)
    BY <1>1, <1>2, <1>4, <2>1
  <2> QED
    BY <2>4, <2>5, <2>6 DEF m, p
<1> QED
  BY <1>1, <1>6, <1>7

\* The log stays the opening of the step and what the scheduler appended to it.
LEMMA OpenedStep ==
  ASSUME LogInv, LogInv', Opened(log), [SchedulerNext]_vars
  PROVE  /\ Opened(log') /\ Len(log) \in Nat /\ Len(log') \in Nat
         /\ Len(log) <= Len(log') /\ \A i \in 1..Len(log) : log'[i] = log[i]
<1>1. PICK R : Extended(log, log', R)
  BY LogStep DEF LogInv
<1>2. log \in Seq(LogEvent) /\ log' \in Seq(LogEvent)
  BY DEF LogInv, LogOK, Shape
<1>3. Len(log) \in Nat /\ Len(log') \in Nat
  BY <1>2, LenProperties
<1>4. /\ Len(log) <= Len(log') /\ \A i \in 1..Len(log) : log'[i] = log[i]
      /\ \A i \in (Len(log) + 1)..Len(log') : log'[i].type \in StepTypes
      /\ AcceptedAfter(Len(log), log')
  BY <1>1 DEF Extended
<1>5. /\ Len(log) >= 3 /\ AcceptedAfter(3, log)
      /\ log[1] = TurnStart(1) /\ log[2] = StepStart(1, 1)
      /\ log[3] = Assistant(1, 1, [i \in Calls |-> i])
      /\ \A i \in 4..Len(log) : log[i].type \in StepTypes
  BY DEF Opened
<1>6. Upto(log', Len(log)) = log
  <2> DEFINE q == Upto(log', Len(log))
  <2>1. Len(log) \in 0..Len(log')
    BY <1>3, <1>4
  <2>2. /\ q \in Seq(LogEvent) /\ Len(q) = Len(log)
        /\ \A i \in 1..Len(log) : q[i] = log'[i]
    BY <1>2, <2>1, PrefixOf
  <2> HIDE DEF q
  <2>3. q = log
    BY <1>2, <1>4, <2>2, SeqEqual
  <2> QED
    BY <2>3 DEF q
<1>7. \A k \in 0..Len(log) : Traces(log)[k] = Traces(log')[k]
  <2>1. Len(log) \in 0..Len(log')
    BY <1>3, <1>4
  <2>2. \A k \in 0..Len(log) : Traces(Upto(log', Len(log)))[k] = Traces(log')[k]
    BY <1>2, <2>1, TracesPrefix
  <2> QED
    BY <1>6, <2>2
<1>8. AcceptedAfter(3, log')
  <2> SUFFICES ASSUME NEW i \in (3 + 1)..Len(log')
               PROVE  validateEvent(Traces(log')[i - 1], log'[i])
    BY DEF AcceptedAfter
  <2>1. CASE i <= Len(log)
    <3>1. i \in (3 + 1)..Len(log) /\ i \in 1..Len(log) /\ i - 1 \in 0..Len(log)
      BY <1>3, <2>1
    <3>2. validateEvent(Traces(log)[i - 1], log[i])
      BY <1>5, <3>1 DEF AcceptedAfter
    <3> QED
      BY <1>4, <1>7, <3>1, <3>2
  <2>2. CASE i > Len(log)
    <3>1. i \in (Len(log) + 1)..Len(log')
      BY <1>3, <2>2
    <3> QED
      BY <1>4, <3>1 DEF AcceptedAfter
  <2> QED
    BY <1>3, <2>1, <2>2
<1>9. /\ Len(log') >= 3 /\ log'[1] = log[1] /\ log'[2] = log[2] /\ log'[3] = log[3]
  BY <1>3, <1>4, <1>5
<1>10. \A i \in 4..Len(log') : log'[i].type \in StepTypes
  <2> SUFFICES ASSUME NEW i \in 4..Len(log') PROVE log'[i].type \in StepTypes
    OBVIOUS
  <2>1. CASE i \in 4..Len(log)
    BY <1>4, <1>5, <2>1
  <2>2. CASE i \in (Len(log) + 1)..Len(log')
    BY <1>4, <2>2
  <2> QED
    BY <1>3, <2>1, <2>2
<1> QED
  BY <1>2, <1>3, <1>4, <1>5, <1>8, <1>9, <1>10 DEF Opened

\* A call that is past its checkpoint.
Past(c) == invoked[c] \/ stage[c] \in {"wrapping", "running", "returned"}
Stored(c) == \E i \in 1..durable : log[i].type = "tool/call" /\ log[i].call = c

\* Only its checkpoint lets a call past, and only a checkpoint stores more.
LEMMA PastStep ==
  ASSUME SchedulerInv, DataTyped, [SchedulerNext]_vars
  PROVE  \/ /\ durable' = durable
            /\ \A c \in Calls : Past(c)' => Past(c)
         \/ \E d \in Calls : /\ Active(d) /\ log' = log
                             /\ durable' = Max({durable, LoggedAt(d)})
                             /\ \A c \in Calls \ {d} : Past(c)' => Past(c)
<1> USE DEF Past, Goto, group, calls, world
<1> DEFINE Quiet == durable' = durable /\ \A c \in Calls : Past(c)' => Past(c)
<1>1. stage \in [Calls -> Stages] /\ invoked \in [Calls -> BOOLEAN]
  BY DEF SchedulerInv, Typed, DataTyped
<1>2. CASE Cancel \/ Register \/ Throws
  BY <1>2 DEF Cancel, Register, Throws
<1>3. CASE StartCall
  BY <1>1, <1>3 DEF StartCall
<1>4. CASE Prepared
  BY <1>1, <1>4 DEF Prepared
<1>5. CASE CommitFinal \/ Finalize
  <2>1. PICK c : stage' = [stage EXCEPT ![c] = "over"]
    BY <1>5 DEF CommitFinal, Finalize, AppendResult
  <2>2. durable' = durable /\ invoked' = invoked
    BY <1>5 DEF CommitFinal, Finalize
  <2> QED
    BY <1>1, <2>1, <2>2
<1>6. CASE SkipRest
  BY <1>1, <1>6 DEF SkipRest
<1>7. CASE OpenGroup \/ AllStarted \/ EnterPrepare \/ PrepareSettles
  BY <1>7 DEF OpenGroup, AllStarted, EnterPrepare, PrepareSettles
<1>8. CASE Resume \/ StartFinalize \/ CommittedReady \/ Refill
  BY <1>8 DEF Resume, StartFinalize, CommittedReady, Refill
<1>9. CASE AwaitPool \/ Race \/ CloseGroup \/ Rethrows \/ Drain
  BY <1>9 DEF AwaitPool, Race, CloseGroup, Rethrows, Drain
<1>10. CASE Settled \/ UNCHANGED vars
  BY <1>10 DEF Settled, vars
<1>11. ASSUME NEW d \in Calls, BodyStarts(d) \/ BodySettles(d) \/ DispatchSettles(d) \/ Retry(d)
       PROVE  Quiet
  <2>1. durable' = durable
    BY <1>11 DEF BodyStarts, BodySettles, DispatchSettles, Retry, quiet
  <2>2. Past(d)
    BY <1>11 DEF BodyStarts, BodySettles, DispatchSettles, Retry
  <2>3. ASSUME NEW c \in Calls \ {d} PROVE stage'[c] = stage[c] /\ invoked'[c] = invoked[c]
    BY <1>1, <1>11 DEF BodyStarts, BodySettles, DispatchSettles, Retry, Settle
  <2> QED
    BY <2>1, <2>2, <2>3
<1>12. ASSUME NEW d \in Calls, Flushed(d)
       PROVE  \/ Quiet
              \/ /\ Active(d) /\ log' = log /\ durable' = Max({durable, LoggedAt(d)})
                 /\ \A c \in Calls \ {d} : Past(c)' => Past(c)
  <2>1. \A c \in Calls \ {d} : stage'[c] = stage[c] /\ invoked'[c] = invoked[c]
    BY <1>1, <1>12 DEF Flushed, Settle
  <2>2. Active(d) /\ log' = log /\ invoked' = invoked
    BY <1>12 DEF Flushed, Active
  <2>3. CASE durable' = Max({durable, LoggedAt(d)})
    BY <2>1, <2>2, <2>3
  <2>4. CASE Settle(d, "settled", Final("error")) /\ UNCHANGED durable
    <3>1. stage'[d] = "settled"
      BY <1>1, <2>4 DEF Settle
    <3> QED
      BY <2>1, <2>2, <2>4, <3>1
  <2> QED
    BY <1>12, <2>3, <2>4 DEF Flushed
<1> HIDE DEF Past
<1> QED
  BY <1>2, <1>3, <1>4, <1>5, <1>6, <1>7, <1>8, <1>9, <1>10, <1>11, <1>12
  DEF SchedulerNext, Scheduler, Dispatched

\* The call event of a dispatched call is in the log.
LEMMA LoggedPosition ==
  ASSUME LogInv, NEW c \in Calls, Active(c)
  PROVE  /\ LoggedAt(c) \in 1..Len(log)
         /\ log[LoggedAt(c)].type = "tool/call" /\ log[LoggedAt(c)].call = c
<1>1. /\ c \in 1..started /\ started \in Nat /\ pc # "done" /\ N \in Nat
  BY SchedulerAssumption
  DEF LogInv, SchedulerInv, StageOK, GroupOK, FailureOK, Typed
<1>2. Numbered(log, Len(log), Done(committed), started) /\ log \in Seq(LogEvent)
  BY <1>1 DEF LogInv, LogOK, Shape, Done
<1>3. PICK i \in 1..Len(log) : log[i].type = "tool/call" /\ log[i].call = c
  BY <1>1, <1>2 DEF Numbered
<1>4. log[i] = ToolCall(1, 1, c)
  <2>1. log[i] \in LogEvent
    BY <1>2, ElementOfSeq
  <2>2. /\ TurnStart(1).type = "turn/start" /\ StepStart(1, 1).type = "step/start"
        /\ Assistant(1, 1, [k \in Calls |-> k]).type = "assistant/message"
    BY DEF TurnStart, StepStart, Assistant
  <2>3. log[i] \in [type : {"tool/call"}, turn : {1}, step : {1}, call : Calls]
    BY <1>3, <2>1, <2>2 DEF LogEvent
  <2> QED
    BY <1>3, <2>3 DEF ToolCall
<1>5. LoggedAt(c) \in 1..Len(log) /\ log[LoggedAt(c)] = ToolCall(1, 1, c)
  BY <1>4 DEF LoggedAt
<1> QED
  BY <1>5 DEF ToolCall

\* The greater of two lengths.
LEMMA MaxOfTwo ==
  ASSUME NEW m \in Nat, NEW n \in Nat
  PROVE  Max({m, n}) \in {m, n} /\ Max({m, n}) >= m /\ Max({m, n}) >= n
<1>1. {m, n} \subseteq 0..(m + n) /\ {m, n} # {} /\ m + n \in Nat
  OBVIOUS
<1>2. Max({m, n}) \in {m, n} /\ \A i \in {m, n} : i <= Max({m, n})
  BY <1>1, LastPosition
<1> QED
  BY <1>2

\* What is stored stays stored, and a call past its checkpoint is.
LEMMA DurableStep ==
  ASSUME LogInv, LogInv', Opened(log), DurableOK, [SchedulerNext]_vars
  PROVE  DurableOK'
<1>1. /\ Len(log) \in Nat /\ Len(log') \in Nat /\ Len(log) <= Len(log')
      /\ \A i \in 1..Len(log) : log'[i] = log[i]
  BY OpenedStep
<1>2. durable \in 0..Len(log) /\ \A c \in Calls : Past(c) => Stored(c)
  BY DEF DurableOK, Past, Stored
<1>3. ASSUME durable' \in durable..Len(log),
             NEW c \in Calls, Stored(c)
      PROVE  Stored(c)'
  BY <1>1, <1>2, <1>3 DEF Stored
<1>4. CASE durable' = durable /\ \A c \in Calls : Past(c)' => Past(c)
  <2>1. durable' \in durable..Len(log) /\ durable' \in 0..Len(log')
    BY <1>1, <1>2, <1>4
  <2>2. \A c \in Calls : Past(c)' => Stored(c)'
    BY <1>2, <1>3, <1>4, <2>1
  <2> QED
    BY <2>1, <2>2 DEF DurableOK, Past, Stored
<1>5. ASSUME NEW d \in Calls, Active(d), log' = log,
             durable' = Max({durable, LoggedAt(d)}),
             \A c \in Calls \ {d} : Past(c)' => Past(c)
      PROVE  DurableOK'
  <2>1. /\ LoggedAt(d) \in 1..Len(log)
        /\ log[LoggedAt(d)].type = "tool/call" /\ log[LoggedAt(d)].call = d
    BY <1>5, LoggedPosition
  <2>2. /\ durable' \in {durable, LoggedAt(d)} /\ durable' >= durable
        /\ durable' >= LoggedAt(d)
    BY <1>1, <1>2, <1>5, <2>1, MaxOfTwo
  <2>3. durable' \in durable..Len(log) /\ durable' \in 0..Len(log')
        /\ LoggedAt(d) \in 1..durable'
    BY <1>1, <1>2, <2>1, <2>2
  <2>4. Stored(d)'
    BY <1>5, <2>1, <2>3 DEF Stored
  <2>5. \A c \in Calls : Past(c)' => Stored(c)'
    BY <1>2, <1>3, <1>5, <2>3, <2>4
  <2> QED
    BY <2>3, <2>5 DEF DurableOK, Past, Stored
<1>6. SchedulerInv /\ DataTyped
  BY DEF LogInv
<1> QED
  BY <1>4, <1>5, <1>6, PastStep

\* The log is the opening of the step and what the scheduler appended, and every
\* call past its checkpoint is stored, in every reachable state.
THEOREM CheckpointCorrect == SchedulerSpec => []CrashInv
<1>1. SchedulerInit => CrashInv
  <2> SUFFICES ASSUME SchedulerInit PROVE CrashInv
    OBVIOUS
  <2>1. LogInv
    BY InitInv, InitLog DEF LogInv
  <2>2. log \in Seq(LogEvent) /\ log = Opening
    BY <2>1 DEF LogInv, LogOK, Shape, SchedulerInit
  <2>3. /\ Len(log) = 3 /\ log[1] = TurnStart(1) /\ log[2] = StepStart(1, 1)
        /\ log[3] = Assistant(1, 1, [i \in Calls |-> i])
    BY <2>2 DEF Opening
  <2>4. AcceptedAfter(3, log)
    BY <2>2, <2>3, AcceptedSelf
  <2>5. Opened(log)
    BY <2>2, <2>3, <2>4 DEF Opened
  <2>6. DurableOK
    BY <2>3 DEF DurableOK, SchedulerInit
  <2> QED
    BY <2>1, <2>5, <2>6 DEF CrashInv
<1>2. CrashInv /\ [SchedulerNext]_vars => CrashInv'
  BY LogNext, OpenedStep, DurableStep DEF CrashInv
<1> QED
  BY <1>1, <1>2, PTL DEF SchedulerSpec

\* Wherever a crash cuts the log behind what is stored, the repaired log has one
\* result for each call of the message, and never says of a call whose body ran
\* that it was not started (session-checkpoint-policy, repair.ts).
THEOREM CrashCorrect == SchedulerSpec => []CrashToldTruly
<1>1. ASSUME CrashInv PROVE CrashToldTruly
  <2>1. /\ log \in Seq(LogEvent) /\ Len(log) \in Nat /\ Opened(log)
        /\ Numbered(log, Len(log), Done(committed), Done(started))
        /\ durable \in 0..Len(log) /\ \A c \in Calls : Past(c) => Stored(c)
    BY <1>1, LenProperties
    DEF CrashInv, Opened, LogInv, LogOK, Shape, DurableOK, Past, Stored
  <2>2. Done(committed) \in 0..N /\ Done(started) \in 0..N
    BY <1>1, SchedulerAssumption DEF CrashInv, LogInv, SchedulerInv, Typed, Done
  <2>3. Len(Opening) = 3
    BY DEF Opening
  <2>4. ASSUME NEW n \in Max({durable, Len(Opening)})..Len(log), NEW c \in Calls
        PROVE  \E i \in 1..Len(Recovered(Upto(log, n))) :
           /\ {j \in 1..Len(Recovered(Upto(log, n))) :
                 /\ Recovered(Upto(log, n))[j].type = "tool/result"
                 /\ Recovered(Upto(log, n))[j].call = c} = {i}
           /\ invoked[c] => Recovered(Upto(log, n))[i].error # "TOOL_NOT_STARTED"
    <3>1. n \in 3..Len(log) /\ n \in 0..Len(log) /\ durable <= n /\ n \in Nat
      <4>1. /\ Max({durable, 3}) \in {durable, 3}
            /\ Max({durable, 3}) >= durable /\ Max({durable, 3}) >= 3
        BY <2>1, MaxOfTwo
      <4> QED
        BY <2>1, <2>3, <4>1
    <3>2. PICK r, s : Cut(log, n, r, s)
      BY <2>1, <2>2, <3>1, CutAnywhere
    <3>3. ASSUME invoked[c] PROVE c <= s
      <4>1. PICK i \in 1..durable : log[i].type = "tool/call" /\ log[i].call = c
        BY <2>1, <3>3 DEF Past, Stored
      <4>2. i \in 1..n
        BY <2>1, <3>1
      <4>3. c \in 1..s
        BY <3>2, <4>1, <4>2 DEF Cut, Numbered
      <4>4. s \in Nat
        BY <3>2, SchedulerAssumption DEF Cut
      <4> QED
        BY <4>3, <4>4
    <3> DEFINE m == Recovered(Upto(log, n))
    <3>4. \E i \in 1..Len(m) :
            /\ {j \in 1..Len(m) : m[j].type = "tool/result" /\ m[j].call = c} = {i}
            /\ c <= s => m[i].error # "TOOL_NOT_STARTED"
      BY <2>1, <3>1, <3>2, RepairTruth
    <3> HIDE DEF m
    <3>5. \E i \in 1..Len(m) :
            /\ {j \in 1..Len(m) : m[j].type = "tool/result" /\ m[j].call = c} = {i}
            /\ invoked[c] => m[i].error # "TOOL_NOT_STARTED"
      BY <3>3, <3>4
    <3> QED
      BY <3>5 DEF m
  <2>5. ASSUME NEW n \in Max({durable, Len(Opening)})..Len(log), NEW c \in Calls
        PROVE  LET recovered == Recovered(SubSeq(log, 1, n))
                   answers == {i \in 1..Len(recovered) :
                                 recovered[i].type = "tool/result"
                                   /\ recovered[i].call = c}
               IN  \E i \in answers :
                     /\ answers = {i}
                     /\ invoked[c] => recovered[i].error # "TOOL_NOT_STARTED"
    <3> DEFINE m == Recovered(Upto(log, n))
    <3>1. Recovered(SubSeq(log, 1, n)) = m
      BY DEF Upto
    <3>2. PICK i \in 1..Len(m) :
            /\ {j \in 1..Len(m) : m[j].type = "tool/result" /\ m[j].call = c} = {i}
            /\ invoked[c] => m[i].error # "TOOL_NOT_STARTED"
      BY <2>4
    <3> HIDE DEF m
    <3> QED
      BY <3>1, <3>2
  <2> QED
    BY <2>5 DEF CrashToldTruly
<1> QED
  BY <1>1, CheckpointCorrect, PTL

\* Logs that agree up to a position are read alike up to it.
LEMMA TracesAgree ==
  ASSUME NEW l, NEW m, NEW n \in Nat, Len(l) \in Nat, Len(m) \in Nat,
         n <= Len(l), n <= Len(m), \A i \in 1..n : m[i] = l[i]
  PROVE  Traces(m)[n] = Traces(l)[n]
<1> DEFINE f == Traces(l)
           g == Traces(m)
<1>1. f = [i \in 0..Len(l) |-> IF i = 0 THEN FreshTrace
                               ELSE applyTransition(f[i - 1], l[i])]
  BY TracesDef
<1>2. g = [i \in 0..Len(m) |-> IF i = 0 THEN FreshTrace
                               ELSE applyTransition(g[i - 1], m[i])]
  BY TracesDef
<1> HIDE DEF f, g
<1> DEFINE T == {i \in Nat : i <= n => f[i] = g[i]}
<1>3. 0 \in T
  BY <1>1, <1>2
<1>4. ASSUME NEW i \in T PROVE i + 1 \in T
  BY <1>1, <1>2
<1>5. T = Nat
  <2>1. T \subseteq Nat
    OBVIOUS
  <2> HIDE DEF T
  <2> QED
    BY <1>3, <1>4, <2>1, NatSetInduction
<1>6. f[n] = g[n]
  BY <1>5
<1> QED
  BY <1>6 DEF f, g

\* The rules accept the closers of a log wherever it was cut: a result for a call
\* with no call event only because it says that the call was not started.
LEMMA ClosersAccepted ==
  ASSUME NEW l \in Seq(LogEvent), NEW n \in 0..Len(l), NEW r, NEW s, NEW m,
         Cut(l, n, r, s), Answered(Upto(l, n), m, r, s)
  PROVE  AcceptedAfter(n, m) /\ Traces(m)[Len(m)].openTurn = None
<1> DEFINE K == N - r
           f == Traces(m)
<1>1. /\ N \in Nat /\ r \in Nat /\ s \in Nat /\ r <= s /\ s <= N /\ K \in Nat
      /\ r + K = N
      /\ Traces(l)[n] = StepTrace((r + 1)..s)
  BY SchedulerAssumption DEF Cut
<1>2. Len(Upto(l, n)) = n /\ n \in Nat /\ Len(l) \in Nat
      /\ \A i \in 1..n : Upto(l, n)[i] = l[i]
  BY PrefixOf, LenProperties
<1>3. /\ Len(m) = n + K + 2 /\ \A i \in 1..n : m[i] = l[i]
      /\ m[n + K + 1] = StepEnd(1, 1) /\ m[n + K + 2] = TurnEnd(1, "interrupted")
  BY <1>2 DEF Answered
<1> DEFINE a == n + K + 1
           b == n + K + 2
<1>4. /\ Len(m) = b /\ a \in 1..b /\ b \in 1..b /\ a - 1 = n + K /\ b - 1 = a
       /\ m[a] = StepEnd(1, 1) /\ m[b] = TurnEnd(1, "interrupted")
  BY <1>1, <1>2, <1>3
<1>5. ASSUME NEW i \in 1..K
      PROVE  /\ m[n + i].type = "tool/result" /\ m[n + i].call = r + i
             /\ m[n + i].turn = 1 /\ m[n + i].step = 1
             /\ ~(r + i <= s) => m[n + i].error = "TOOL_NOT_STARTED"
  <2>1. m[n + i] = ToolResult(1, 1, r + i, IF r + i <= s THEN "TOOL_OUTCOME_UNKNOWN"
                                                         ELSE "TOOL_NOT_STARTED")
    BY <1>2 DEF Answered
  <2> QED
    BY <2>1 DEF ToolResult
<1> HIDE DEF K, a, b
<1>6. f[n] = StepTrace((r + 1)..s)
  <2>1. Len(m) \in Nat /\ n <= Len(m) /\ n <= Len(l)
    BY <1>1, <1>2, <1>3
  <2> QED
    BY <1>1, <1>2, <1>3, <2>1, TracesAgree
<1>7. \A i \in 1..Len(m) : f[i] = applyTransition(f[i - 1], m[i])
  <2>1. Len(m) \in Nat
    BY <1>1, <1>2, <1>3
  <2>2. f = [i \in 0..Len(m) |-> IF i = 0 THEN FreshTrace
                                 ELSE applyTransition(f[i - 1], m[i])]
    BY <2>1, TracesDef
  <2> HIDE DEF f
  <2> QED
    BY <2>1, <2>2
<1> HIDE DEF f
<1> DEFINE T == {i \in Nat : i <= K => f[n + i] = StepTrace((r + i + 1)..s)}
<1>8. 0 \in T
  <2>1. n + 0 = n /\ r + 0 + 1 = r + 1
    BY <1>1, <1>2
  <2> QED
    BY <1>6, <2>1
<1>9. ASSUME NEW i \in T PROVE i + 1 \in T
  <2> SUFFICES ASSUME i + 1 <= K PROVE f[n + (i + 1)] = StepTrace((r + (i + 1) + 1)..s)
    OBVIOUS
  <2>1. /\ i \in Nat /\ i + 1 \in 1..K /\ n + (i + 1) \in 1..Len(m)
        /\ n + (i + 1) - 1 = n + i
    BY <1>1, <1>2, <1>3
  <2>2. f[n + i] = StepTrace((r + i + 1)..s)
    BY <1>1, <2>1
  <2>3. f[n + (i + 1)] = applyTransition(f[n + i], m[n + (i + 1)])
    BY <1>7, <2>1
  <2>4. m[n + (i + 1)].type = "tool/result" /\ m[n + (i + 1)].call = r + (i + 1)
    BY <1>5, <2>1
  <2>5. f[n + (i + 1)] = StepTrace(((r + i + 1)..s) \ {r + (i + 1)})
    <3> DEFINE e == m[n + (i + 1)]
               P == (r + i + 1)..s
    <3>1. e.type = "tool/result" /\ e.call = r + (i + 1)
      BY <2>4
    <3> HIDE DEF e, P
    <3>2. applyTransition(StepTrace(P), e) = StepTrace(P \ {e.call})
      BY <3>1 DEF applyTransition, StepTrace
    <3>3. applyTransition(StepTrace(P), e) = StepTrace(P \ {r + (i + 1)})
      BY <3>1, <3>2
    <3> QED
      BY <2>2, <2>3, <3>3 DEF e, P
  <2>6. ((r + i + 1)..s) \ {r + (i + 1)} = (r + (i + 1) + 1)..s
    BY <1>1, <2>1
  <2> QED
    BY <2>5, <2>6
<1>10. \A i \in 0..K : f[n + i] = StepTrace((r + i + 1)..s)
  <2>1. T = Nat
    <3>1. T \subseteq Nat
      OBVIOUS
    <3> HIDE DEF T
    <3> QED
      BY <1>8, <1>9, <3>1, NatSetInduction
  <2> QED
    BY <1>1, <2>1
<1> HIDE DEF T
<1>11. f[n + K] = StepTrace({})
  <2>1. (r + K + 1)..s = {} /\ K \in 0..K
    BY <1>1
  <2> QED
    BY <1>10, <2>1
<1>12. f[a] = applyTransition(StepTrace({}), StepEnd(1, 1))
  <2>1. f[a] = applyTransition(f[a - 1], m[a])
    BY <1>7, <1>4
  <2> QED
    BY <1>11, <1>4, <2>1
<1>13. f[a].openTurn = 1 /\ f[a].openStep = None
       /\ DOMAIN f[a] = {"openTurn", "openStep", "nextTurn", "nextStep", "pendingCalls"}
  BY <1>12 DEF applyTransition, StepEnd, StepTrace
<1>14. f[b].openTurn = None
  <2>1. f[b] = applyTransition(f[b - 1], m[b])
    BY <1>7, <1>4
  <2>2. f[b] = applyTransition(f[a], TurnEnd(1, "interrupted"))
    BY <1>4, <2>1
  <2>3. f[b] = [f[a] EXCEPT !.openTurn = None, !.nextTurn = @ + 1]
    BY <2>2 DEF applyTransition, TurnEnd
  <2> QED
    BY <1>13, <2>3
<1>15. ASSUME NEW k \in (n + 1)..Len(m) PROVE validateEvent(f[k - 1], m[k])
  <2>1. Len(m) = n + K + 2
    BY <1>3
  <2>2. k \in Nat /\ n + 1 <= k /\ k <= n + K + 2
    BY <1>1, <1>2, <2>1
  <2>3. k - n \in 1..(K + 2) /\ n + (k - n) = k
    BY <1>1, <1>2, <2>2
  <2>4. k - n \in 1..K \/ k = a \/ k = b
    BY <1>1, <1>2, <2>3 DEF a, b
  <2>5. CASE k - n \in 1..K
    <3> DEFINE i == k - n
    <3>1. /\ i \in 1..K /\ k = n + i /\ k - 1 = n + (i - 1) /\ i - 1 \in 0..K
          /\ r + (i - 1) + 1 = r + i
      BY <1>1, <1>2, <2>3, <2>5
    <3> HIDE DEF i
    <3>2. f[k - 1] = StepTrace((r + i)..s)
      BY <1>10, <3>1
    <3>3. /\ m[k].type = "tool/result" /\ m[k].call = r + i
          /\ m[k].turn = 1 /\ m[k].step = 1
          /\ ~(r + i <= s) => m[k].error = "TOOL_NOT_STARTED"
      BY <1>5, <3>1
    <3>4. r + i <= s => m[k].call \in (r + i)..s
      BY <1>1, <3>1, <3>3
    <3> QED
      BY <3>2, <3>3, <3>4 DEF validateEvent, requireOpenStep, StepTrace
  <2>6. CASE k = a
    <3>1. f[k - 1] = StepTrace({}) /\ m[k] = StepEnd(1, 1)
      BY <1>11, <1>4, <2>6
    <3> QED
      BY <3>1 DEF validateEvent, requireOpenStep, StepTrace, StepEnd
  <2>7. CASE k = b
    <3>1. f[k - 1] = f[a] /\ m[k] = TurnEnd(1, "interrupted")
      BY <1>4, <2>7
    <3> QED
      BY <1>13, <3>1 DEF validateEvent, TurnEnd
  <2> QED
    BY <2>5, <2>6, <2>7, <2>4
<1>16. Traces(m)[Len(m)].openTurn = None
  BY <1>14, <1>4 DEF f
<1>17. AcceptedAfter(n, m)
  BY <1>15 DEF AcceptedAfter, f
<1> QED
  BY <1>16, <1>17

\* A crash between any two events of the step leaves a log that loading turns into
\* an accepted one with no turn open: the crash and the loading together are a step
\* that the contract of a session log allows (interruptedTurnClosers of repair.ts
\* against the rules of invariant.ts).
THEOREM RepairAccepted ==
  SchedulerSpec => [](\A n \in Len(Opening)..Len(log) :
    LET recovered == Recovered(SubSeq(log, 1, n))
    IN  /\ AcceptedAfter(n, recovered)
        /\ Traces(recovered)[Len(recovered)].openTurn = None)
<1>1. ASSUME CrashInv
      PROVE  \A n \in Len(Opening)..Len(log) :
               LET recovered == Recovered(SubSeq(log, 1, n))
               IN  /\ AcceptedAfter(n, recovered)
                   /\ Traces(recovered)[Len(recovered)].openTurn = None
  <2>1. /\ log \in Seq(LogEvent) /\ Len(log) \in Nat /\ Opened(log)
        /\ Numbered(log, Len(log), Done(committed), Done(started))
    BY <1>1, LenProperties DEF CrashInv, Opened, LogInv, LogOK, Shape
  <2>2. Done(committed) \in 0..N /\ Done(started) \in 0..N
    BY <1>1, SchedulerAssumption DEF CrashInv, LogInv, SchedulerInv, Typed, Done
  <2>3. Len(Opening) = 3
    BY DEF Opening
  <2>4. ASSUME NEW n \in 3..Len(log)
        PROVE  LET recovered == Recovered(SubSeq(log, 1, n))
               IN  /\ AcceptedAfter(n, recovered)
                   /\ Traces(recovered)[Len(recovered)].openTurn = None
    <3>1. n \in 0..Len(log)
      BY <2>1
    <3>2. PICK r, s : Cut(log, n, r, s)
      BY <2>1, <2>2, CutAnywhere
    <3> DEFINE m == Recovered(Upto(log, n))
    <3>3. Answered(Upto(log, n), m, r, s)
      BY <2>1, <3>1, <3>2, RepairShape
    <3>4. m = Recovered(SubSeq(log, 1, n))
      BY DEF Upto
    <3> HIDE DEF m
    <3>5. AcceptedAfter(n, m) /\ Traces(m)[Len(m)].openTurn = None
      BY <2>1, <3>1, <3>2, <3>3, ClosersAccepted
    <3> QED
      BY <3>4, <3>5
  <2> QED
    BY <2>3, <2>4
<1> QED
  BY <1>1, CheckpointCorrect, PTL
=============================================================================
