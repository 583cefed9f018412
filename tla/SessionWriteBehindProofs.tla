---------------------- MODULE SessionWriteBehindProofs ----------------------
(***************************************************************************)
(* Safety of the write-behind controller for every set of callers and      *)
(* every number of events, and its refinement of DurableLog.               *)
(*                                                                         *)
(* One inductive invariant carries everything.  Besides the properties     *)
(* themselves it records how the jobs of the controller exclude each       *)
(* other: who may own the active write, who may own the timer, and what a  *)
(* pending continuation implies.                                           *)
(***************************************************************************)
EXTENDS SessionWriteBehind, SequenceTheorems, TLAPS

\* The counters are ordered as the log grows.
Ordered == /\ durable <= accepted /\ seed <= accepted
           /\ init = "ok" => seed <= durable
           /\ init # "ok" => durable <= seed
           /\ Len(queue) <= accepted

\* What each job of the controller may assume when it runs.
Jobs == /\ stage # "writing" => batch = <<>>
        /\ drain \in {"overlap", "write"} => active
        /\ drain \in {"awake", "loop", "fail"} => ~active
        /\ barrier => timer = "undefined" /\ init = "ok"
        /\ timer = "set" => pending # <<>> /\ ~automaticPaused
        /\ continuing /\ active => barrier
        /\ active /\ ~barrier => background
        /\ stage = "restored" => ~deadlineExpired
        /\ stage = "restored" /\ drain = "write" => automaticPaused
        /\ drain = "fail" => automaticPaused

\* Waiting callers have a barrier; nobody waits for events not yet accepted.
Waiting == \A c \in Callers : /\ caller[c] = "barrier" => barrier
                              /\ must[c] <= accepted

IInv == /\ TypeOK
        /\ Ordered
        /\ NoEventLost
        /\ OneTimer
        /\ Jobs
        /\ Waiting
        /\ FlushIsDurable
        /\ NotStranded
-----------------------------------------------------------------------------
\* A session starts in the invariant.
LEMMA InitIInv == Init => IInv
<1> SUFFICES ASSUME Init PROVE IInv
  OBVIOUS
<1> USE DEF Init, active, barrier
<1>1. /\ deadlineExpired \in BOOLEAN /\ automaticPaused \in BOOLEAN
      /\ background \in BOOLEAN /\ continuing \in BOOLEAN
  BY Zenon
<1>2. batch = <<>> /\ batch \in Seq(1 .. MaxEvents) /\ pending \in Seq(1 .. MaxEvents)
  <2>1. <<>> \in Seq(1 .. MaxEvents)
    OBVIOUS
  <2>2. accepted > 0 => <<accepted>> \in Seq(1 .. MaxEvents)
    BY WriteBehindAssumption
  <2> QED
    BY <2>1, <2>2
<1>3. TypeOK
  BY <1>1, <1>2, WriteBehindAssumption DEF TypeOK, Stages, Drains, CallerStates
<1>4. queue = pending
  BY <1>2, ConcatEmptySeq DEF queue
<1>5. Ordered /\ NoEventLost
  <2>1. CASE pending = <<>>
    BY <2>1, <1>4, WriteBehindAssumption DEF Ordered, NoEventLost
  <2>2. CASE accepted > 0 /\ pending = <<accepted>>
    <3>1. Len(pending) = 1 /\ pending[1] = accepted
      BY <2>2
    <3> QED
      BY <2>2, <3>1, <1>4, WriteBehindAssumption DEF Ordered, NoEventLost
  <2> QED
    BY <2>1, <2>2
<1>6. OneTimer /\ Jobs /\ NotStranded
  BY DEF OneTimer, Jobs, NotStranded
<1>7. Waiting /\ FlushIsDurable
  BY WriteBehindAssumption DEF Waiting, FlushIsDurable
<1> QED
  BY <1>3, <1>5, <1>6, <1>7 DEF IInv

\* What Fresh returns when the batch is split by the cursor into a stale prefix
\* and a fresh suffix.
LEMMA FreshIsSuffix ==
  ASSUME NEW b \in Seq(Nat), NEW cursor \in Nat,
         \E k \in 0 .. Len(b) : /\ \A i \in 1 .. k : b[i] <= cursor
                               /\ \A i \in (k + 1) .. Len(b) : b[i] > cursor
  PROVE  \E k \in 0 .. Len(b) : /\ \A i \in 1 .. k : b[i] <= cursor
                                /\ Fresh(b, cursor) = SubSeq(b, k + 1, Len(b))
<1> DEFINE P(k) == /\ \A i \in 1 .. k : b[i] <= cursor
                   /\ \A i \in (k + 1) .. Len(b) : b[i] > cursor
           stale == CHOOSE k \in 0 .. Len(b) : P(k)
<1>1. stale \in 0 .. Len(b) /\ P(stale)
  BY Zenon
<1>2. Fresh(b, cursor) = SubSeq(b, stale + 1, Len(b))
  BY DEF Fresh
<1> QED
  BY <1>1, <1>2

\* The two halves of the queue, element by element.
LEMMA QueueParts ==
  ASSUME TypeOK
  PROVE  /\ Len(queue) = Len(batch) + Len(pending)
         /\ \A i \in 1 .. Len(batch) : queue[i] = batch[i]
         /\ \A i \in 1 .. Len(pending) : queue[Len(batch) + i] = pending[i]
BY DEF TypeOK, queue

\* A successful write leaves no gap between the log and what is still pending.
LEMMA WriteEffect ==
  ASSUME TypeOK, Ordered, NoEventLost, WriteSucceeds
  PROVE  /\ durable' \in durable .. accepted
         /\ accepted - Len(pending) <= durable'
<1> DEFINE first == accepted - Len(queue)
<1>1. /\ Len(queue) = Len(batch) + Len(pending)
      /\ Len(batch) \in Nat /\ Len(pending) \in Nat /\ first \in Nat
      /\ accepted \in Nat /\ durable \in Nat /\ first <= durable /\ durable <= accepted
      /\ batch \in Seq(Nat)
  BY QueueParts, WriteBehindAssumption DEF TypeOK, Ordered, NoEventLost, WriteSucceeds
<1>2. \A i \in 1 .. Len(batch) : batch[i] = first + i
  BY <1>1, QueueParts DEF NoEventLost
<1>3. \E k \in 0 .. Len(batch) : /\ \A i \in 1 .. k : batch[i] <= durable
                                 /\ \A i \in (k + 1) .. Len(batch) : batch[i] > durable
  <2> DEFINE k == IF durable - first <= Len(batch) THEN durable - first ELSE Len(batch)
  <2>1. k \in 0 .. Len(batch) /\ first + k <= durable
    BY <1>1
  <2>2. \A i \in 1 .. k : i \in 1 .. Len(batch) /\ first + i <= durable
    BY <1>1, <2>1
  <2>3. \A i \in (k + 1) .. Len(batch) : i \in 1 .. Len(batch) /\ first + i > durable
    BY <1>1, <2>1
  <2> HIDE DEF k, first
  <2> QED
    BY <1>2, <2>1, <2>2, <2>3
<1>4. PICK k \in 0 .. Len(batch) : /\ \A i \in 1 .. k : batch[i] <= durable
                                  /\ Fresh(batch, durable) = SubSeq(batch, k + 1, Len(batch))
  BY <1>1, <1>3, FreshIsSuffix
<1> DEFINE fresh == Fresh(batch, durable)
<1>5. /\ Len(fresh) = Len(batch) - k
      /\ \A i \in 1 .. Len(fresh) : fresh[i] = batch[k + i]
  BY <1>1, <1>4
<1>6. durable' = durable + Len(fresh) /\ Contiguous(fresh, durable)
  BY DEF WriteSucceeds
<1>7. CASE k < Len(batch)
  <2>1. fresh[Len(fresh)] = durable + Len(fresh)
    BY <1>1, <1>5, <1>6, <1>7 DEF Contiguous
  <2>2. fresh[Len(fresh)] = first + Len(batch)
    <3>1. Len(fresh) \in 1 .. Len(fresh) /\ k + Len(fresh) = Len(batch)
      BY <1>1, <1>5, <1>7
    <3>2. fresh[Len(fresh)] = batch[Len(batch)]
      BY <1>5, <3>1
    <3> QED
      BY <1>1, <1>2, <1>7, <3>2
  <2> QED
    BY <1>1, <1>5, <1>6, <1>7, <2>1, <2>2
<1>8. CASE k = Len(batch)
  <2>1. first + Len(batch) <= durable
    BY <1>1, <1>2, <1>4, <1>8
  <2> QED
    BY <1>1, <1>5, <1>6, <1>8, <2>1
<1> QED
  BY <1>1, <1>7, <1>8

\* TypeOK in three parts: the provers treat Boolean variables, the timer count
\* and the remaining data in different ways.
FlagsOK == /\ deadlineExpired \in BOOLEAN /\ automaticPaused \in BOOLEAN
           /\ background \in BOOLEAN /\ continuing \in BOOLEAN

ClockOK == timer \in {"undefined", "set"} /\ OneTimer

DataOK == /\ accepted \in 0 .. MaxEvents
          /\ seed \in 0 .. MaxEvents
          /\ durable \in 0 .. MaxEvents
          /\ init \in {"pending", "ok", "failed"}
          /\ pending \in Seq(1 .. MaxEvents)
          /\ stage \in Stages
          /\ batch \in Seq(1 .. MaxEvents)
          /\ drain \in Drains
          /\ caller \in [Callers -> CallerStates]
          /\ must \in [Callers -> 0 .. MaxEvents]

\* The type invariant and the single timer, split by the variables they are
\* about.
LEMMA TypeParts == TypeOK /\ OneTimer <=> FlagsOK /\ ClockOK /\ DataOK
BY DEF TypeOK, FlagsOK, ClockOK, DataOK, OneTimer

\* Every job leaves the flags and program counters in their types.
LEMMA FlagsStep == FlagsOK /\ [Next]_vars => FlagsOK'
<1> SUFFICES ASSUME FlagsOK, [Next]_vars PROVE FlagsOK'
  OBVIOUS
<1> USE DEF FlagsOK, core, flags, clock, write, users
<1>1. CASE Enqueue
  BY <1>1, Zenon DEF Enqueue
<1>2. ASSUME NEW c \in Callers, CallFlush(c) PROVE FlagsOK'
  BY <1>2, Zenon DEF CallFlush
<1>3. ASSUME NEW c \in Callers, FlushInitFailed(c) PROVE FlagsOK'
  BY <1>3, Zenon DEF FlushInitFailed
<1>4. ASSUME NEW c \in Callers, JoinBarrier(c) PROVE FlagsOK'
  BY <1>4, Zenon DEF JoinBarrier
<1>5. ASSUME NEW c \in Callers, OpenBarrier(c) PROVE FlagsOK'
  BY <1>5, Zenon DEF OpenBarrier, TakeBatch
<1>6. CASE Deadline
  BY <1>6, Zenon DEF Deadline, TakeBatch
<1>7. CASE InitSucceeds
  BY <1>7, Zenon DEF InitSucceeds
<1>8. CASE InitFails
  BY <1>8, Zenon DEF InitFails
<1>9. CASE WriteSucceeds
  BY <1>9, Zenon DEF WriteSucceeds
<1>10. CASE WriteFails
  BY <1>10, Zenon DEF WriteFails
<1>11. CASE Settle
  BY <1>11, Zenon DEF Settle
<1>12. CASE ContinueAutomatic
  BY <1>12, Zenon DEF ContinueAutomatic, TakeBatch
<1>13. CASE DrainContinue
  BY <1>13, Zenon DEF DrainContinue, TakeBatch
<1>14. CASE DrainFail
  BY <1>14, Zenon DEF DrainFail
<1>15. CASE UNCHANGED vars
  BY <1>15, Zenon DEF vars
<1> QED
  BY <1>1, <1>2, <1>3, <1>4, <1>5, <1>6, <1>7, <1>8, <1>9, <1>10, <1>11, <1>12, <1>13, <1>14, <1>15 DEF Next

\* No action leaves a timer behind: the handle and the event loop stay in step.
LEMMA ClockStep == ClockOK /\ Jobs /\ [Next]_vars => ClockOK'
<1> SUFFICES ASSUME ClockOK, Jobs, [Next]_vars PROVE ClockOK'
  OBVIOUS
<1> USE DEF ClockOK, OneTimer, Jobs, core, flags, clock, write, users, CancelTimer, ArmTimer
<1>1. CASE Enqueue
  <2>1. (timer = "undefined" /\ ArmTimer) \/ UNCHANGED clock
    BY <1>1 DEF Enqueue
  <2> QED
    BY <2>1
<1>2. ASSUME NEW c \in Callers, CallFlush(c) PROVE ClockOK'
  BY <1>2 DEF CallFlush
<1>3. ASSUME NEW c \in Callers, FlushInitFailed(c) PROVE ClockOK'
  BY <1>3 DEF FlushInitFailed
<1>4. ASSUME NEW c \in Callers, JoinBarrier(c) PROVE ClockOK'
  BY <1>4 DEF JoinBarrier
<1>5. ASSUME NEW c \in Callers, OpenBarrier(c) PROVE ClockOK'
  BY <1>5 DEF OpenBarrier
<1>6. CASE Deadline
  BY <1>6 DEF Deadline
<1>7. CASE InitSucceeds
  BY <1>7 DEF InitSucceeds
<1>8. CASE InitFails
  BY <1>8 DEF InitFails
<1>9. CASE WriteSucceeds
  BY <1>9 DEF WriteSucceeds
<1>10. CASE WriteFails
  BY <1>10 DEF WriteFails
<1>11. CASE Settle
  BY <1>11 DEF Settle
<1>12. CASE ContinueAutomatic
  <2>1. CancelTimer \/ UNCHANGED clock
    BY <1>12 DEF ContinueAutomatic
  <2> QED
    BY <2>1
<1>13. CASE DrainContinue
  <2>1. CancelTimer \/ UNCHANGED clock
    BY <1>13 DEF DrainContinue
  <2> QED
    BY <2>1
<1>14. CASE DrainFail
  BY <1>14 DEF DrainFail
<1>15. CASE UNCHANGED vars
  BY <1>15 DEF vars
<1> QED
  BY <1>1, <1>2, <1>3, <1>4, <1>5, <1>6, <1>7, <1>8, <1>9, <1>10, <1>11, <1>12, <1>13, <1>14, <1>15 DEF Next

\* The synchronous part of a write clears what it takes over.
LEMMA TakeBatchStep ==
  ASSUME DataOK, NEW flag, TakeBatch(flag)
  PROVE  /\ batch' = pending /\ pending' = <<>> /\ stage' = "writing"
         /\ batch' \in Seq(1 .. MaxEvents) /\ pending' \in Seq(1 .. MaxEvents)
<1>1. <<>> \in Seq(1 .. MaxEvents)
  OBVIOUS
<1> QED
  BY <1>1 DEF DataOK, TakeBatch

\* Every job leaves queue, batch and counters in their types.
LEMMA DataStep == IInv /\ [Next]_vars => DataOK'
<1> SUFFICES ASSUME TypeOK, Ordered, NoEventLost, DataOK, [Next]_vars PROVE DataOK'
  BY TypeParts DEF IInv
<1> USE WriteBehindAssumption DEF DataOK, Stages, Drains, CallerStates,
        core, flags, clock, write, users, active, barrier
<1>1. CASE Enqueue
  BY <1>1 DEF Enqueue
<1>2. ASSUME NEW c \in Callers, CallFlush(c) PROVE DataOK'
  BY <1>2 DEF CallFlush
<1>3. ASSUME NEW c \in Callers, FlushInitFailed(c) PROVE DataOK'
  BY <1>3 DEF FlushInitFailed
<1>4. ASSUME NEW c \in Callers, JoinBarrier(c) PROVE DataOK'
  BY <1>4 DEF JoinBarrier
<1>5. ASSUME NEW c \in Callers, OpenBarrier(c) PROVE DataOK'
  BY <1>5, TakeBatchStep DEF OpenBarrier
<1>6. CASE Deadline
  BY <1>6, TakeBatchStep DEF Deadline
<1>7. CASE InitSucceeds
  BY <1>7 DEF InitSucceeds
<1>8. CASE InitFails
  BY <1>8 DEF InitFails
<1>9. CASE WriteSucceeds
  BY <1>9, WriteEffect DEF WriteSucceeds
<1>10. CASE WriteFails
  BY <1>10 DEF WriteFails, Retained
<1>11. CASE Settle
  BY <1>11 DEF Settle
<1>12. CASE ContinueAutomatic
  BY <1>12, TakeBatchStep DEF ContinueAutomatic
<1>13. CASE DrainContinue
  BY <1>13, TakeBatchStep DEF DrainContinue, SettleCallers
<1>14. CASE DrainFail
  BY <1>14 DEF DrainFail, SettleCallers
<1>15. CASE UNCHANGED vars
  BY <1>15 DEF vars
<1> QED
  BY <1>1, <1>2, <1>3, <1>4, <1>5, <1>6, <1>7, <1>8, <1>9, <1>10, <1>11, <1>12, <1>13, <1>14, <1>15 DEF Next

-----------------------------------------------------------------------------
\* Moving pending events into a batch, or a failed batch back in front of the
\* pending events, does not change the queue.
LEMMA QueueMove ==
  ASSUME TypeOK,
         \/ batch' = batch /\ pending' = pending
         \/ batch = <<>> /\ batch' = pending /\ pending' = <<>>
         \/ batch' = <<>> /\ pending' = batch \o pending
  PROVE  queue' = queue
<1>1. batch \in Seq(Nat) /\ pending \in Seq(Nat) /\ batch \o pending \in Seq(Nat)
  BY WriteBehindAssumption DEF TypeOK
<1>2. CASE batch' = batch /\ pending' = pending
  BY <1>2 DEF queue
<1>3. CASE batch = <<>> /\ batch' = pending /\ pending' = <<>>
  <2>1. queue = pending /\ queue' = pending
    BY <1>1, <1>3, ConcatEmptySeq DEF queue
  <2> QED
    BY <2>1
<1>4. CASE batch' = <<>> /\ pending' = batch \o pending
  BY <1>1, <1>4, ConcatEmptySeq DEF queue
<1> QED
  BY <1>2, <1>3, <1>4

\* An event enqueued behind a contiguous queue continues it.
LEMMA QueueAppend ==
  ASSUME TypeOK, NEW x \in Nat, batch' = batch, pending' = Append(pending, x)
  PROVE  queue' = Append(queue, x)
<1>1. batch \in Seq(Nat) /\ pending \in Seq(Nat)
  BY WriteBehindAssumption DEF TypeOK
<1> QED
  BY <1>1 DEF queue

\* The queue holds the newest events in order, next to the log or overlapping it.
LEMMA QueueStep == IInv /\ [Next]_vars => Ordered' /\ NoEventLost'
<1> SUFFICES ASSUME TypeOK, DataOK, Ordered, NoEventLost, Jobs, [Next]_vars
             PROVE  Ordered' /\ NoEventLost'
  BY TypeParts DEF IInv
<1>0. accepted \in Nat /\ durable \in Nat /\ seed \in Nat /\ queue \in Seq(Nat) /\ Len(queue) \in Nat
  BY WriteBehindAssumption DEF TypeOK, queue
<1> USE <1>0 DEF Ordered, NoEventLost, Jobs, core, write, users, active, barrier
<1>1. CASE Enqueue
  <2>1. queue' = Append(queue, accepted + 1)
    BY <1>1, QueueAppend DEF Enqueue
  <2> QED
    BY <1>1, <2>1 DEF Enqueue
<1>2. ASSUME NEW c \in Callers, CallFlush(c) PROVE Ordered' /\ NoEventLost'
  <2>1. queue' = queue
    BY <1>2, QueueMove DEF CallFlush
  <2> QED
    BY <1>2, <2>1 DEF CallFlush
<1>3. ASSUME NEW c \in Callers, FlushInitFailed(c) PROVE Ordered' /\ NoEventLost'
  <2>1. queue' = queue
    BY <1>3, QueueMove DEF FlushInitFailed
  <2> QED
    BY <1>3, <2>1 DEF FlushInitFailed
<1>4. ASSUME NEW c \in Callers, JoinBarrier(c) PROVE Ordered' /\ NoEventLost'
  <2>1. queue' = queue
    BY <1>4, QueueMove DEF JoinBarrier
  <2> QED
    BY <1>4, <2>1 DEF JoinBarrier
<1>5. ASSUME NEW c \in Callers, OpenBarrier(c) PROVE Ordered' /\ NoEventLost'
  <2>1. (batch' = batch /\ pending' = pending) \/ (batch = <<>> /\ batch' = pending /\ pending' = <<>>)
    BY <1>5, TakeBatchStep DEF OpenBarrier
  <2>2. queue' = queue
    BY <2>1, QueueMove
  <2> QED
    BY <1>5, <2>2 DEF OpenBarrier
<1>6. CASE Deadline
  <2>1. (batch' = batch /\ pending' = pending) \/ (batch = <<>> /\ batch' = pending /\ pending' = <<>>)
    BY <1>6, TakeBatchStep DEF Deadline
  <2>2. queue' = queue
    BY <2>1, QueueMove
  <2> QED
    BY <1>6, <2>2 DEF Deadline
<1>7. CASE InitSucceeds
  <2>1. queue' = queue
    BY <1>7, QueueMove DEF InitSucceeds
  <2> QED
    BY <1>7, <2>1 DEF InitSucceeds
<1>8. CASE InitFails
  <2>1. queue' = queue
    BY <1>8, QueueMove DEF InitFails
  <2> QED
    BY <1>8, <2>1 DEF InitFails
<1>9. CASE WriteSucceeds
  <2>1. queue' = pending /\ Len(pending) \in Nat
    BY <1>9, ConcatEmptySeq DEF WriteSucceeds, queue, TypeOK
  <2>2. \A i \in 1 .. Len(pending) : pending[i] = accepted - Len(pending) + i
    <3>1. /\ Len(queue) = Len(batch) + Len(pending) /\ Len(batch) \in Nat
          /\ \A i \in 1 .. Len(pending) : queue[Len(batch) + i] = pending[i]
      BY <2>1, QueueParts DEF TypeOK
    <3>2. \A i \in 1 .. Len(pending) : Len(batch) + i \in 1 .. Len(queue)
      BY <2>1, <3>1
    <3>3. \A i \in 1 .. Len(pending) :
             queue[Len(batch) + i] = accepted - Len(queue) + (Len(batch) + i)
      BY <3>2
    <3>4. ASSUME NEW i \in 1 .. Len(pending)
          PROVE  pending[i] = accepted - Len(pending) + i
      <4>1. pending[i] = accepted - Len(queue) + (Len(batch) + i)
        BY <3>1, <3>3
      <4>2. accepted - (Len(batch) + Len(pending)) + (Len(batch) + i) = accepted - Len(pending) + i
        BY <2>1, <3>1
      <4> QED
        BY <3>1, <4>1, <4>2
    <3> QED
      BY <3>4
  <2>3. accepted' = accepted /\ init' = "ok" /\ init = "ok" /\ seed' = seed
    BY <1>9 DEF WriteSucceeds
  <2> QED
    BY <1>9, <2>1, <2>2, <2>3, WriteEffect, QueueParts
<1>10. CASE WriteFails
  <2>1. queue' = queue
    BY <1>10, QueueMove DEF WriteFails, Retained
  <2> QED
    BY <1>10, <2>1 DEF WriteFails
<1>11. CASE Settle
  <2>1. queue' = queue
    BY <1>11, QueueMove DEF Settle
  <2> QED
    BY <1>11, <2>1 DEF Settle
<1>12. CASE ContinueAutomatic
  <2>1. (batch' = batch /\ pending' = pending) \/ (batch = <<>> /\ batch' = pending /\ pending' = <<>>)
    BY <1>12, TakeBatchStep DEF ContinueAutomatic
  <2>2. queue' = queue
    BY <2>1, QueueMove
  <2> QED
    BY <1>12, <2>2 DEF ContinueAutomatic
<1>13. CASE DrainContinue
  <2>1. (batch' = batch /\ pending' = pending) \/ (batch = <<>> /\ batch' = pending /\ pending' = <<>>)
    BY <1>13, TakeBatchStep DEF DrainContinue
  <2>2. queue' = queue
    BY <2>1, QueueMove
  <2> QED
    BY <1>13, <2>2 DEF DrainContinue
<1>14. CASE DrainFail
  <2>1. queue' = queue
    BY <1>14, QueueMove DEF DrainFail
  <2> QED
    BY <1>14, <2>1 DEF DrainFail
<1>15. CASE UNCHANGED vars
  BY <1>15 DEF vars, queue
<1> QED
  BY <1>1, <1>2, <1>3, <1>4, <1>5, <1>6, <1>7, <1>8, <1>9, <1>10, <1>11, <1>12, <1>13, <1>14, <1>15 DEF Next

\* The jobs of the controller exclude each other.
LEMMA JobsStep == IInv /\ [Next]_vars => Jobs'
<1> SUFFICES ASSUME TypeOK, Jobs, [Next]_vars PROVE Jobs'
  BY DEF IInv
<1> USE DEF Jobs, core, flags, clock, write, users, active, barrier
<1>1. CASE Enqueue
  <2>1. pending' # <<>>
    BY <1>1 DEF Enqueue, TypeOK
  <2> QED
    BY <1>1, <2>1 DEF Enqueue, ArmTimer
<1>2. ASSUME NEW c \in Callers, CallFlush(c) PROVE Jobs'
  BY <1>2 DEF CallFlush, CancelTimer
<1>3. ASSUME NEW c \in Callers, FlushInitFailed(c) PROVE Jobs'
  BY <1>3 DEF FlushInitFailed, CancelTimer
<1>4. ASSUME NEW c \in Callers, JoinBarrier(c) PROVE Jobs'
  BY <1>4 DEF JoinBarrier
<1>5. ASSUME NEW c \in Callers, OpenBarrier(c) PROVE Jobs'
  BY <1>5 DEF OpenBarrier, CancelTimer, TakeBatch
<1>6. CASE Deadline
  BY <1>6 DEF Deadline, TakeBatch, JobQueued
<1>7. CASE InitSucceeds
  BY <1>7 DEF InitSucceeds
<1>8. CASE InitFails
  BY <1>8 DEF InitFails
<1>9. CASE WriteSucceeds
  BY <1>9 DEF WriteSucceeds
<1>10. CASE WriteFails
  BY <1>10 DEF WriteFails, CancelTimer
<1>11. CASE Settle
  BY <1>11 DEF Settle
<1>12. CASE ContinueAutomatic
  BY <1>12 DEF ContinueAutomatic, CancelTimer, TakeBatch
<1>13. CASE DrainContinue
  BY <1>13 DEF DrainContinue, CancelTimer, TakeBatch
<1>14. CASE DrainFail
  BY <1>14 DEF DrainFail
<1>15. CASE UNCHANGED vars
  BY <1>15 DEF vars
<1> QED
  BY <1>1, <1>2, <1>3, <1>4, <1>5, <1>6, <1>7, <1>8, <1>9, <1>10, <1>11, <1>12, <1>13, <1>14, <1>15 DEF Next

\* A caller that waits has a barrier to wait for, and a resolved caller a log
\* that holds what it asked for: a barrier closes only on an empty queue.
LEMMA CallersStep == IInv /\ [Next]_vars => Waiting' /\ FlushIsDurable'
<1> SUFFICES ASSUME TypeOK, DataOK, Ordered, NoEventLost, Jobs, Waiting, FlushIsDurable, [Next]_vars
             PROVE  Waiting' /\ FlushIsDurable'
  BY TypeParts DEF IInv
<1>0. /\ accepted \in Nat /\ durable \in Nat /\ seed \in Nat
      /\ must \in [Callers -> Nat] /\ caller \in [Callers -> CallerStates]
  BY WriteBehindAssumption DEF TypeOK
<1>e. pending = <<>> /\ ~active /\ init = "ok" => accepted <= durable
  <2> SUFFICES ASSUME pending = <<>>, ~active, init = "ok" PROVE accepted <= durable
    OBVIOUS
  <2>1. batch = <<>>
    BY DEF Jobs, active
  <2>2. Len(queue) = 0
    BY <2>1 DEF queue
  <2> QED
    BY <1>0, <2>2 DEF NoEventLost
<1> USE <1>0 DEF Waiting, FlushIsDurable, core, write, users, CallerStates, barrier
<1>1. CASE Enqueue
  BY <1>1 DEF Enqueue
<1>2. ASSUME NEW c \in Callers, CallFlush(c) PROVE Waiting' /\ FlushIsDurable'
  BY <1>2 DEF CallFlush
<1>3. ASSUME NEW c \in Callers, FlushInitFailed(c) PROVE Waiting' /\ FlushIsDurable'
  BY <1>3 DEF FlushInitFailed
<1>4. ASSUME NEW c \in Callers, JoinBarrier(c) PROVE Waiting' /\ FlushIsDurable'
  BY <1>4 DEF JoinBarrier
<1>5. ASSUME NEW c \in Callers, OpenBarrier(c) PROVE Waiting' /\ FlushIsDurable'
  <2>1. CASE drain' # "none" /\ caller' = [caller EXCEPT ![c] = "barrier"]
    BY <1>5, <2>1 DEF OpenBarrier
  <2>2. CASE ~active /\ pending = <<>> /\ caller' = [caller EXCEPT ![c] = "resolved"]
    BY <1>5, <1>e, <2>2 DEF OpenBarrier
  <2> QED
    BY <1>5, <2>1, <2>2 DEF OpenBarrier
<1>6. CASE Deadline
  BY <1>6 DEF Deadline
<1>7. CASE InitSucceeds
  BY <1>7 DEF InitSucceeds, Ordered
<1>8. CASE InitFails
  BY <1>8 DEF InitFails
<1>9. CASE WriteSucceeds
  <2>1. durable' >= durable /\ durable' \in Nat
    BY <1>9, WriteEffect
  <2> QED
    BY <1>9, <2>1 DEF WriteSucceeds
<1>10. CASE WriteFails
  BY <1>10 DEF WriteFails
<1>11. CASE Settle
  BY <1>11 DEF Settle
<1>12. CASE ContinueAutomatic
  BY <1>12 DEF ContinueAutomatic
<1>13. CASE DrainContinue
  <2>1. ~active /\ init = "ok"
    BY <1>13 DEF DrainContinue, Jobs
  <2>2. CASE pending # <<>>
    BY <1>13, <2>2 DEF DrainContinue
  <2>3. CASE pending = <<>>
    <3>1. caller' = [c \in Callers |-> IF caller[c] = "barrier" THEN "resolved" ELSE caller[c]]
      BY <1>13, <2>3 DEF DrainContinue, SettleCallers
    <3>2. /\ accepted <= durable
          /\ accepted' = accepted /\ durable' = durable /\ must' = must
      BY <1>13, <1>e, <2>1, <2>3 DEF DrainContinue
    <3> QED
      BY <3>1, <3>2
  <2> QED
    BY <2>2, <2>3
<1>14. CASE DrainFail
  BY <1>14 DEF DrainFail, SettleCallers
<1>15. CASE UNCHANGED vars
  BY <1>15 DEF vars
<1> QED
  BY <1>1, <1>2, <1>3, <1>4, <1>5, <1>6, <1>7, <1>8, <1>9, <1>10, <1>11, <1>12, <1>13, <1>14, <1>15 DEF Next

\* Whatever drops the last thing that would write retained events either puts
\* another in its place or pauses automatic retry.
LEMMA StrandedStep == IInv /\ [Next]_vars => NotStranded'
<1> SUFFICES ASSUME TypeOK, Jobs, NotStranded, [Next]_vars PROVE NotStranded'
  BY DEF IInv
<1> USE DEF NotStranded, Jobs, core, flags, clock, write, users, active, barrier
<1>1. CASE Enqueue
  BY <1>1 DEF Enqueue, ArmTimer
<1>2. ASSUME NEW c \in Callers, CallFlush(c) PROVE NotStranded'
  <2>1. caller'[c] = "init"
    BY <1>2 DEF CallFlush, TypeOK
  <2> QED
    BY <2>1
<1>3. ASSUME NEW c \in Callers, FlushInitFailed(c) PROVE NotStranded'
  BY <1>3 DEF FlushInitFailed
<1>4. ASSUME NEW c \in Callers, JoinBarrier(c) PROVE NotStranded'
  BY <1>4 DEF JoinBarrier
<1>5. ASSUME NEW c \in Callers, OpenBarrier(c) PROVE NotStranded'
  BY <1>5 DEF OpenBarrier, TakeBatch
<1>6. CASE Deadline
  BY <1>6 DEF Deadline, TakeBatch
<1>7. CASE InitSucceeds
  BY <1>7 DEF InitSucceeds
<1>8. CASE InitFails
  BY <1>8 DEF InitFails
<1>9. CASE WriteSucceeds
  BY <1>9 DEF WriteSucceeds
<1>10. CASE WriteFails
  BY <1>10 DEF WriteFails
<1>11. CASE Settle
  BY <1>11 DEF Settle
<1>12. CASE ContinueAutomatic
  BY <1>12 DEF ContinueAutomatic, TakeBatch
<1>13. CASE DrainContinue
  BY <1>13 DEF DrainContinue, TakeBatch
<1>14. CASE DrainFail
  BY <1>14 DEF DrainFail
<1>15. CASE UNCHANGED vars
  BY <1>15 DEF vars
<1> QED
  BY <1>1, <1>2, <1>3, <1>4, <1>5, <1>6, <1>7, <1>8, <1>9, <1>10, <1>11, <1>12, <1>13, <1>14, <1>15 DEF Next

-----------------------------------------------------------------------------
\* Every job preserves the invariant.
LEMMA Inductive == IInv /\ [Next]_vars => IInv'
<1> SUFFICES ASSUME IInv, [Next]_vars PROVE IInv'
  OBVIOUS
<1>1. FlagsOK' /\ ClockOK' /\ DataOK'
  BY FlagsStep, ClockStep, DataStep, TypeParts DEF IInv
<1>2. TypeOK' /\ OneTimer'
  BY <1>1 DEF TypeOK, FlagsOK, ClockOK, DataOK, OneTimer
<1> QED
  BY <1>2, QueueStep, JobsStep, CallersStep, StrandedStep DEF IInv

\* The invariant holds of every behaviour of the controller.
THEOREM Invariance == Spec => []IInv
BY InitIInv, Inductive, PTL DEF Spec

\* Every variable of the controller stays within its type.
THEOREM TypeCorrect == Spec => []TypeOK
<1>1. IInv => TypeOK
  BY DEF IInv
<1> QED
  BY Invariance, <1>1, PTL

\* write-behind.ts never drops, duplicates or reorders an event, through
\* failures, retries, overlapping barriers and a seed that was also enqueued.
THEOREM QueueCorrect == Spec => []NoEventLost
<1>1. IInv => NoEventLost
  BY DEF IInv
<1> QED
  BY Invariance, <1>1, PTL

\* A flush that resolved left everything it was called for in the stored log.
THEOREM FlushCorrect == Spec => []FlushIsDurable
<1>1. IInv => FlushIsDurable
  BY DEF IInv
<1> QED
  BY Invariance, <1>1, PTL

\* Retained events never wait for nothing.
THEOREM NothingStranded == Spec => []NotStranded
<1>1. IInv => NotStranded
  BY DEF IInv
<1> QED
  BY Invariance, <1>1, PTL

\* The handle this.timer and the event loop never disagree.
THEOREM TimerCorrect == Spec => []OneTimer
<1>1. IInv => OneTimer
  BY DEF IInv
<1> QED
  BY Invariance, <1>1, PTL

\* No write replaces the batch of a write in flight.
THEOREM OneWriterCorrect == Spec => OneWriter
<1>1. IInv /\ [Next]_vars => [stage = "writing" /\ stage' = "writing" => batch' = batch]_vars
  <2> SUFFICES ASSUME Jobs, [Next]_vars, stage = "writing", stage' = "writing" PROVE batch' = batch
    BY DEF IInv
  <2> USE DEF Jobs, write, active, barrier
  <2>1. CASE Deadline
    BY <2>1 DEF Deadline
  <2>2. ASSUME NEW c \in Callers, OpenBarrier(c) PROVE batch' = batch
    BY <2>2 DEF OpenBarrier
  <2>3. CASE ContinueAutomatic
    BY <2>3 DEF ContinueAutomatic
  <2>4. CASE DrainContinue
    BY <2>4 DEF DrainContinue
  <2>5. CASE WriteSucceeds \/ WriteFails \/ Settle
    BY <2>5 DEF WriteSucceeds, WriteFails, Settle
  <2>6. ASSUME NEW c \in Callers, CallFlush(c) \/ FlushInitFailed(c) \/ JoinBarrier(c)
        PROVE  batch' = batch
    BY <2>6 DEF CallFlush, FlushInitFailed, JoinBarrier
  <2>7. CASE Enqueue \/ InitSucceeds \/ InitFails \/ DrainFail
    BY <2>7 DEF Enqueue, InitSucceeds, InitFails, DrainFail
  <2>8. CASE UNCHANGED vars
    BY <2>8 DEF vars
  <2> QED
    BY <2>1, <2>2, <2>3, <2>4, <2>5, <2>6, <2>7, <2>8 DEF Next
<1> QED
  BY Invariance, <1>1, PTL DEF Spec, OneWriter
-----------------------------------------------------------------------------
\* Refinement: the caller states of the controller as DurableLog sees them.
LogCall == [c \in Callers |-> IF caller[c] \in {"init", "barrier"} THEN "waiting" ELSE caller[c]]

\* The initial states are initial states of the abstract log.
LEMMA LogInit == Init => Log!Init
BY DEF Init, Log!Init

\* Every job of the controller is a step of the log or invisible to it.
LEMMA LogStep == IInv /\ IInv' /\ [Next]_vars => [Log!Next]_(Log!vars)
<1> SUFFICES ASSUME TypeOK, TypeOK', Ordered, NoEventLost, Waiting, Jobs, FlushIsDurable, FlushIsDurable', [Next]_vars
             PROVE  [Log!Next]_(Log!vars)
  BY DEF IInv
<1>0. /\ accepted \in Nat /\ durable \in Nat /\ seed \in Nat
      /\ must \in [Callers -> Nat] /\ caller \in [Callers -> CallerStates]
      /\ caller' \in [Callers -> CallerStates] /\ durable' \in Nat
  BY WriteBehindAssumption DEF TypeOK
<1> USE <1>0 DEF core, write, users, CallerStates, Log!vars
<1>1. CASE Enqueue
  <2>1. Log!Accept
    BY <1>1 DEF Enqueue, Log!Accept
  <2> QED
    BY <2>1 DEF Log!Next
<1>2. ASSUME NEW c \in Callers, CallFlush(c) PROVE [Log!Next]_(Log!vars)
  <2>1. Log!Flush(c)
    BY <1>2 DEF CallFlush, Log!Flush
  <2> QED
    BY <2>1 DEF Log!Next
<1>3. ASSUME NEW c \in Callers, FlushInitFailed(c) PROVE [Log!Next]_(Log!vars)
  <2>1. Log!Reject
    BY <1>3 DEF FlushInitFailed, Log!Reject, Log!Settle, Log!CallStates
  <2> QED
    BY <2>1 DEF Log!Next
<1>4. ASSUME NEW c \in Callers, JoinBarrier(c) PROVE [Log!Next]_(Log!vars)
  <2>1. UNCHANGED Log!vars
    BY <1>4 DEF JoinBarrier
  <2> QED
    BY <2>1
<1>5. ASSUME NEW c \in Callers, OpenBarrier(c) PROVE [Log!Next]_(Log!vars)
  <2>1. CASE caller' = [caller EXCEPT ![c] = "barrier"]
    <3>1. UNCHANGED Log!vars
      BY <1>5, <2>1 DEF OpenBarrier
    <3> QED
      BY <3>1
  <2>2. CASE caller' = [caller EXCEPT ![c] = "resolved"]
    <3>1. Log!Resolve
      BY <1>5, <2>2 DEF OpenBarrier, Log!Resolve, Log!Settle, Log!CallStates, FlushIsDurable
    <3> QED
      BY <3>1 DEF Log!Next
  <2> QED
    BY <1>5, <2>1, <2>2 DEF OpenBarrier
<1>6. CASE Deadline
  <2>1. UNCHANGED <<accepted, durable, caller, must>>
    BY <1>6 DEF Deadline
  <2> QED
    BY <2>1
<1>7. CASE InitSucceeds
  <2>1. durable' \in durable .. accepted /\ UNCHANGED <<accepted, caller, must>>
    BY <1>7 DEF InitSucceeds, Ordered
  <2>2. CASE durable' = durable
    BY <2>1, <2>2
  <2>3. CASE durable' # durable
    <3>1. Log!Persist
      BY <2>1, <2>3 DEF Log!Persist
    <3> QED
      BY <3>1 DEF Log!Next
  <2> QED
    BY <2>2, <2>3
<1>8. CASE InitFails
  <2>1. UNCHANGED <<accepted, durable, caller, must>>
    BY <1>8 DEF InitFails
  <2> QED
    BY <2>1
<1>9. CASE WriteSucceeds
  <2>1. durable' \in durable .. accepted /\ UNCHANGED <<accepted, caller, must>>
    BY <1>9, WriteEffect DEF WriteSucceeds
  <2>2. CASE durable' = durable
    BY <2>1, <2>2
  <2>3. CASE durable' # durable
    <3>1. Log!Persist
      BY <2>1, <2>3 DEF Log!Persist
    <3> QED
      BY <3>1 DEF Log!Next
  <2> QED
    BY <2>2, <2>3
<1>10. CASE WriteFails
  <2>1. UNCHANGED <<accepted, durable, caller, must>>
    BY <1>10 DEF WriteFails
  <2> QED
    BY <2>1
<1>11. CASE Settle
  <2>1. UNCHANGED <<accepted, durable, caller, must>>
    BY <1>11 DEF Settle
  <2> QED
    BY <2>1
<1>12. CASE ContinueAutomatic
  <2>1. UNCHANGED <<accepted, durable, caller, must>>
    BY <1>12 DEF ContinueAutomatic
  <2> QED
    BY <2>1
<1>13. CASE DrainContinue
  <2>1. CASE pending # <<>>
    <3>1. UNCHANGED <<accepted, durable, caller, must>>
      BY <1>13, <2>1 DEF DrainContinue
    <3> QED
      BY <3>1
  <2>2. CASE pending = <<>>
    <3>1. /\ caller' = [c \in Callers |-> IF caller[c] = "barrier" THEN "resolved" ELSE caller[c]]
          /\ accepted' = accepted /\ durable' = durable /\ must' = must
      BY <1>13, <2>2 DEF DrainContinue, SettleCallers
    <3>2. Log!Resolve
      BY <3>1 DEF Log!Resolve, Log!Settle, Log!CallStates, FlushIsDurable
    <3> QED
      BY <3>2 DEF Log!Next
  <2> QED
    BY <2>1, <2>2
<1>14. CASE DrainFail
  <2>1. Log!Reject
    BY <1>14 DEF DrainFail, SettleCallers, Log!Reject, Log!Settle, Log!CallStates
  <2> QED
    BY <2>1 DEF Log!Next
<1>15. CASE UNCHANGED vars
  BY <1>15 DEF vars
<1> QED
  BY <1>1, <1>2, <1>3, <1>4, <1>5, <1>6, <1>7, <1>8, <1>9, <1>10, <1>11, <1>12, <1>13, <1>14, <1>15 DEF Next

\* The write-behind controller implements the abstract log.
THEOREM Refinement == Spec => ImplementsLog
<1>1. Spec => Log!Init /\ [][Log!Next]_(Log!vars)
  BY Invariance, LogInit, LogStep, PTL DEF Spec
<1> QED
  BY <1>1 DEF ImplementsLog, Log!Spec
=============================================================================
