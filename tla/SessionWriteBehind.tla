------------------------- MODULE SessionWriteBehind -------------------------
(***************************************************************************)
(* The per-session write-behind controller                                 *)
(* (packages/session/session-persistence/src/write-behind.ts) together     *)
(* with the coordinator code that feeds and flushes it (coordinator.ts:    *)
(* session/event listener, flush, createWriteBehind, appendLiveBatch,      *)
(* appendCore).                                                            *)
(*                                                                         *)
(* JavaScript runs one job at a time.  Every action below is one job, or   *)
(* the part of an async function between two awaits.  Events are their     *)
(* sequence numbers, counted from 1, so a queue is a sequence of numbers   *)
(* and the durable log, whose contiguity appendCore enforces, is just the  *)
(* number of events in it.                                                 *)
(***************************************************************************)
EXTENDS Naturals, Sequences

CONSTANTS Callers,     \* concurrent callers of coordinator.flush
          MaxEvents    \* bound on the events a session appends

\* Model bound only: the code puts no limit on the length of a session.
ASSUME WriteBehindAssumption == MaxEvents \in Nat

VARIABLES
  accepted,         \* events the Session has appended so far
  durable,          \* events in the stored log (the coordinator's cursor)
  init,             \* live.init: "pending", "ok" or "failed"
  seed,             \* events the Session had when initFor copied its seed
  pending,          \* this.pending
  timer,            \* this.timer: "undefined" or "set"
  armed,            \* timers the event loop still holds, owned or leaked
  deadlineExpired,  \* this.deadlineExpired
  automaticPaused,  \* this.automaticPaused
  stage,            \* the write in this.active: see Stages
  batch,            \* the events of that write
  background,       \* the flag startWrite was called with
  continuing,       \* a continueAutomatic job is queued
  drain,            \* where drainBarrier stands: see Drains
  caller,           \* flush caller -> where it stands: see CallerStates
  must              \* flush caller -> events accepted when it called

core  == <<accepted, durable, init, seed>>
flags == <<deadlineExpired, automaticPaused>>
clock == <<timer, armed>>
write == <<stage, batch, background>>
users == <<caller, must>>
vars  == <<core, pending, clock, flags, write, continuing, drain, users>>

\* "stored" and "restored": the backend settled and the catch handler ran, but
\* the finally handler that clears this.active has not.
Stages == {"none", "writing", "stored", "restored"}

\* "overlap": awaiting the write that was active when flush was called;
\* "awake": the job after that await; "write": awaiting its own startWrite;
\* "loop": the job after a successful write; "fail": after a failed one.
Drains == {"none", "overlap", "awake", "write", "loop", "fail"}

\* "init": awaiting live.init; "barrier": awaiting the barrier promise.
CallerStates == {"idle", "init", "barrier", "resolved", "rejected"}

active  == stage # "none"
barrier == drain # "none"

\* A promise continuation is queued.  The event loop empties that queue before
\* it runs a timer or delivers the outcome of an I/O request.
JobQueued == \/ stage \in {"stored", "restored"}
             \/ continuing
             \/ drain \in {"awake", "loop", "fail"}
             \/ init # "pending" /\ \E c \in Callers : caller[c] = "init"

\* initFor copied a seed; the log may already hold a prefix of it.  When the
\* first thing the coordinator hears of a session is an event, that event is
\* both in the seed and enqueued.
Init == /\ accepted \in 0 .. MaxEvents
        /\ seed = accepted
        /\ durable \in 0 .. seed
        /\ init = "pending"
        /\ \/ pending = <<>> /\ timer = "undefined" /\ armed = 0
           \/ accepted > 0 /\ pending = <<accepted>> /\ timer = "set" /\ armed = 1
        /\ deadlineExpired = FALSE
        /\ automaticPaused = FALSE
        /\ stage = "none" /\ batch = <<>> /\ background = FALSE
        /\ continuing = FALSE
        /\ drain = "none"
        /\ caller = [c \in Callers |-> "idle"]
        /\ must = [c \in Callers |-> 0]
-----------------------------------------------------------------------------
\* Operators named "...Bug" are single-fault variants of the definition that
\* follows them.  No action uses them: they exist to show that a property can
\* tell the code from a plausible mistake in it.

\* Timer bookkeeping.  setTimeout adds a timer whatever this.timer holds;
\* clearTimeout removes only the one this.timer names.
ArmTimer == timer' = "set" /\ armed' = armed + 1

CancelTimer == /\ timer' = "undefined"
               /\ armed' = IF timer = "set" THEN armed - 1 ELSE armed

\* The synchronous part of startWrite, except for its cancelTimer.
TakeBatch(isBackground) == /\ batch' = pending
                           /\ pending' = <<>>
                           /\ stage' = "writing"
                           /\ background' = isBackground
                           /\ deadlineExpired' = FALSE

\* What appendLiveBatch keeps of a batch: the events at or after the cursor.
\* Batches are in sequence order (see NoEventLost), where a filter is a suffix.
Fresh(b, cursor) ==
  LET stale == CHOOSE k \in 0 .. Len(b) :
                 /\ \A i \in 1 .. k : b[i] <= cursor
                 /\ \A i \in (k + 1) .. Len(b) : b[i] > cursor
  IN  SubSeq(b, stale + 1, Len(b))

\* The check of appendCore: the batch continues the stored log.
Contiguous(b, cursor) == \A i \in 1 .. Len(b) : b[i] = cursor + i
-----------------------------------------------------------------------------
\* session/event listener: copy the event and call enqueue.
Enqueue ==
  /\ accepted < MaxEvents
  /\ accepted' = accepted + 1
  /\ pending' = Append(pending, accepted + 1)
  /\ \/ /\ barrier
        /\ UNCHANGED <<clock, flags>>
     \/ /\ ~barrier /\ automaticPaused
        /\ automaticPaused' = FALSE
        /\ deadlineExpired' = FALSE
        /\ ArmTimer
     \/ /\ ~barrier /\ ~automaticPaused /\ pending = <<>>
        /\ ArmTimer
        /\ UNCHANGED flags
     \/ /\ ~barrier /\ ~automaticPaused /\ pending # <<>>
        /\ UNCHANGED <<clock, flags>>
  /\ UNCHANGED <<durable, init, seed, write, continuing, drain, users>>

\* coordinator.flush up to its await of live.init.
CallFlush(c) ==
  /\ caller[c] \in {"idle", "resolved", "rejected"}
  /\ caller' = [caller EXCEPT ![c] = "init"]
  /\ must' = [must EXCEPT ![c] = accepted]
  /\ CancelTimer
  /\ deadlineExpired' = FALSE
  /\ UNCHANGED <<core, pending, automaticPaused, write, continuing, drain>>

\* coordinator.flush after live.init rejected.
FlushInitFailed(c) ==
  /\ caller[c] = "init" /\ init = "failed"
  /\ caller' = [caller EXCEPT ![c] = "rejected"]
  /\ CancelTimer
  /\ deadlineExpired' = FALSE
  /\ UNCHANGED <<core, pending, automaticPaused, write, continuing, drain, must>>

\* Returning at once when a barrier is already open.
JoinNothingBug(c) ==
  /\ caller[c] = "init" /\ init = "ok"
  /\ barrier
  /\ caller' = [caller EXCEPT ![c] = "resolved"]
  /\ UNCHANGED <<core, pending, clock, flags, write, continuing, drain, must>>

\* coordinator.flush after live.init resolved: SessionWriteBehind.flush.
JoinBarrier(c) ==
  /\ caller[c] = "init" /\ init = "ok"
  /\ barrier
  /\ caller' = [caller EXCEPT ![c] = "barrier"]
  /\ UNCHANGED <<core, pending, clock, flags, write, continuing, drain, must>>

OpenBarrier(c) ==
  /\ caller[c] = "init" /\ init = "ok"
  /\ ~barrier
  /\ CancelTimer
  /\ automaticPaused' = FALSE
  /\ \/ /\ active
        /\ drain' = "overlap"
        /\ caller' = [caller EXCEPT ![c] = "barrier"]
        /\ deadlineExpired' = FALSE
        /\ UNCHANGED <<pending, write>>
     \/ /\ ~active /\ pending # <<>>
        /\ TakeBatch(FALSE)
        /\ drain' = "write"
        /\ caller' = [caller EXCEPT ![c] = "barrier"]
     \/ /\ ~active /\ pending = <<>>
        /\ drain' = "none"
        /\ caller' = [caller EXCEPT ![c] = "resolved"]
        /\ deadlineExpired' = FALSE
        /\ UNCHANGED <<pending, write>>
  /\ UNCHANGED <<core, continuing, must>>
-----------------------------------------------------------------------------
\* onDeadline, with the startBackground it may call.
Deadline ==
  /\ armed > 0 /\ ~JobQueued
  /\ armed' = armed - 1
  /\ timer' = "undefined"
  /\ \/ /\ active
        /\ deadlineExpired' = TRUE
        /\ UNCHANGED <<pending, write>>
     \/ ~active /\ TakeBatch(TRUE)
  /\ UNCHANGED <<core, automaticPaused, continuing, drain, users>>

\* The serialized onCreated / appendCore behind live.init stores the seed.
InitSucceeds ==
  /\ init = "pending" /\ ~JobQueued
  /\ init' = "ok"
  /\ durable' = seed
  /\ UNCHANGED <<accepted, seed, pending, clock, flags, write, continuing, drain, users>>

InitFails ==
  /\ init = "pending" /\ ~JobQueued
  /\ init' = "failed"
  /\ UNCHANGED <<accepted, durable, seed, pending, clock, flags, write, continuing, drain, users>>

\* The write function: await ready(), filter, append, advance the cursor.
WriteSucceeds ==
  /\ stage = "writing" /\ ~JobQueued
  /\ init = "ok"
  /\ LET fresh == Fresh(batch, durable)
     IN  /\ Contiguous(fresh, durable)
         /\ durable' = durable + Len(fresh)
  /\ stage' = "stored"
  /\ batch' = <<>>
  /\ UNCHANGED <<accepted, init, seed, pending, clock, flags, background, continuing, drain, users>>

\* A failed batch is retained, in front of what was enqueued meanwhile.
RetainedBehindBug == pending \o batch
Retained == batch \o pending

\* The backend, appendCore's check or live.init rejected: startWrite's catch.
WriteFails ==
  /\ stage = "writing" /\ ~JobQueued
  /\ init # "pending"
  /\ pending' = Retained
  /\ batch' = <<>>
  /\ stage' = "restored"
  /\ CancelTimer
  /\ deadlineExpired' = FALSE
  /\ automaticPaused' = TRUE
  /\ UNCHANGED <<core, background, continuing, drain, users>>

\* startWrite's finally, which queues what awaits this.active.
Settle ==
  /\ stage \in {"stored", "restored"}
  /\ stage' = "none"
  /\ background' = FALSE
  /\ continuing' = (continuing \/ (background /\ stage = "stored"))
  /\ \/ drain = "overlap" /\ drain' = "awake"
     \/ drain = "write" /\ drain' = IF stage = "stored" THEN "loop" ELSE "fail"
     \/ drain \notin {"overlap", "write"} /\ UNCHANGED drain
  /\ UNCHANGED <<core, pending, clock, flags, batch, users>>

\* The expired deadline ignored.
NoContinuationBug ==
  /\ continuing
  /\ continuing' = FALSE
  /\ UNCHANGED <<core, pending, clock, flags, write, drain, users>>

\* continueAutomatic, with the startBackground it may call.
ContinueAutomatic ==
  /\ continuing
  /\ continuing' = FALSE
  /\ IF ~barrier /\ pending # <<>> /\ deadlineExpired
       THEN TakeBatch(TRUE) /\ CancelTimer
       ELSE UNCHANGED <<pending, write, deadlineExpired, clock>>
  /\ UNCHANGED <<core, automaticPaused, drain, users>>
-----------------------------------------------------------------------------
\* Callers of a failed barrier left waiting.
SettleSuccessOnlyBug(outcome) ==
  caller' = [c \in Callers |-> IF caller[c] = "barrier" /\ outcome = "resolved"
                                 THEN outcome ELSE caller[c]]

\* Settle the barrier promise that every joined caller awaits.
SettleCallers(outcome) ==
  caller' = [c \in Callers |-> IF caller[c] = "barrier" THEN outcome ELSE caller[c]]

\* drainBarrier after an await: write what is pending, or close and resolve.
DrainContinue ==
  /\ drain \in {"awake", "loop"}
  /\ automaticPaused' = IF drain = "awake" THEN FALSE ELSE automaticPaused
  /\ \/ /\ pending # <<>>
        /\ TakeBatch(FALSE)
        /\ CancelTimer
        /\ drain' = "write"
        /\ UNCHANGED caller
     \/ /\ pending = <<>>
        /\ drain' = "none"
        /\ SettleCallers("resolved")
        /\ UNCHANGED <<pending, write, deadlineExpired, clock>>
  /\ UNCHANGED <<core, continuing, must>>

\* The error swallowed.
SilentDrainBug ==
  /\ drain = "fail"
  /\ drain' = "none"
  /\ SettleCallers("resolved")
  /\ UNCHANGED <<core, pending, clock, flags, write, continuing, must>>

\* drainBarrier's catch.
DrainFail ==
  /\ drain = "fail"
  /\ drain' = "none"
  /\ SettleCallers("rejected")
  /\ UNCHANGED <<core, pending, clock, flags, write, continuing, must>>
-----------------------------------------------------------------------------
Next == \/ Enqueue
        \/ \E c \in Callers : CallFlush(c) \/ FlushInitFailed(c) \/ JoinBarrier(c) \/ OpenBarrier(c)
        \/ Deadline
        \/ InitSucceeds \/ InitFails
        \/ WriteSucceeds \/ WriteFails
        \/ Settle
        \/ ContinueAutomatic
        \/ DrainContinue \/ DrainFail

Spec == Init /\ [][Next]_vars

\* Queued jobs run, timers fire, and every initialization and write of the
\* backend settles one way or the other.  Nothing makes a producer append or a
\* caller flush.
Fairness == /\ WF_vars(Deadline)
            /\ WF_vars(InitSucceeds \/ InitFails)
            /\ WF_vars(WriteSucceeds \/ WriteFails)
            /\ WF_vars(Settle)
            /\ WF_vars(ContinueAutomatic)
            /\ WF_vars(DrainContinue \/ DrainFail)
            /\ \A c \in Callers : WF_vars(FlushInitFailed(c) \/ JoinBarrier(c) \/ OpenBarrier(c))

FairSpec == Spec /\ Fairness
-----------------------------------------------------------------------------
TypeOK == /\ accepted \in 0 .. MaxEvents
          /\ seed \in 0 .. MaxEvents
          /\ durable \in 0 .. MaxEvents
          /\ init \in {"pending", "ok", "failed"}
          /\ pending \in Seq(1 .. MaxEvents)
          /\ timer \in {"undefined", "set"}
          /\ armed \in Nat
          /\ deadlineExpired \in BOOLEAN
          /\ automaticPaused \in BOOLEAN
          /\ stage \in Stages
          /\ batch \in Seq(1 .. MaxEvents)
          /\ background \in BOOLEAN
          /\ continuing \in BOOLEAN
          /\ drain \in Drains
          /\ caller \in [Callers -> CallerStates]
          /\ must \in [Callers -> 0 .. MaxEvents]

\* The events in memory, oldest first.
queue == batch \o pending

\* A failed write puts its batch back in front of newer events, and a batch is
\* never taken while another is in flight: the events held in memory are always
\* the newest ones, in order, and join or overlap the stored (or seeded) log.
\* No accepted event is in neither place, so a retry can always continue the log.
NoEventLost ==
  /\ \A i \in 1 .. Len(queue) : queue[i] = accepted - Len(queue) + i
  /\ accepted - Len(queue) <= IF init = "ok" THEN durable ELSE seed

\* onDeadline runs only for the timer this.timer names: no cancelled or
\* replaced window is left behind in the event loop to start a second write.
OneTimer == armed = IF timer = "set" THEN 1 ELSE 0

\* Retained events always have something that will write them: a timer, an
\* expired deadline that the active write's continuation will honour, a
\* barrier, or a flush that cancelled the wait and is about to open one.  The
\* exceptions are the documented ones: automatic retry paused by a failure,
\* and a session whose initialization failed.
NotStranded ==
  pending # <<>> /\ init # "failed" =>
    \/ timer = "set"
    \/ deadlineExpired /\ (active \/ continuing)
    \/ barrier
    \/ automaticPaused
    \/ \E c \in Callers : caller[c] = "init"

\* flush resolves only when everything the session had appended before the call
\* is durable, whatever write or barrier the call found in progress.
FlushIsDurable == \A c \in Callers : caller[c] = "resolved" => must[c] <= durable

\* While a write is in flight its batch is not replaced by another startWrite.
OneWriter == [][stage = "writing" /\ stage' = "writing" => batch' = batch]_vars

\* Every flush settles, even if it joins a barrier that overlaps a failing write.
FlushSettles == \A c \in Callers :
  (caller[c] = "init") ~> (caller[c] \in {"resolved", "rejected"})

\* Without any flush, each accepted event becomes durable unless automatic
\* retry has been paused by a failure or the session never initialized.
EventuallyDurable == \A k \in 1 .. MaxEvents :
  (accepted >= k) ~> (durable >= k \/ automaticPaused \/ init = "failed")

\* The controller implements the abstract log.
Log == INSTANCE DurableLog WITH
         call <- [c \in Callers |-> IF caller[c] \in {"init", "barrier"}
                                      THEN "waiting" ELSE caller[c]]

ImplementsLog == Log!Spec
=============================================================================
