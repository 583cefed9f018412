---------------------------- MODULE ToolScheduler ----------------------------
(***************************************************************************)
(* The tool calls of one assistant step: the scheduler of                  *)
(* packages/core/agent-loop/src/tool-calls.ts with the staged execution of *)
(* packages/core/tools/src/index.ts and the checkpoint wrapper of          *)
(* packages/session/session-checkpoint-policy/src/index.ts.                *)
(*                                                                         *)
(* One scheduler runs groups in model order: an exclusive call alone, or   *)
(* a bounded pool of parallel calls.  Pre-execute and post-execute run one *)
(* call at a time, dispatched bodies overlap.  `pc` is where the scheduler *)
(* stands; cancellation and tool registry changes land anywhere else than  *)
(* in the synchronous check of "fill":                                     *)
(*   group       classify the next call, or settle                         *)
(*   fill        the condition of fillPool                                 *)
(*   called      observers of tool/call                                    *)
(*   preparing   tools/pre-execute hooks, approval and guards              *)
(*   prepared    prepare has settled, startCall has not resumed            *)
(*   drain       Promise.race over the pool                                *)
(*   resume      a call was started or raced, results not yet committed    *)
(*   commit      commitReady between two slots                             *)
(*   finalizing  tools/post-execute                                        *)
(*   pause       commitReady has settled, its caller has not resumed       *)
(*   failing     the catch block, draining started dispatches              *)
(*   done, failed  executeToolCalls returned, or threw                     *)
(***************************************************************************)
EXTENDS SessionLog, FiniteSets

CONSTANTS N,             \* calls of the assistant message, 1..N in model order
          MaxParallel,   \* maxParallelToolCalls
          Deferring,     \* calls whose result carries one context message
          Concluding,    \* calls whose body marks the turn as concluded
          Limit          \* bound on each kind of disturbance, see Kinds

Kinds == {"registry",    \* changes of a call's concurrency mode
          "retries",     \* wrappers that run the body once more
          "failures"}    \* scheduler failures: a stage or an append throws
Calls == 1..N

ASSUME SchedulerAssumption ==
  /\ N \in Nat /\ MaxParallel \in Nat \ {0}
  /\ Deferring \subseteq Calls /\ Concluding \subseteq Calls
  /\ Limit \in [Kinds -> Nat]

VARIABLES pc,
          safe,          \* isConcurrencySafe of each call, as registered now
          signal,        \* signal.aborted
          aborted,       \* runGroup's cached copy of it
          pool,          \* [first, last, parallel]: the group being run
          started, committed,   \* calls started and committed, model order
          inFlight,      \* runGroup's inFlight keys
          stage,         \* how far each call's execution has come
          invoked,       \* cancellationStates.bodyInvoked
          outcome,       \* [kind, post]: settled result, needsPost
          failure,       \* schedulerFailure is set
          concluded,
          durable,       \* length of the log known to be stored
          used,          \* how often each kind of disturbance has happened
          startedAs      \* history: parallel-safe when the call was started

group    == <<aborted, pool, started, committed, inFlight, failure>>
calls    == <<stage, invoked, outcome, startedAs>>
world    == <<safe, signal, concluded, durable, used>>
vars     == <<log, pc, group, calls, world>>

Stages == {"planned",    \* not started
           "preparing",  \* tool/call is logged, not dispatched
           "flushing",   \* dispatched, the checkpoint wrapper awaits the flush
           "wrapping",   \* other wrappers, the body not yet invoked
           "running",    \* the body
           "returned",   \* the body or a wrapper answered, wrappers unwind
           "settled",    \* the slot is filled
           "rejected",   \* the dispatch rejected
           "over"}       \* committed, skipped, or lost to a failure
Results == {"ok", "error", "ABORTED", "ABORTED_BEFORE_DISPATCH"}
Pending == [kind |-> "none", post |-> FALSE]
Post(kind)  == [kind |-> kind, post |-> TRUE]
Final(kind) == [kind |-> kind, post |-> FALSE]

Active(c)   == stage[c] \in {"flushing", "wrapping", "running", "returned"}
Current     == started           \* the call startCall is working on
Next1       == committed + 1     \* the next slot in model order

Opening == <<TurnStart(1), StepStart(1, 1), Assistant(1, 1, [i \in Calls |-> i])>>

SchedulerInit ==
  /\ log = Opening /\ durable = 0
  /\ pc = "group" /\ safe \in [Calls -> BOOLEAN]
  /\ signal = FALSE /\ aborted = FALSE
  /\ pool = [first |-> 1, last |-> 0, parallel |-> FALSE]
  /\ started = 0 /\ committed = 0 /\ inFlight = {}
  /\ stage = [c \in Calls |-> "planned"]
  /\ invoked = [c \in Calls |-> FALSE]
  /\ outcome = [c \in Calls |-> Pending]
  /\ failure = FALSE /\ concluded = FALSE
  /\ used = [kind \in Kinds |-> 0]
  /\ startedAs = [c \in Calls |-> FALSE]

\* The scheduler moves on and nothing else changes.
Goto(to) == pc' = to /\ UNCHANGED <<log, group, calls, world>>

Spend(kind) ==
  used[kind] < Limit[kind] /\ used' = [used EXCEPT ![kind] = @ + 1]

(***************************************************************************)
(* The environment: anyone may cancel the agent, a plugin may replace the  *)
(* registered tool and with it the concurrency mode.                       *)
(***************************************************************************)
Interruptible == pc \notin {"fill", "done", "failed"}

Cancel ==
  /\ Interruptible /\ ~signal /\ signal' = TRUE
  /\ UNCHANGED <<log, pc, group, calls, safe, concluded, durable, used>>

\* Only calls not yet started: the mode of any other call is not read again.
Register ==
  /\ Interruptible /\ Spend("registry")
  /\ \E c \in Calls : c > started /\ safe' = [safe EXCEPT ![c] = ~@]
  /\ UNCHANGED <<log, pc, group, calls, signal, concluded, durable>>

(***************************************************************************)
(* executeToolCalls: groups.                                               *)
(***************************************************************************)
OpenGroup ==
  /\ pc = "group" /\ started < N
  /\ pool' = [first |-> started + 1, parallel |-> safe[started + 1],
              last |-> IF safe[started + 1] THEN N ELSE started + 1]
  /\ aborted' = signal
  /\ pc' = "fill"
  /\ UNCHANGED <<log, started, committed, inFlight, failure, calls, world>>

AllStarted == pc = "group" /\ started = N /\ Goto("done")

(***************************************************************************)
(* fillPool and startCall.                                                 *)
(***************************************************************************)
\* Plausible bugs: no reclassification, no abort check.
StaleModeBug ==
  ~aborted /\ started < pool.last /\ Cardinality(inFlight) < MaxParallel
IgnoredAbortBug ==
  /\ started < pool.last /\ Cardinality(inFlight) < MaxParallel
  /\ started >= pool.first /\ pool.parallel => safe[started + 1]

MayStart ==
  /\ ~aborted /\ started < pool.last /\ Cardinality(inFlight) < MaxParallel
  /\ started >= pool.first /\ pool.parallel => safe[started + 1]

StartCall ==
  /\ pc = "fill" /\ MayStart
  /\ started' = started + 1
  /\ log' = Append(log, ToolCall(1, 1, started + 1))
  /\ stage' = [stage EXCEPT ![started + 1] = "preparing"]
  /\ startedAs' = [startedAs EXCEPT ![started + 1] = safe[started + 1]]
  /\ pc' = "called"
  /\ UNCHANGED <<aborted, pool, committed, inFlight, failure, invoked, outcome,
                 world>>

\* createExecution and the entry check of prepareExecution: a cancelled call,
\* and one the registry cannot represent, skip the whole policy pipeline.
EnterPrepare ==
  /\ pc = "called"
  /\ \/ /\ ~signal /\ pc' = "preparing" /\ UNCHANGED outcome
     \/ \E kind \in {"error", "ABORTED_BEFORE_DISPATCH"} :
          /\ kind = "ABORTED_BEFORE_DISPATCH" => signal
          /\ outcome' = [outcome EXCEPT ![Current] = Final(kind)]
          /\ pc' = "prepared"
  /\ UNCHANGED <<log, group, stage, invoked, startedAs, world>>

\* The hooks, the approval and the guards settle: a hook throws, the call is
\* denied, it was cancelled meanwhile, or it may be dispatched.
PrepareSettles ==
  /\ pc = "preparing"
  /\ \/ outcome' = [outcome EXCEPT ![Current] = Final("error")]
     \/ outcome' = [outcome EXCEPT ![Current] = Post("error")]
     \/ /\ signal
        /\ outcome' = [outcome EXCEPT ![Current] =
                         Post("ABORTED_BEFORE_DISPATCH")]
     \/ ~signal /\ UNCHANGED outcome
  /\ pc' = "prepared"
  /\ UNCHANGED <<log, group, stage, invoked, startedAs, world>>

\* startCall resumes: dispatch, or fill the slot with the result it has.
Prepared ==
  /\ pc = "prepared" /\ ~failure
  /\ IF outcome[Current] = Pending
     THEN /\ inFlight' = inFlight \cup {Current}
          /\ stage' = [stage EXCEPT ![Current] = "flushing"]
     ELSE /\ stage' = [stage EXCEPT ![Current] = "settled"]
          /\ UNCHANGED inFlight
  /\ pc' = "resume"
  /\ UNCHANGED <<log, aborted, pool, started, committed, failure, invoked,
                 outcome, startedAs, world>>

(***************************************************************************)
(* Dispatched calls: wrappers around the body, concurrently.               *)
(***************************************************************************)
quiet == <<pc, aborted, pool, started, committed, inFlight, startedAs, safe,
           signal, concluded>>

Settle(c, next, result) ==
  /\ stage' = [stage EXCEPT ![c] = next]
  /\ outcome' = [outcome EXCEPT ![c] = result]

LoggedAt(c) == CHOOSE i \in 1..Len(log) : log[i] = ToolCall(1, 1, c)

\* A plausible bug: the wrapper does not wait for the checkpoint.
UnawaitedFlushBug(c) ==
  /\ stage[c] = "flushing"
  /\ stage' = [stage EXCEPT ![c] = "wrapping"]
  /\ UNCHANGED <<outcome, durable>>
  /\ UNCHANGED <<log, quiet, invoked, failure, used>>

\* The checkpoint settles; its failure is final and the body never runs.
Flushed(c) ==
  /\ stage[c] = "flushing"
  /\ \/ /\ durable' = Max({durable, LoggedAt(c)})
        /\ IF signal
           THEN Settle(c, "returned", Post("ABORTED_BEFORE_DISPATCH"))
           ELSE /\ stage' = [stage EXCEPT ![c] = "wrapping"]
                /\ UNCHANGED outcome
     \/ Settle(c, "settled", Final("error")) /\ UNCHANGED durable
  /\ UNCHANGED <<log, quiet, invoked, failure, used>>

\* dispatchToolBody up to the await of the body: cancelled by the caller or by
\* a wrapper's own signal (a timeout), unknown by now, answered by a wrapper in
\* its stead, or invoked.
BodyStarts(c) ==
  /\ stage[c] = "wrapping"
  /\ \/ /\ Settle(c, "returned", Post("ABORTED_BEFORE_DISPATCH"))
        /\ UNCHANGED invoked
     \/ \E kind \in {"ok", "error"} : Settle(c, "returned", Post(kind))
        /\ UNCHANGED invoked
     \/ /\ ~signal
        /\ invoked' = [invoked EXCEPT ![c] = TRUE]
        /\ stage' = [stage EXCEPT ![c] = "running"]
        /\ UNCHANGED outcome
  /\ UNCHANGED <<log, quiet, failure, durable, used>>

\* The body settles: a success is superseded by either signal, an error kept.
BodySettles(c) ==
  /\ stage[c] = "running"
  /\ \E kind \in {"error", "ABORTED", "ok"} :
       /\ kind = "ok" => ~signal
       /\ Settle(c, "returned", Post(kind))
  /\ UNCHANGED <<log, quiet, invoked, failure, durable, used>>

\* A retry wrapper delegates once more.
Retry(c) ==
  /\ pc # "fill" /\ stage[c] = "returned" /\ Spend("retries")
  /\ Settle(c, "wrapping", Pending)
  /\ UNCHANGED <<log, quiet, invoked, failure, durable>>

\* A plausible bug: the body is taken as never invoked.
BodyForgottenBug(c, kind) ==
  IF signal /\ kind = "ok" THEN "ABORTED_BEFORE_DISPATCH" ELSE kind

\* cancellationResult, for a success that cancellation supersedes.
Superseded(c, kind) ==
  IF ~signal \/ kind # "ok" THEN kind
  ELSE IF invoked[c] THEN "ABORTED" ELSE "ABORTED_BEFORE_DISPATCH"

\* The outermost wrapper returns what it got, replaces it by an error of its
\* own (a timeout), or throws; or the dispatch itself rejects.
DispatchSettles(c) ==
  /\ stage[c] = "returned"
  /\ \/ /\ \E kind \in {outcome[c].kind, "error"} :
             Settle(c, "settled", Post(Superseded(c, kind)))
        /\ UNCHANGED <<failure, used>>
     \/ Settle(c, "settled", Final("error")) /\ UNCHANGED <<failure, used>>
     \/ /\ Spend("failures") /\ failure' = TRUE
        /\ Settle(c, "rejected", outcome[c])
  /\ UNCHANGED <<log, quiet, invoked, durable>>

(***************************************************************************)
(* commitReady: results enter the log in model order.                      *)
(***************************************************************************)
\* A plausible bug: any filled slot is committed.
AnyReadyBug == {c \in 1..started : stage[c] = "settled"}

Ready == {c \in {Next1} : c <= started /\ stage[c] = "settled"}

\* The result event, then the context it carries, staged for the next step.
AppendResult(c, kind) ==
  /\ log' = log \o <<ToolResult(1, 1, c, kind)>>
                \o (IF c \in Deferring
                    THEN <<Spliced("next-step",
                                   Len(ReplayInbox(log)["next-step"]), 0, <<c>>,
                                   FALSE)>>
                    ELSE <<>>)
  /\ concluded' = (concluded \/ (kind = "ok" /\ c \in Concluding))
  /\ committed' = committed + 1
  /\ stage' = [stage EXCEPT ![c] = "over"]
  /\ outcome' = [outcome EXCEPT ![c] = Final(kind)]

Resume == pc = "resume" /\ ~failure /\ Goto("commit")

\* finish: no post-execute, the slot is committed at once.
CommitFinal ==
  /\ pc = "commit"
  /\ \E c \in Ready : ~outcome[c].post /\ AppendResult(c, outcome[c].kind)
  /\ UNCHANGED <<pc, aborted, pool, started, inFlight, failure, invoked,
                 startedAs, safe, signal, durable, used>>

StartFinalize ==
  pc = "commit" /\ (\E c \in Ready : outcome[c].post) /\ Goto("finalizing")

\* post-execute accepts the result, or blocks it or throws.
Finalize ==
  /\ pc = "finalizing" /\ pc' = "commit"
  /\ \E c \in Ready : \E kind \in {outcome[c].kind, "error"} :
       AppendResult(c, Superseded(c, kind))
  /\ UNCHANGED <<aborted, pool, started, inFlight, failure, invoked, startedAs,
                 safe, signal, durable, used>>

CommittedReady == pc = "commit" /\ Ready = {} /\ Goto("pause")

\* Both callers of commitReady go on to check the failure, read the signal
\* and fill the pool, in one synchronous stretch.
Refill ==
  /\ pc = "pause" /\ ~failure
  /\ aborted' = (aborted \/ signal)
  /\ pc' = "fill"
  /\ UNCHANGED <<log, pool, started, committed, inFlight, failure, calls, world>>

(***************************************************************************)
(* runGroup's main loop, its endings and its catch block.                  *)
(***************************************************************************)
AwaitPool == pc = "fill" /\ ~MayStart /\ inFlight # {} /\ Goto("drain")

\* A plausible bug: the raced call stays in the pool.
UndeletedRaceBug ==
  pc = "drain" /\ (\E c \in inFlight : ~Active(c)) /\ Goto("resume")

Race ==
  /\ pc = "drain"
  /\ \E c \in inFlight : ~Active(c) /\ inFlight' = inFlight \ {c}
  /\ pc' = "resume"
  /\ UNCHANGED <<log, aborted, pool, started, committed, failure, calls, world>>

\* The group is over: the next one, or an impossible uncommitted result.
CloseGroup ==
  /\ pc = "fill" /\ ~MayStart /\ inFlight = {} /\ ~aborted
  /\ Goto(IF committed = started THEN "group" ELSE "failed")

Skipped == (started + 1)..N

\* A plausible bug: the synthetic result has no call to answer.
ResultOnlyBug(c) == <<ToolResult(1, 1, c, "ABORTED_BEFORE_DISPATCH")>>

SkippedPair(c) ==
  <<ToolCall(1, 1, c), ToolResult(1, 1, c, "ABORTED_BEFORE_DISPATCH")>>

\* The group was aborted: a call/result pair for every call not started, in
\* this group (runGroup) and after it (executeToolCalls).
SkipRest ==
  /\ pc = "fill" /\ ~MayStart /\ inFlight = {} /\ aborted
  /\ log' = log \o FlattenSeq([i \in 1..Cardinality(Skipped) |->
                                  SkippedPair(started + i)])
  /\ stage' = [c \in Calls |-> IF c \in Skipped THEN "over" ELSE stage[c]]
  /\ pc' = "done"
  /\ UNCHANGED <<group, invoked, outcome, startedAs, world>>

\* prepare, finalize, finish or an append throws.
Throws ==
  /\ pc \in {"called", "preparing", "commit", "finalizing"} /\ Spend("failures")
  /\ failure' = TRUE /\ pc' = "failing"
  /\ UNCHANGED <<log, aborted, pool, started, committed, inFlight, calls, safe,
                 signal, concluded, durable>>

\* throwSchedulerFailure, where the scheduler resumes from an await.
Rethrows ==
  pc \in {"prepared", "resume", "pause"} /\ failure /\ Goto("failing")

\* A plausible bug: the failure surfaces before its siblings have settled.
NoDrainBug == pc = "failing" /\ Goto("failed")

\* Promise.allSettled, then the first failure is rethrown.
Drain ==
  pc = "failing" /\ (\A c \in inFlight : ~Active(c)) /\ Goto("failed")

Dispatched(c) ==
  /\ pc # "fill"
  /\ Flushed(c) \/ BodyStarts(c) \/ BodySettles(c) \/ DispatchSettles(c)

Scheduler ==
  \/ OpenGroup \/ AllStarted \/ StartCall \/ EnterPrepare \/ PrepareSettles
  \/ Prepared \/ Resume \/ CommitFinal \/ StartFinalize \/ Finalize
  \/ CommittedReady \/ Refill \/ AwaitPool \/ Race \/ CloseGroup \/ SkipRest
  \/ Rethrows \/ Drain

Settled == pc \in {"done", "failed"} /\ UNCHANGED vars

SchedulerNext ==
  \/ Cancel \/ Register \/ Throws \/ Scheduler \/ Settled
  \/ \E c \in Calls : Dispatched(c) \/ Retry(c)
SchedulerSpec == SchedulerInit /\ [][SchedulerNext]_vars

\* Every hook, approval, checkpoint and tool body eventually settles.
FairSchedulerSpec ==
  SchedulerSpec /\ WF_vars(Scheduler) /\ \A c \in Calls : WF_vars(Dispatched(c))

(***************************************************************************)
(* Properties.                                                             *)
(***************************************************************************)
At(type) == {i \in 1..Len(log) : log[i].type = type}
CallsOf(type) == {log[i].call : i \in At(type)}
InModelOrder(type) == \A i, j \in At(type) : i < j => log[i].call < log[j].call

\* Results and the contexts they carry enter the log in model order whatever
\* order the bodies settle in, none is left out and none comes twice; and when
\* executeToolCalls has returned, every tool call of the message has exactly one
\* call event and one result, aborted or not.
StepAccounted ==
  LET staged == ReplayInbox(log)["next-step"]
  IN  /\ InModelOrder("tool/call") /\ InModelOrder("tool/result")
      /\ CallsOf("tool/result") = IF pc = "done" THEN Calls ELSE 1..committed
      /\ \A i, j \in 1..Len(staged) : i < j => staged[i] < staged[j]
      /\ ToSet(staged) = Deferring \cap 1..committed
      /\ pc = "done" =>
           /\ CallsOf("tool/call") = Calls
           /\ concluded <=> \E i \in At("tool/result") :
                               log[i].call \in Concluding /\ log[i].error = "ok"

\* A call that was exclusive when it started never overlaps another dispatched
\* call, even when the registry changes while the pool is running.
ExclusiveAlone ==
  \A c, d \in Calls : Active(c) /\ Active(d) /\ c # d =>
    startedAs[c] /\ startedAs[d]

\* At most maxParallelToolCalls dispatched calls have not settled.
PoolBounded == Cardinality({c \in Calls : Active(c)}) <= MaxParallel

\* What the model is told of a cancelled call is true: a call reported as
\* aborted before dispatch never ran its body, one reported as aborted did.
CancelToldTruly ==
  \A i \in 1..Len(log) : log[i].type = "tool/result" =>
    /\ log[i].error = "ABORTED_BEFORE_DISPATCH" => ~invoked[log[i].call]
    /\ log[i].error = "ABORTED" => invoked[log[i].call]

\* After a crash at any point the repaired log has one result for each call of
\* the message, and a call whose body ran is never reported as not started
\* (which invites the model to run it again): the checkpoint wrapper stored
\* its tool/call first.
CrashToldTruly ==
  \A n \in Max({durable, Len(Opening)})..Len(log) :
    LET recovered == Recovered(SubSeq(log, 1, n))
        answers(c) == {i \in 1..Len(recovered) :
                         recovered[i].type = "tool/result" /\ recovered[i].call = c}
    IN  \A c \in Calls : \E i \in answers(c) :
          /\ answers(c) = {i}
          /\ invoked[c] => recovered[i].error # "TOOL_NOT_STARTED"

\* The call throws only for a scheduler failure, when every dispatched call has
\* settled: a group never ends with a started call it did not commit.
FailureDrains == pc = "failed" => failure /\ \A c \in Calls : ~Active(c)

\* Every append satisfies the relational rules of the session log.
AppendsAccepted == [][Extend]_log

\* Once the signal is aborted no further call is started.
AbortStopsStarts ==
  [][signal => \A c \in Calls : stage'[c] = "preparing" => stage[c] = stage'[c]]_vars

\* Once a scheduler failure is recorded no further call is dispatched.
FailureStopsDispatch ==
  [][failure => \A c \in Calls : stage'[c] = "flushing" => stage[c] = stage'[c]]_vars

\* The step's tool calls always come to an end.
ExecutionSettles == <>(pc \in {"done", "failed"})
=============================================================================
