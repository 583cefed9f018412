# TLA+ models of the agent harness

The harness runs LLM agents over event-sourced sessions. It is a set of
TypeScript plugins under `packages/`, composed by a small dependency-injection
framework; every agent owns one append-only session log, and everything an
agent remembers is a fold of that log. This directory holds TLA+ specifications
of the harness core, the TLC configurations that explore them and TLAPS proofs
of their most important invariants. Paths below are relative to the repository
root.

- [The system](#the-system): its parts, their state and how they interact
- [The modules](#the-modules): what each specification models and how
- [The runs](#the-runs): what is explored, with which bounds and fairness
- [The proofs](#the-proofs): what holds for every value of the constants
- [Findings](#findings)
- [What is not modelled](#what-is-not-modelled) and [the plan](#the-plan)

`PROJECT.json` lists the same things in machine-readable form: components,
runs, properties, the source lines behind each definition, hazards, theorems.

## Running

    tlc -workers 2 -config WriteBehind.cfg MCSessionWriteBehind
    tlc -workers 2 -config AgentLog.cfg    MCAgentDriver
    tlc -workers 2 -config ToolPool.cfg    MCToolScheduler
    tlc -workers 2 -config JsonlFile.cfg   MCJsonlLog
    tlc -workers 2 -config Coordinator.cfg MCPersistenceCoordinator
    tlc -workers 2 -config Subagent.cfg    MCSubagentContinuation
    tlc -workers 2 -config Schedule.cfg    MCSchedule
    tlapm SessionWriteBehindProofs.tla
    tlapm SessionLogProofs.tla
    tlapm AgentDriverProofs.tla
    tlapm ToolSchedulerProofs.tla
    tlapm JsonlLogProofs.tla
    tlapm SubagentContinuationProofs.tla
    tlapm PersistenceCoordinatorProofs.tla
    tlapm ScheduleProofs.tla

## The system

### Parts that carry the core logic

**Session log** (`core/session`). State: the event list of one session, the
derived surfaces (messages, headers). Operations: `append` validates, freezes
and publishes one event to observers; observers may not append in turn.
`invariant.ts` is a companion that traces the relational rules over turns,
steps and tool calls at every append; `repair.ts` computes the events that
close an interrupted log. Correct when no writer ever appends an event the
rules reject, and when any stored prefix can be closed into an acceptable log
that blames no call it should not.

**Agent driver** (`core/agent-loop/src/agent.ts`) and **inbox**
(`core/agent/src/inbox.ts`). State: a phase (idle, maintenance, running) with
its abort controller and wake latch, the open turn and step, two ordered queues
of messages (`next-turn`, `next-step`) that live in the log as splices.
Operations: `send` in its three forms (followup, steer, inject), `cancel` with
and without keeping the inbox, `runMaintenance`, `whenIdle`, and the driver
itself: turns, pre-step listeners, model requests, tools, endings. Correct when
no owed wake is lost, claimed work is accounted for and delivered once, an
aborted driver stops, and idleness is reached.

**Consumed-work fold** (`core/agent/src/consumed-work.ts`). A supervisor's
single pass over a child's log that answers which turn last did or took work
and whether accepted work was dropped since.

**Tool-call scheduler** (`core/agent-loop/src/tool-calls.ts`), **tool
execution** (`core/tools`) and **checkpoint policy**
(`session/session-checkpoint-policy`). State: the group being run, how many
calls were started and committed, the pool of dispatched calls, the slots of
settled results; per call, whether the body was invoked. Operations: classify,
prepare (hooks, approval, guards), dispatch (wrappers, checkpoint, body),
finalize, commit, skip, drain. Correct when results are committed in model
order, exclusive calls run alone, the pool is bounded, cancellation and crashes
are told truly to the model, and a failure leaves nothing running.

**Session write-behind** (`session/session-persistence/src/write-behind.ts`)
and the **persistence coordinator** around it (`coordinator.ts`). State: the
queue of events not yet stored, one timer, one active write, one flush barrier;
per identity a cursor into the stored log, its owner and a chain that
serializes operations. Operations: enqueue, deadline, write, flush,
initialization from an existing log, preparation of a resume, retirement.
Correct when nothing accepted is lost or reordered, `flush` means durable, and
one identity has one writer.

**Storage backends** (`session-persistence-jsonl`, `session-persistence-sqlite`,
`storage-*`). A file or a database behind the coordinator; the JSONL backend
appends, rolls failed appends back, publishes a first write atomically and
repairs torn tails.

**Subagents** (`subagent/subagent`): resident child activations, a lock and a
set of accepted deliveries per child, settlement notices to the parent, drain.
**Schedules** (`schedule/schedule`): durable reminders of a root agent. State:
the create, delete and dispatch events in its log; per live agent one owner with
a timer, a run, a coalesced request and an idle wait, and a queue that
serializes its drives with the management tools. Correct when a reminder is
queued once per life and its dispatch never precedes it, the model is told only
what is durable, and a due record is not forgotten. **Goals** (`goal/*`): a
drive loop of the same kind, with rounds reserved in advance. **Workflows and jobs** (`workflow/*`, `jobs/*`): background work with one
terminal outcome that several parties race for. **Interaction**
(`interaction/*`): approvals and questions, promises answered by a person.

### How they interact

- The driver calls the scheduler in a step; the scheduler calls back with the
  context messages that results carry, which become inbox splices.
- Driver, inbox and scheduler append to the session; the coordinator observes
  each append and enqueues a copy in the write-behind controller.
- The checkpoint policy calls `flush` before a model request and before a tool
  body: the only place where the core waits for durability.
- Resume reads the stored prefix, appends closers, replays the inbox and the
  last turn number from the log.
- Goals, schedules, compaction and subagents act on an agent through `send`,
  `cancel`, `runMaintenance` and `whenIdle` only.

### What is hard

Node runs one job at a time, so there are no data races. What is hard is what
may happen at an `await`, in an event listener or in an observer: messages,
cancels, edits and disposals land between any two of them; cached flags and
classifications are used after them; one of several concurrent operations
fails; timers, writes and flushes overlap; a crash keeps an arbitrary prefix of
what was appended. The hazards in `PROJECT.json` name these places line by line.

## The modules

| Module | Models |
| --- | --- |
| `DurableLog` | the promise of session persistence: an ordered durable prefix, and flush |
| `SessionWriteBehind` | `write-behind.ts` and its use by `coordinator.ts` |
| `SessionWriteBehindProofs` | invariants of the controller, and that it implements `DurableLog` |
| `SessionLog` | events, relational rules, crash closers, inbox replay, consumed-work fold; the contract `Spec` of every writer |
| `SessionLogProofs` | how the readers of a log answer an append, for logs of any length |
| `AgentDriver` | driver, inbox, cancellation, maintenance, disposal, crash and resume |
| `AgentDriverProofs` | control invariant, the wake protocol, the log of the driver, what becomes of its messages |
| `ToolScheduler` | tool-call scheduler, staged execution, checkpoint wrapper |
| `ToolSchedulerProofs` | barrier, pool bound, failure and abort; calls and results in the log, what they say, and what a crash leaves of it |
| `PersistenceCoordinator` | one identity under `coordinator.ts` and `preparations.ts`: operation chain, preparations, adoption, ownership, retirement |
| `PersistenceCoordinatorProofs` | one holder for every exclusive preparation; retired sessions let go |
| `JsonlLog` | the log file of `session-persistence-jsonl`: first write, append, rollback, scan, repair, stops |
| `JsonlLogProofs` | the file at every system call; acknowledged events survive, the cursor counts |
| `SubagentContinuation` | `subagent/subagent/src/continuation.ts`: activations, child lock, settlement, drains |
| `SubagentContinuationProofs` | types, ownership, settling and drain of that tree |
| `Schedule` | `schedule/schedule`: fold, live owner, management tools, transaction queue |
| `ScheduleProofs` | types, exclusive transactions, the owner's trigger, what replay accepts, reminders told once, answers from the durable log |
| `MC...` | instances for TLC |

`AgentDriver` and `ToolScheduler` both extend `SessionLog`. `SessionLog!Spec`
is the abstract writer of a log: extend it with acceptable events, or recover a
prefix of it. The driver is shown to implement it, crash included; the
scheduler is shown to extend the log acceptably. In the driver one tool call
stands for all the calls of a step; the scheduler is the detail of that call.

Operators whose name ends in `Bug` are single-fault variants of the definition
that follows them (a dropped guard, a missing reset, a swapped order). No
action uses them: they show that each property can tell the code from a
plausible mistake in it.

The three persistence modules are three levels of one path.
`SessionWriteBehind` is one live session's queue over an atomic store that may
fail; `PersistenceCoordinator` is the ledger of one identity over all its
sessions, with the queue reduced to the first event it retains and one write,
and the same atomic store; `JsonlLog` is what happens inside that store's calls.
In the same way `SubagentContinuation` takes the phase and inbox of an agent
from `AgentDriver`, and `Schedule` its phase and wake latch; its `stored` is
what `SessionWriteBehind` promises of `flush`.

### SessionWriteBehind

State maps one to one: `pending`, `timer`, `deadlineExpired` and
`automaticPaused` are the fields of that name; `stage` and `batch` are the
write behind `active` (`stored` and `restored` are the job in which the outcome
is known and `active` not yet cleared); `drain` is the program counter of
`drainBarrier`; `caller` that of each concurrent caller of
`coordinator.flush`. `armed` counts timers in the event loop, which
`clearTimeout` can only remove through the handle. Events are their sequence
numbers, so `durable` is the coordinator's cursor and the stored log at once.

Each action is one job of the event loop. `JobQueued` encodes the event loop's
rule that promise continuations run before timers and I/O completions; jobs
among themselves interleave freely, which allows more orders than Node does.
A write or the initialization may fail at any time. `Init` covers a session
whose log already holds a prefix of the seed, and one whose first event was
both seeded and enqueued.

### SessionLog

Pure operators over a sequence of events; each event record keeps the fields
some reader looks at. `validateEvent` and `applyTransition` are the invariant
companion, `scan` and `interruptedTurnClosers` the repair,
`SpliceAt`/`apply`/`ReplayInbox` the inbox, `consume`/`foldConsumedWork` the
supervisor's fold. Surfaces, usage, headers and chunks are left out: no rule
about turns, steps and calls reads them.

### AgentDriver

The variable `at` is the driver's place between two interruptible points; an
action runs from one to the next, with every append and phase change in
between. Foreign code runs only

- where the driver awaits (prompt assembly, listeners, the model, tools),
- in agent events it emits (`agent/error`, `agent/status`, inbox listeners),
- in observers of an append. These cannot append (`Session.append` rejects
  reentrancy), so at the places in `Observers` only a cancel is possible that
  keeps the inbox or finds nothing to clear.

An append is a place of its own where it matters what such a cancel meets:
behind `turn/start`, `step/end` and `turn/end`, between the two splices of a
claim (`claiming`), and behind `step/start` and each `user/message` with more to
come (`entered`). At the last two the code does not look at its signal: the
second splice (`PromptClaim`) and the remaining messages (`AppendMessage`) follow
whether the controller was aborted or not. Elsewhere appends of one run of code
are one action, since no property tells them apart: an assistant message and the
first tool call behind it, a tool result and the contexts it carries, the two
splices of a clearing cancel, the closers of a failed turn.

`call` models the gap in `send` between the inbox insertion, whose listeners
may cancel or start maintenance, and `wakeDriver`. `idled` is the place inside
`kick` where idle was published while the latch value already read is stale.
`abort` is the first reason of the current controller: later aborts do not
replace it. `CrashAndResume` keeps any prefix of the log, repairs it and
replays it.

Abstractions, each of which leaves the control intact: a message is a model
value; provider retries and stream chunks are stutter; a listener's verdict
(reject, enter with all, none or an added context, throw) is nondeterministic;
appends of the driver's own events succeed; a discarded message's listeners do
not send, between the two clearing splices of a cancel neither; prepending puts
in a message not seen before (the goal driver's restoration of a claimed one
belongs to the planned `GoalRoundDriver`). `owed` and `rewritten` are history
variables: waking messages that arrived behind an aborted activity or
maintenance, and messages a listener dropped on purpose.

### ToolScheduler

`pc` runs the scheduler from await to await; `stage[c]` is how far call `c`
is. Dispatched calls move independently of the scheduler, and of each other.
A cancel or a registry change lands anywhere except in the synchronous stretch
that checks `fillPool`'s condition. `Register` is limited to calls not yet
started: the mode of any other is never read again.

Hooks, approval and guards collapse to their outcomes: a thrown error (final),
a denial or cancellation (through post-execute), or dispatch. Wrappers around
the body may answer in its stead, replace the result by an error, throw, abort
through their own signal, or (bounded) retry. The checkpoint wrapper is the
outermost: `durable` is the lower bound a completed flush gives, the position
of the call's own `tool/call`. `Promise.race` picks any settled call, which is
more than JavaScript does. `Deferring` and `Concluding` fix which calls carry a
context message or conclude the turn. Scheduler failures stand for a stage or
an append that throws where the contract says it does not. Left out: the
contexts a call loses when post-execution blocks it or its pipeline fails
(`core/tools/src/index.ts:1605`, `:1756`), and a context message that is refused
after its result has been appended (`tool-calls.ts:156`).

### PersistenceCoordinator

`state` is `states.get(id)`, `entry` the entry of the pool of preparations,
`chain` the promise chain of `serialize`, its running operation first, and
`task` how far that one is. A caller's record is its program counter with the
local variables it keeps across awaits: the retirement it waits for, the
source it was shown, whether the entry it holds is still the one in the pool
(`same`), whether its signal has aborted. `session` holds every Session object
there has been under the identity: its log, whether persistence has initialized
it, the first event its queue retains, and its retirement. `floor` in a caller
is a history variable: how long the log was when the call came.

Operations: `inspect`, `prepare` and its two ends (publication and release;
`load` is a preparation that is always released), the public `append`,
creation, a hot reload that finds a session alive (an initial state), records
of a live session, its writes, disposal and retirement; `commitRepair` in its
two steps. Disturbances: a backend call fails, a signal aborts, an entry is
evicted, another process writes.

What is assumed, and where from:

- Another process writes only while this one tracks nothing of the identity and
  is not between a check and its effect. The coordinator excludes no other
  writer and the repository says so (`session-persistence/README.md:61`); its
  revision checks narrow the window, they do not close it.
- The public `append`, which checks no owner, is called for a cold identity, and
  no session is published before it is done (`Cold`, `NoAppendPending`). Nothing
  in `packages/` outside the tests calls it.
- Equal contents have equal revisions. A revision of the code also tells a file
  that was rewritten with the same content.
- The marker that ends a seed is one of the events that setup may append.

One difference is known: when a session reclaims an identity whose owner never
stored anything and that attempt collides or fails, the code has already
forgotten the old state (`coordinator.ts:1271`), where `Collides` keeps it.

### JsonlLog

A file is a sequence of units, the smallest thing a reader takes whole: lines
in the raw encoding, frames (one per append) in the compressed one, chosen in
the initial state. `units` is what any process reads, `synced` what the last
successful sync put on the disk; after the machine stops the file is the
latter, or any part of what was written since (`OnDisk`). `entry` is the name
in its directory: absent, published by `link`, or durable by the directory's
sync. One action is one system call; each may fail, a write may stop part of
the way, the process or the machine may stop between any two. `scanLog` is the
scanner: a torn line is discarded, complete lines of a torn frame are
recovered, a gap followed by the end of a turn is refused as corruption.
A write or a sync that fails is rolled back; a close that fails behind them is
not, although the append then fails as well (`closeFails`). `leftover` records
what left the lines of a live append behind, a failed rollback or a failed close.
Another handle that does not close counts as a failure of the call before it.
The several closing events of an interrupted turn are one.

### SubagentContinuation

A tree of children (`Parent`) under one root agent, which has no Activation and
is always live. `activation` is the manager's record of that name, plus the
program counter of its watcher (`watch`), the children its disposal waits for
and the renewed promise `poke` (`poked`). `lock` is `ChildLock`; a watcher in it
carries the epoch it belongs to. `Stored` children were left by an earlier
process and can be resumed cold. Messages are numbers; `accepted` is the
manager's account of those whose claim it has not seen.

An Agent keeps the parts of `AgentDriver` the manager looks at: phase, abort,
latch, both inboxes. `leaving` is the gap between the last look at the inbox
and idle. `dispose` follows the owned trees in the same step, as the code's
synchronous recursion does (`Below` is that recursion as a closure).

Reduced: the manager's `draining` flag and a host root's closing scope are one
(`Closing`), since every agent of the instance is below the one root; both
kinds of drain are there. A closing scope is not reopened. A report comes from a
running turn of the child. Notices to the root go to an agent outside the
model. A call that goes through a child comes from a task of its own, hence not
in the few microtasks between the creation of that child's Agent and what is
submitted to it (`ParentLive`, `Submitting`): the proof of
`NothingLostBySettling` showed that from three levels on the model otherwise
reaches states the program cannot. A handle whose own disposal throws, lifecycle observers, the folding of
descriptors and depth limits are left out.

### Schedule

`log` holds the `schedule/change` events and the queued reminders; `stored` is
how many are durable. A reminder names the occurrences it presents and, as
history, the life of the process that queued it. Records are what
`foldScheduleEvents` makes of the log (`Active`, one record at a time, by the
position of its creation, which is the order of the map);
a record whose target is `Over` is gone. Time is in ticks up to `Horizon`, the
last representable instant; the timer counts ticks while `Date.now()` may jump.

`status`, `timer`, `idleWait`, `requested` and `faulted` are the fields of
`ScheduleRuntime`, `run` its run promise together with the place inside
`driveOnce`: `returned` is the loop of `runRequested`, `ending` the gap before
`retire`. `chain` is the transaction queue, `call` the one management call in
progress (the tools are exclusive, so there is one at a time, inside a turn).
`lapsed` is history: the last drive ended in a failure the code contains without
rearming, documented as activity-driven retry. An action runs from one await to
the next: the maintenance job is synchronous, so message and dispatches are
appended in one step, or a refused append leaves the message and some of them.

Abstractions: a flush makes the whole log durable or fails (`FlushIsDurable`),
and the write-behind's own writes are covered because a crash may keep any
prefix at least as long as `stored`; disposal stops the owner before the
registries let the agent go, so `isLive` and `stopping` are one; what becomes of
a reminder once queued is `AgentDriver`'s, and a cancel may clear it (the end
of maintenance may find the wake gone). Left out: validation of arguments before
the queue, calendar arithmetic and framing, the seed of a forked log, corrupt
logs, and an initiator scope that throws. Two more failures are contained as the
one of a flush is, without rearming, and are not in the model: a decision that
throws (`runtime.ts:221`, a fixed-rate target outside the range of dates, which
`Horizon` excludes) and an idle wait that is rejected (`runtime.ts:196`, though
`whenIdle` of the driver modelled here never is).

## The runs

| Run | Question | Instance | Distinct states |
| --- | --- | --- | --- |
| `WriteBehind` | does the controller lose, reorder or strand events; is a resolved flush durable; does everything settle | 4 events, 2 flush callers | 37 thousand |
| `AgentLog` | are owed wakes honoured; one prompt per turn; is claimed work accounted for and delivered once, and the consumed-work fold exact; does an abort stop work; is the log acceptable through crash and resume | 2 messages; 1 cancel, 1 edit and 1 maintenance task, or 1 cancel, 1 tool step and 1 crash | 701 thousand |
| `AgentLiveness` | do aborts converge, latches replay and disposal settle | 2 messages; 1 cancel, 1 disposal | 237 thousand |
| `AgentDisposal` | does disposal never latch a wake | as `AgentLiveness` | violated |
| `ToolPool` | order, barriers, bound, and truthful results under cancellation, registry changes and a crash anywhere | 3 calls, pool of 2, every initial mix of modes, 1 registry change | 1.6 million |
| `ToolFailure` | does one failing stage stop and drain its siblings; does the step always end | 2 calls, pool of 2, 1 failure, 1 retry, 1 registry change | 269 thousand |
| `ToolRetry` | is a retried call's cancellation told truly | 2 calls, 1 retry | violated |
| `JsonlFile` | does what was acknowledged survive; does the file match the cursor; does repair end | 3 events, both encodings; 2 failed calls, 1 failed rollback or close, 1 stop of the process, 1 of the machine | 313 thousand |
| `JsonlEntry` | is an acknowledged batch durable, name included | as `JsonlFile`, 4 events | violated |
| `Coordinator` | do cursor, stored log and owner agree; are reservations exclusive and ended; is inspection fresh; does everything settle | 2 callers (one resumes, one does anything), 2 sessions, 2 events, 2 calls, 2 disturbances | 1.2 million |
| `Subagent` | does settling lose a message or a parent; does a drain release everything; does every call return | a child and its child, 2 callers, 3 calls or reports, 1 disturbance | 656 thousand |
| `Schedule` | is a reminder queued once; does the owner keep a trigger; is what the model is told durable; are due records queued | 3 rules (next tick, last instant, every tick), horizon 3, timer segments of 1; 2 calls, 2 turns, 1 failure, or 1 call, 1 turn, 2 failures | 335 thousand |

### Bounds and why they are enough

`MaxEvents = 4`: a write in flight, a failed batch restored in front of a newer
event and one more enqueued behind a barrier need three events; the fourth lets
a new window begin. Two callers: one opens a barrier, the other joins it, or
comes between its jobs.

Two messages: one claimed while the other is queued, in either queue, is what
the claim rules and the latch distinguish; a tool's context message and a
prompt, or two prompts, are covered. `Limit`, or in `AgentDriver` and `Schedule`
a set of alternative `Mixes`, bounds each kind of disturbance (named in `Kinds`)
over a behaviour, so that runs mix two or three kinds exhaustively instead of
all of them partially. One cancel is the interesting
case, since a controller keeps the first reason; with a disposal there are two.
One crash: recovery restarts from a log alone, so a second crash starts from a
state the first already reaches. The number of turns is bounded by the messages
and the tool steps.

Three calls through a pool of two: the third waits for a slot and can become a
barrier, or be skipped, behind two running ones. One registry change is enough
to move a call between the two classes after the group was opened. The crash
property is an invariant over every prefix at or past `durable`, so no crash
bound is needed.

`JsonlFile`: a batch of two events makes a frame of which only the first event
can be read, and a third event appends behind it. Two failures are one for a
write and one inside the repair of what it left; one stop of the process and
one of the machine come in either order. One rollback or close that fails ends
what is promised, so a second would add nothing. The violation of `JsonlEntry`
needs a fourth event because the first run's closer takes a place in the log.

`Coordinator`: a reservation and one competitor are the interesting case of a
pool whose entries are exclusive; the second session under the identity meets
the retirement of the first. Two disturbances let a repair fail and a foreign
write make the reload stale, or an abort meet an eviction. A log of two events
has a stored part and a part that is only in memory; closers and foreign writes
lengthen it.

`Subagent`: two levels are the least at which a child is both owned and an
owner. Three calls start or resume both and send one more message, or send a
report; one failure, abort, interrupt or maintenance may come anywhere between.

`Schedule`: three instants hold a record that comes due, one that is overdue
behind it, and a fixed-rate target past the horizon; a segment of one tick makes
every longer wait be taken in several. Two calls are two records or a record and
its deletion; two failures are a refused append or a failed flush and the crash
after it.

Agent, persistence, subagent and schedule runs switch deadlock detection off: an
agent that has nothing to do, a controller with nothing queued, a tree of
settled children and an owner without records really are quiescent. The tool
scheduler's runs keep it on; a settled step stutters explicitly.

### Fairness

Weak fairness only. For the controller: queued jobs run, an armed timer fires,
and initialization and each write settle one way or the other (backends reject
rather than hang). Nobody is assumed to append or flush. For the driver:
`Driver`, `WakeDriver`, `EndMaintenance` and `Drained` are continuations the
event loop runs once their awaits settle; the code awaits every hook, stream,
tool and task, and offers no progress without it. Sending, cancelling,
disposing and crashing are unfair. For the scheduler: its own continuations,
and each dispatched call, because the code never abandons a started body. For
file, coordinator, subagents and schedules one weak fairness over all that is under way
(`Writer`, `Loader`, `Progress`): system calls return, promises continue, a
holder of a reservation publishes or gives up, turns and maintenance end, time
passes. That
is enough because each such step brings an operation nearer to its end, in
whatever order they are taken; calls, faults, evictions and drains are unfair,
and so is the start of a turn: unbounded outside activity could starve a
reminder, which the code does not prevent.

### Properties worth a word

- `NoEventLost`, `NotStranded`: the events in memory are always the newest
  ones and continue or overlap the stored log; retained events always have
  something that will write them, with the two documented exceptions (automatic
  retry paused by a failure, failed initialization).
- `OwedWakeRuns`: an idle agent owes no wake. Its scope is a message sent while
  the activity was aborted or under maintenance. A waking message sent in the
  last gap of a normal exit may stay parked; the repository documents that gap
  (`packages/core/agent-loop/README.md`), and no property claims otherwise.
- `AbortStopsWork`: a driver's controller may be aborted between two appends of
  one run of code, and that run is finished: the prompt is claimed right behind
  the steering, the messages of a step are appended right behind its
  `step/start`. The property allows these by their position in the log, and
  nothing else; that the turn then owns up to what it took is
  `ClaimsAccounted`. It says nothing of tool calls, which the scheduler's
  `AbortStopsStarts` is about.
- `ClaimsAccounted`: a message claimed from the inbox becomes a user message,
  was dropped by a listener, or its turn does not end as completed.
- `ConsumedWorkAgrees`: the single-pass fold equals its definition by
  quantifiers over the whole log.
- `CancelToldTruly`, `CrashToldTruly`: what the model reads about a cancelled
  or crashed call agrees with whether its body ran. The first holds without
  retrying wrappers and fails with one (see Findings).
- `LedgerAgrees`: what the coordinator counts as stored is the stored log, which
  is a prefix of its owner's log, and the owner's queue continues it. It is what
  makes a blind append at the cursor safe. Two lags are part of the code: a
  cursor without an owner may be behind after a failed reload, and a session
  under initialization has nothing queued yet.
- `RetiredLetsGo`: an identity stays owned by a disposed session only while
  events of it are still unsaved, or when it could never be initialized. That
  such an identity is then lost to the process is the code's intent.
- `AckedSurvive` is about every file the disk may hold at any moment, so it
  covers a stop at any point, after the run's own bound on stops too.
- `CursorMatchesFile` excepts by name three states: a rollback that failed, in
  which the code itself gives up; a first write that was published but not
  acknowledged, which every retry refuses; and an append that was written but
  whose handle did not close, which the code rolls back no more than it counts
  it (see Findings). `AckedSurvive` excepts the first and the last, too.
- `NothingLostBySettling` is about the decision in the lock; `AllSettled` about
  the promise the watcher took before it looked. An Agent that an interrupt or a
  failure leaves with unclaimed messages keeps its Activation, and its owners
  theirs: `Parked` excepts it, as the code does.
- `RemindedOnce`: across appends, crashes and refused appends, no dispatch stands
  in the log without its reminder, and an occurrence is queued again only by a
  later life that found its dispatch missing. A crash between the two repeats a
  reminder, which the code accepts; the other order would lose it.
- `ToldIsDurable`: an answer other than an error agrees with the fold of the
  durable log, and a reminder is queued only from durable records.
- `TriggerKept` and `DueIsQueued` are one promise at two strengths: the owner
  always has a timer, a wait or a request, and due records are therefore queued.
  Both except an owner that is stopping, faulted, or left by a contained failure
  to later activity (`schedule/README.md`, "Activity-driven retry").
- `ExclusiveAlone` is about the mode a call had when it was started, which is
  all the scheduler can promise: between start and dispatch come awaits.

## The proofs

TLAPS proves the following for every value of the constants (any number of
events, callers, messages, calls, any pool bound, any limits).

**SessionWriteBehindProofs.** `IInv` is `TypeOK`, `NoEventLost`, `OneTimer`,
`FlushIsDurable` and `NotStranded` strengthened by three facts: `Ordered` (the
counters relate: what is stored or seeded never exceeds what was accepted),
`Jobs` (which program counters can be combined: a drain awaiting a write has a
write in flight, and so on) and `Waiting` (a caller behind a barrier asked for
no more than what memory and the stored log hold together). `NoEventLost` needs
`Ordered` because a successful write appends only the fresh suffix of its
batch (`FreshIsSuffix`, `WriteEffect`); `FlushIsDurable` needs `Waiting`
because the barrier resolves on an empty queue. From `IInv` follow
`TypeCorrect`, `QueueCorrect`, `FlushCorrect`, `NothingStranded`,
`TimerCorrect`, the action property `OneWriterCorrect`, and `Refinement`: every
job of the controller is a step of `DurableLog` or invisible to it.

**AgentDriverProofs.** `WakeInv` is `ControlOK` and `WakeOK`: while owed
messages exist, the wake is latched, or has been read by `kick` and awaits
replay, or its sender stands between insertion and `wakeDriver`; and nothing is
owed once disposal has aborted the controller or the agent is idle.
`OwedWakeRuns` is not inductive by itself since a wake moves through those
three places. `ControlCorrect` and `OwedWakeCorrect` follow.

The second part is the refinement `LogCorrect` (`ImplementsSessionLog`). Since a
crash keeps any prefix of the log, what is said of the log is said of every
prefix of it: `Lawful` is a log of accepted events whose three readers agree at
each position, the trace of the rules, the cursor of the repair and the last
turn (`Agree`: a turn or step open for one is open for the others, and the one
call the repair would answer is the one the trace awaits, if it had started).
One lemma per kind of event extends a lawful log (`TurnStarts`, `StepReplies`,
`CallEnds`, ...); `RepairLawful` says that the closers of a lawful log do, too,
and leave no turn open. `LogInv` ties the driver to it: `NowAt` says what is
open at each of the driver's places, and the live inbox is the replayed one.
That last part is `SpliceLogged`: leaving out a splice that changes nothing
loses nothing. Each action then moves the log as one of these lemmas says.
`AbortCorrect` (`AbortStopsWork`) looks at what the actions append while the
controller is aborted. What the property allows it allows by position, so the
proof needs `TailInv`: at `claiming` the log ends with the claim of the
steering, at `entered` with a `step/start` or a `user/message`; a cancel at
these places appends nothing, and they are the only ones from which an aborted
driver claims or shows a message.

The third part is about messages. `Fine` says of a log what its writers keep to:
a message pends in one place only, was given to the inbox and is not yet shown
(`Owned`), what is said of a turn is said of one that began, and a settled turn
is not the open one (`Past`), a settled turn accounts for what it took
(`Account`), a turn takes one prompt (`Prompts`), a message is shown once, by the
turn that took it and after it did (`Delivery`), and each splice was placed
within the list it edited, each claim in an open turn (`Placing`). It, too, is
said of every prefix (`Told`), for the sake of crashes. `Proper` is what an event must satisfy of the log it is
appended to, and `ToldAppend` proves that it is enough, one conjunct of `Fine`
at a time. `WorkOK` is the driver's side: the messages claimed and not yet
presented are each once in `batch`, pend no more, are not yet shown and were
taken by the open turn, between the two splices of a claim as well as between
two messages of a step; a turn that has not come to its prompt has taken none
(`Unprompted`); all
that the open turn took is in hand, shown or rewritten. Each of the three
properties needs the others' parts: a message is not shown twice because no
message that was ever given to the inbox is given again, and a claim takes what
pends. `PromptCorrect` (`TurnOwnsPrompt`), `DeliveryCorrect` (`DeliveredOnce`)
and `AccountCorrect` (`ClaimsAccounted`) follow from `LogInv` and `WorkInv`.

`ConsumedWorkCorrect` (`ConsumedWorkAgrees`) is about `foldConsumedWork`, a
single pass that forgets a turn once it has settled. `WorkAgrees` says of a log
that the pass knows of the open turn what the log says of it (`Knows`) and has
the ending of the last turn that worked, with the drops behind it
(`LastWorked`); it is kept because the rules let nothing be said of a turn that
has ended (`Begun`) and a claim is made in an open turn only (`Placing`), where
the pass ignores the others. It is proved for every such log, so for every log
the driver leaves behind.

**ToolSchedulerProofs.** `SchedulerInv` relates the counters, the pool and the
stages: `GroupOK` (the pool lies within the open group and every member of a
parallel one was started as parallel), `BoundOK`, `StageOK` (an active call is
in flight; uncommitted started calls are beyond planning), `AbortOK` (the
cached flag is current where it is tested) and `FailureOK` (a failure is
noticed at the next resumption; without one the first uncommitted call is still
to be raced, which is why the guard against uncommitted results is unreachable).
`BarrierCorrect`, `PoolCorrect`, `DrainCorrect`, `AbortCorrect` and
`FailureCorrect` follow. (`PoolCorrect`, `FailureCorrect`, the types and the
controller's `TimerCorrect` and `OneWriterCorrect` are proved only; no run
repeats them.)

The second part is about the log. `LogInv` adds `LogOK` (the log is that of one
open step with the calls up to `started` and the results up to `committed`, each
once and in model order; the trace of the relational rules awaits exactly the
results between the two; the staged contexts are those of the committed calls,
in order), `ConcludedOK` and `ToldOK` (what a slot or a result says against
whether the body ran, by stage). `StepCorrect` (`StepAccounted`),
`AcceptedCorrect` (`AppendsAccepted`), `AbortedRan` and `ToldCorrect`
(`CancelToldTruly`) follow. `ToldCorrect` assumes that no wrapper delegates
twice (`Limit["retries"] = 0`); the run `ToolRetry` shows that it must. Its half
about `ABORTED`, `AbortedRan`, needs no such assumption.

The third part is about a crash. `CrashInv` adds `Opened` (after the opening of
the step the log holds call, result and splice events only, each accepted by the
rules) and `DurableOK` (a call past its checkpoint has its call event in the
stored part of the log). `CutAnywhere` reads the log event by event: wherever it
is cut behind the opening, it holds the results of calls `1..r` and the call
events of `1..s` with `r <= s`, the rules await `r+1..s`, and the repair's cursor
lists exactly `r+1..N`, marked started up to `s` (`Cut`). Model order, the
numbering of the whole log and the acceptance by the rules together leave each
next event no other choice (`CutNext`). `RepairShape` then says what the closers
append and `RepairTruth` that each call is answered once; a call whose body ran
is stored, so it is among `1..s`. `CheckpointCorrect` and `CrashCorrect`
(`CrashToldTruly`) follow. `RepairAccepted` adds that the rules accept every
closer, wherever the cut was: a result for a call without a call event passes
only because it says that the call was not started.

**SessionLogProofs.** The lemmas behind it: the trace, the acceptance by the
rules, the replayed inbox and a flattening each answer an append as their
recursive definitions say, for logs of any length. They are statements about
recursive functions over the positions of a sequence, proved by induction in the
form "a set of naturals that holds 0 and is closed under + 1 is all of them"
(`NatSetInduction`, from the well-foundedness of `<`).

**SubagentContinuationProofs.** For every tree of children, any callers and any
number of messages and disturbances. `IInv` is `TypeOK`, `LockOK` and `TreeInv`.
`TreeInv` is `OwnerOK` (a child is owned by its parent only, while both are
resident; it is announced only once owned), `StageOK` (a disposal waits for
every owned child and every owned child is being disposed; past the wait nothing
is owned) and `LiveOK` (the registered Agents are those of Activations not yet
released). `ParentOutlivesChild` is not inductive: a caller creates the child,
hands it to its owner and announces it in steps of its own, relying on the lock
in between; `LockOK` says who holds it and what that reserves. Instead of
proving each action against each conjunct, every action is shown to be one of
six effects on the tree (it leaves it alone, opens subtrees, advances a
disposal, removes, publishes or submits a child), and each effect preserves
`TreeInv`; likewise a step is either taken by no caller (`Quiet`) or is one
caller's own (`Own`), and both preserve `LockOK`. `SubagentsTyped` and
`OwnershipCorrect` follow.

`DrainCorrect` (`DrainReleasesAll`) needs more: a drain looks once at what is
resident, then waits for the calls under way and for the roots it saw. `DrainOK`
says that from its look on every resident child is a root it waits for, is owned
by a resident parent, or is being undone by the very caller that made it and for
whom the barrier waits; so when the roots are gone a child left over would have
a resident parent, and that one a resident parent, without end. This is where
the tree must be well-founded.

`SettlingCorrect` (`NothingLostBySettling`) is about the messages. The watcher
looks at the account and at the children, never at the inbox, so `LossOK` must
say that these cover it: outside a closing, every message that would open a turn
is on the account, and so is some message, or there is an announced child still
owned, whenever steering is pending (`HeldOK`). A quiet report is on no account;
it is its sender that keeps the parent, and the sender's notice, accounted,
takes over in the very step that ends the ownership. That takes inboxes whose
messages have each one place and are no newer than the last one sent (`BoxOK`),
an announced parent above every announced child and none of them rolled back
(`KnownOK`), a caller that was sent by an announced parent (`AskedOK`), and an
Agent at rest between its creation and its first message (`MakerOK`). Each
action does one of five things to the messages of an Activation (`Mailed`: it
leaves, takes, hears or overhears them, or makes a new one); `PostKeeps` shows
once that all of them keep `LossOK`. `ClosesByDecision` then tells the watcher's
decision from every other step that opens a disposal.

**JsonlLogProofs.** For logs of any length, both encodings, any number of failed
calls, rollbacks, closes and stops. The invariant, which stands until an append
of a live session leaves lines behind (`leftover`: its rollback or its close has
failed, and the properties promise nothing from there on), is
`FileInv`: every file is a run of whole units that continue each other with at
most one torn unit behind (`Shape`), the file and its synced form agree on a
stretch of sound units that holds what was acknowledged (`Safe`), and the file
is at each system call of `materialize`, `appendLines` and `commitRepair` what
that call relies on (`Placed`, `Counted`). `Safe` is why a stop of the machine,
which keeps any part of the unsynced tail, loses nothing: the stretch is in
every file that can be on the disk. `FileCorrect`, `AckedCorrect`
(`AckedSurvive`) and `CursorCorrect` (`CursorMatchesFile`) follow.

**PersistenceCoordinatorProofs.** For any callers, any number of sessions,
events, calls and disturbances. `HasOneHolder` is not inductive: a reservation
changes hands between a pool entry, a caller and an operation in the chain.
`IInv` adds the fields of the records (`Formed`), that whoever is committing or
holding is known by the entry's phase and shares no entry otherwise (`PoolOK`),
that each operation queued for a caller finds it where it waits, one per caller,
or called away by its signal (`ChainOK`), and that a commit that has started
keeps its caller while a running append lets nothing become reserved (`TaskOK`:
appends and commits share the chain). Each action is shown to be one of four
effects on the pool (it rests, empties, opens or closes), one of three on the
chain and one of three on the running operation. The logs play no part so far.
`ReservationsCorrect` follows. `LifeInv` continues it to the sessions: only the
youngest can be current (`LivesOK`), and each session has at most one operation
in the chain, which finds it as it was when it was queued (`JobsOK`: a seed not
initialized, a batch that is what the controller retains, a release awaited).
From it `OperationsCorrect` and `RetirementCorrect` (`RetiredLetsGo`).

`LedgerCorrect` (`LedgerAgrees`) is about what the logs hold, and `CountsInv` is
its invariant. What was read is a beginning of what is stored, and a commit that
lost its entry was overtaken by an append (`ReadOK`); what is counted is stored
(`CountOK`), and the owner's log continues it (`OwnerOK`). That an abandoned
owner may be displaced, or a release may forget one, takes `WorkOK`: an
initialized session that may still write is the owner. A session's own events
are in no log but its own until it has stored them (`HeardOK`), and a waiting
seed begins with such events or finds nothing tracked (`SeedsOK`); so no such
session claims the ledger another one's `load` left without an owner
(`NothingClaimed`: the claim in `onCreated` succeeds only behind the public
`create`, which is not modelled, or for a seed copied from the store, which
`Create` does not offer; those two cases are outside this theorem). The rest is
order: initializations queue in the order of births, and no younger session has
come and gone before one that waits (`OrderOK`); a published seed waits under
its owner's name, and no one owns or is about to own the identity while an
append waits (`ClaimsOK`: what the model assumes of the callers of `append` when
they call is shown to last until they are done); and each step of an operation
finds what it relies on (`StepsOK`). The lemmas about logs (prefixes, stretches,
who wrote what) are proved first, then how each variable moves in any step
(`CallersCarry`, `LogsMove`, `StoreMove`, `StatesMove`, `ChainsMove`,
`Positions`), and from these, one conjunct at a time, that `CountsInv` is kept.

`InspectionCorrect` (`InspectionIsFresh`) follows a caller from its call to its
view. `FreshInv` adds to `LifeInv` what was read (`ReadOK`), that whoever shares
an entry that is being read waits for that same read (`LoadOK`), so that an
entry which outlives the check can only be kept by a reservation, and that the
stored log is never shorter than when the caller came (`FloorOK`): it only
grows. `CallersViewed` shows that nothing but the check itself ends a check.

**ScheduleProofs.** For any rules, horizon, timer bound and mixes. `IInv` is
`TypeOK`, `ChainOK` and `TriggerKept`; the log stays opaque for it. `ChainOK`
says that the queue holds exactly the drive and the call in progress, and that
the one past its start is in front; `TransactionsCorrect` (no two transactions
between preflight and barrier) follows from it, and so does the type of the
queue, since every `Tail` is taken of a queue that is not empty. `TriggerKept`
is inductive given the types: each way out of a drive arms, waits, lapses, or
finds a request (`RequestTrigger`). `ScheduleTyped` and `TriggerCorrect` follow.

The second half opens the log. `AcceptedFolds` is the fact about replay: whatever
log `foldScheduleEvents` accepts folds to records whose ids are distinct, and an
active record stands past every occurrence that was dispatched of it (`FoldOK`).
It is proved by induction over the prefixes of the log, for which the library's
well-founded induction, stated for sets, serves (`NatSetInduction`); the replay of
a record is a recursive function, so its next value is the last one `changed`
(`ReplayedAppend`). `BatchAccepted` does the same along a batch: each dispatch
finds its record as it was chosen, because a batch names no record twice.
`RInv` then needs, beside `RemindedOnce`, that the reminders of this life are all
recorded unless an append was refused (`LivesOK`), that a faulted owner never
drives again (`FaultOK`), and what a call in its barrier has appended (`CallOK`,
which `TransactionsCorrect` protects: no drive appends while it waits).
`RemindersCorrect`: a new occurrence is at or after the target of an active
record, which is past all that was dispatched of it, so no dispatch of the log
records it, and a reminder of this life that named it would be recorded.
`ToldCorrect` (`ToldIsDurable`): every answer is folded from a log that its own
flush has just made durable.

Assumptions: the named `ASSUME`s of the modules. They are naturals, a positive
pool bound, limits that are functions into the naturals, room for at least one
session (`MaxLives`: an initial state of the coordinator has one), and parents
without a cycle (`TreeAssumption`: a child is created by an agent that exists).
`ToldCorrect` of the scheduler alone has a hypothesis of its own, named above.

Only model-checked: the liveness properties (`FlushSettles`, `EventuallyDurable`,
`AbortConverges`, `LatchReplays`, `DisposeSettles`, `ExecutionSettles`,
`LoadEnds`, `AllSettle`, `AllSettled`, `DueIsQueued`), since temporal reasoning
under fairness is outside what the provers do here. Every other property a
passing run checks is stated by a theorem.

## Findings

1. **Disposal can latch a wake** (`AgentDisposal`). `wakeDriver` consults the
   first abort reason. After a user cancel, `dispose()` cannot replace the
   reason, so a waking message sent during teardown sets the latch, and `kick`
   replays it: `dispose` waits for a whole model turn.
   `packages/core/agent-loop/src/agent.ts:176` says "disposal never latches, so
   teardown waits on no model turn". `DisposeSettles` shows that teardown still
   ends.
2. **A retried call can be reported as never dispatched** (`ToolRetry`).
   `dispatchToolBody` answers an aborted signal at entry with
   `ABORTED_BEFORE_DISPATCH` without asking whether an earlier attempt ran the
   body. `packages/core/tools/src/index.ts:475` defines the code as
   "cancellation before a tool body was invoked", and
   `packages/core/tools/README.md:58` names retry among the uses of a wrapper.

3. **An acknowledged batch may not be durable** (`JsonlEntry`). The first write
   links the log to its name and then syncs the directory. When the process
   stops between the two, the next run loads the published log and appends to
   it; those appends sync the file, never its directory. `appendBatch` returns,
   and a later stop of the machine may lose the name and the acknowledged events
   with it. `coordinator.ts:182` says "Returns once the batch is durable", and
   `session-persistence/README.md:32` "`append` returns only once the batch is
   durable".

One document is behind the code without a run of its own:
`packages/subagent/subagent/README.md:150` says a waking follow-up accepted
while an interrupt converges stays queued until another send. The driver latches
and replays it (`agent.ts:113-120`, `agent.ts:210-223`), and both
`AgentDriver` and `SubagentContinuation` follow the code.

**A close that fails** has no run of its own either. `appendLines` closes its
handle in a `finally` outside the part that rolls back
(`session-persistence-jsonl/src/index.ts:676`). When the close is rejected after
write and sync have succeeded, the append fails, its lines stay in the file and
the cursor does not count them. The batch is retained and written again, with
newer events behind it, and that append returns; but the file now holds sequence
numbers twice, the scanner stops at the first repeated one, and a load cuts off
or refuses what lies behind it. The comment on `appendLines` (`index.ts:647`)
names the danger, "leaving partial bytes would create duplicate sequence
numbers", for the failures it does roll back. The step is in the model
(`closeFails`): were "close" not a member of `leftover` behind it,
`CursorMatchesFile` would not hold.

## What is not modelled

- The SQLite backends put each operation in one transaction; the listing and
  locating of JSONL logs, root encodings and the Windows publication.
- Of the coordinator: the backend-only `create`, `readFrom`, format versions and
  legacy migration, sessions moved to another directory, the drain at teardown.
- The agent registry: in the plan.
- Of the subagents: one-shot runs, listings and the folding of descriptors.
- Goals, workflows, jobs, approvals, document storage, remote persistence: in the
  plan, in that order of interest.
- Prompt assembly, providers, projections, titles, telemetry: data and derived
  state; where the core waits for them they are one nondeterministic await.
- Processes, sandboxes, file systems, MCP and LSP: bodies of tools.
- Transports, the browser client and the user interface: callers of the
  operations modelled here, and views of their events.
- The Python services: request handlers around single transactions.
- The vendored plugin framework: its scope disposal and event emission are
  taken as the core uses them.

## The plan

The core came first because everything else acts through it: the driver, the
scheduler and the write path; then what surrounds them and is hardest to test,
the ledger of identities, the file, the tree of subagents and the reminders.
What is left, in order:

1. `GoalRoundDriver` over an abstract agent (idle, maintenance, running) as in
   `Schedule`: reservation fences, validation before awaited hooks.
2. `WorkflowHost` and `LocalJobs`: first claim wins, paired start and end
   events, quiescence before disposal.
3. `StorageDomain`, `AgentRegistry`, approvals and the remote append with its
   idempotency key.

Each will have one or two runs with a handful of properties, of the kind above:
exhaustive over a small instance for one or two kinds of disturbance, with the
control invariant proved for all.
