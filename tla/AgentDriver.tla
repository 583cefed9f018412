----------------------------- MODULE AgentDriver -----------------------------
(***************************************************************************)
(* The agent driver of packages/core/agent-loop/src/agent.ts with its      *)
(* durable inbox (packages/core/agent/src/inbox.ts): one agent, its queue, *)
(* the turn and step loop, cancellation, maintenance tasks, the latch that *)
(* replays a wake behind an aborted activity, disposal, and crash followed *)
(* by resume from any stored prefix of the log.                            *)
(*                                                                         *)
(* The program is single threaded: foreign code runs only where the driver *)
(* awaits, where it emits an agent event, or (with no right to append) in  *)
(* an observer of the event being appended.  `at` names those places, and  *)
(* an action runs from one to the next:                                    *)
(*   boundary   the driver is reserved, turn() has not begun               *)
(*   opened     observers of turn/start                                    *)
(*   claiming   observers of a first step's next-step claim                *)
(*   preparing  prompt assembly and the agent/pre-step waterfall           *)
(*   entered    observers of step/start, or of one of the step's           *)
(*              user/messages with more of them to come                    *)
(*   requesting request building, the model stream and its retries         *)
(*   tools      executeToolCalls                                           *)
(*   replied    step() has returned to turn()                              *)
(*   stepped, failed   observers of step/end, after success or an error    *)
(*   stopping   agent/turn-stopping                                        *)
(*   erring     agent/error, before turn/end                               *)
(*   ended      observers of turn/end, the turn having run to its end      *)
(*   exiting    turn() has settled, kick() has not                         *)
(*   idled      agent/status idle, emitted inside kick()                   *)
(***************************************************************************)
EXTENDS SessionLog, FiniteSets

CONSTANTS Messages,      \* user, steering and context messages
          Mixes          \* the mixes of disturbances a behaviour stays within

Kinds == {"steps",       \* replies with tool calls
          "cancels", "edits", "jobs", "disposals", "crashes"}
ASSUME MixAssumption == Mixes \subseteq [Kinds -> Nat]

VARIABLES phase,         \* Phase.kind
          at,            \* where the driver stands, see above
          abort,         \* reason of phase.abort.signal, "none" while live
          wake,          \* phase.wakeRequested
          replay,        \* wakeRequested as read by kick's finally
          turn, step,    \* phase.turn or lastTurn, phase.step
          inbox,         \* the live projection
          batch,         \* messages claimed for the step being prepared
          turnEnds,      \* turn()'s turnEnds
          stepEnd,       \* what step() returned
          call,          \* the send whose inserted listeners are running
          sent,          \* identities already used
          teardown,      \* the lifecycle owner's dispose()
          used,          \* how often each kind has happened
          owed,          \* history: waking messages submitted after the abort
          rewritten      \* history: claimed messages a pre-step listener removed

control == <<phase, at, abort, wake, replay, turn, step>>
data    == <<inbox, batch, turnEnds, stepEnd, call, sent>>
bounds  == <<teardown, used>>
history == <<owed, rewritten>>
vars    == <<log, control, data, bounds, history>>

Causes    == {"user", "disposed"}
Observers == {"opened", "claiming", "entered", "stepped", "failed", "ended"}
Driving   == Observers \cup {"boundary", "preparing", "requesting", "tools",
                             "replied", "stopping", "erring", "exiting"}
Endings   == {"none", "completed", "max-tokens"}

hasPending == \E target \in Targets : inbox[target] # <<>>
Pending    == UNION {ToSet(inbox[target]) : target \in Targets}

\* Foreign code that may call back into the agent runs at these places.
Open == call = "none" /\ at \notin Observers /\ teardown # "done"

Spend(kind) ==
  /\ used' = [used EXCEPT ![kind] = @ + 1]
  /\ \E mix \in Mixes : \A k \in Kinds : used'[k] <= mix[k]

ControlOK ==
  /\ phase \in {"idle", "maintenance", "running"}
  /\ at \in Driving \cup {"none", "idled"}
  /\ phase = "running" <=> at \in Driving
  /\ abort \in Causes \cup {"none"}
  /\ phase = "idle" => abort = "none" /\ ~wake
  /\ wake \in BOOLEAN /\ replay \in BOOLEAN
  /\ call \in {"none", "wake", "wakeAfterAbort"}

AgentInit ==
  /\ Init
  /\ phase = "idle" /\ at = "none" /\ abort = "none"
  /\ wake = FALSE /\ replay = FALSE /\ turn = 0 /\ step = 0
  /\ inbox = EmptyInbox /\ batch = <<>>
  /\ turnEnds = "none" /\ stepEnd = "none" /\ call = "none" /\ sent = {}
  /\ teardown = "live" /\ used = [kind \in Kinds |-> 0]
  /\ owed = {} /\ rewritten = {}

(***************************************************************************)
(* The inbox: a splice that changes nothing is not logged; any other is    *)
(* logged, then applied.                                                   *)
(***************************************************************************)
Logged(e) == IF e.removed > 0 \/ e.inserted # <<>> THEN <<e>> ELSE <<>>

Splice(events) ==
  /\ log' = log \o Logged(events[1]) \o Logged(events[2])
  /\ inbox' = apply(apply(inbox, events[1]), events[2])

Nothing == Spliced("next-step", 0, 0, <<>>, FALSE)
Insert(target, m) ==
  Splice(<<Spliced(target, Len(inbox[target]), 0, <<m>>, FALSE), Nothing>>)

ClearEvents ==
  <<Spliced("next-step", 0, Len(inbox["next-step"]), <<>>, TRUE),
    Spliced("next-turn", 0, Len(inbox["next-turn"]), <<>>, TRUE)>>

\* Plausible bugs: a turn drains the whole queue; a claim leaves steering behind.
DrainQueueBug == inbox["next-turn"]
KeptSteeringBug(target, taken) ==
  Spliced(target, 0, IF target = "next-step" THEN 0 ELSE Len(taken), <<>>, FALSE)

\* A step claims all of next-step and then, on a turn's first step, one prompt.
Prompt ==
  IF inbox["next-turn"] = <<>> THEN <<>> ELSE <<Head(inbox["next-turn"])>>
ClaimEvent(target, taken) == Spliced(target, 0, Len(taken), <<>>, FALSE)

(***************************************************************************)
(* The wake protocol.                                                      *)
(***************************************************************************)
StartDriver ==
  /\ phase' = "running" /\ at' = "boundary" /\ abort' = "none"
  /\ wake' = FALSE /\ replay' = FALSE /\ step' = 0 /\ owed' = {}
  /\ UNCHANGED turn

Deliverable == phase = "running" /\ abort = "none"

\* A plausible bug: only maintenance latches a wake.
MaintenanceOnlyBug(afterAbort) == abort # "disposed" /\ phase = "maintenance"

Latches(afterAbort) ==
  abort # "disposed" /\ (phase = "maintenance" \/ afterAbort)

LatchWake(afterAbort) ==
  /\ phase # "idle"
  /\ wake' = (wake \/ Latches(afterAbort))
  /\ UNCHANGED <<phase, abort, turn, step, owed>>

\* Classified before the insertion, whose listeners may cancel.
AfterAbort(wakeup) == wakeup /\ phase # "idle" /\ abort # "none"

Send(m, target, wakeup) ==
  LET resolved == IF AfterAbort(wakeup) THEN "next-turn" ELSE target
  IN  /\ Open /\ m \notin sent
      /\ Insert(resolved, m)
      /\ sent' = sent \cup {m}
      /\ call' = CASE ~wakeup -> "none"
                   [] AfterAbort(wakeup) -> "wakeAfterAbort"
                   [] OTHER -> "wake"
      /\ owed' = IF wakeup /\ phase # "idle" /\ ~Deliverable /\ abort # "disposed"
                 THEN owed \cup {m} ELSE owed
      /\ UNCHANGED <<control, batch, turnEnds, stepEnd, bounds, rewritten>>

\* The inserted listeners have returned: wakeDriver.
WakeDriver ==
  /\ call # "none" /\ call' = "none"
  /\ \/ phase = "idle" /\ StartDriver
     \/ LatchWake(call = "wakeAfterAbort") /\ UNCHANGED <<at, replay>>
  /\ UNCHANGED <<log, inbox, batch, turnEnds, stepEnd, sent, bounds, rewritten>>

\* inbox.remove and inbox.replace.
EditPending(m, inserted) ==
  /\ Open /\ Spend("edits")
  /\ \E target \in Targets : \E i \in 1..Len(inbox[target]) :
       /\ inbox[target][i] = m
       /\ Splice(<<Spliced(target, i - 1, 1, inserted, TRUE), Nothing>>)
  /\ sent' = sent \cup ToSet(inserted)
  /\ owed' = IF m \in owed THEN (owed \ {m}) \cup ToSet(inserted) ELSE owed
  /\ UNCHANGED <<control, batch, turnEnds, stepEnd, call, teardown, rewritten>>

\* inbox.prepend, as context providers use it: nobody is woken.
Prepend(target, m) ==
  /\ Open /\ Spend("edits")
  /\ Splice(<<Spliced(target, 0, 0, <<m>>, FALSE), Nothing>>)
  /\ sent' = sent \cup {m}
  /\ UNCHANGED <<control, batch, turnEnds, stepEnd, call, teardown, history>>

Edit == \/ \E m \in Pending : EditPending(m, <<>>)
        \/ \E m \in Pending, new \in Messages \ sent : EditPending(m, <<new>>)
        \/ \E target \in Targets, new \in Messages \ sent : Prepend(target, new)

(***************************************************************************)
(* Cancellation, maintenance and disposal.                                 *)
(***************************************************************************)
Abort(cause) ==
  abort' = IF phase # "idle" /\ abort = "none" THEN cause ELSE abort

CancelWith(cause, keepInbox) ==
  /\ \/ keepInbox /\ UNCHANGED <<log, inbox>>
     \/ ~keepInbox /\ Splice(ClearEvents)
  /\ wake' = (wake /\ keepInbox)
  /\ owed' = IF keepInbox THEN owed ELSE {}
  /\ Abort(cause)
  /\ UNCHANGED <<phase, at, replay, turn, step, batch, turnEnds, stepEnd,
                 call, sent, rewritten>>

\* An observer of an append cannot append: there, only a cancel that finds
\* nothing to clear reaches the abort.  One that observes a claim still finds
\* the messages it takes: the projection is spliced after the append.
Cancel(keepInbox) ==
  /\ teardown # "done" /\ Spend("cancels")
  /\ at \in Observers => keepInbox \/ (~hasPending /\ at # "claiming")
  /\ phase = "idle" => ~keepInbox /\ hasPending
  /\ CancelWith("user", keepInbox)
  /\ UNCHANGED teardown

Dispose ==
  /\ Open /\ teardown = "live" /\ Spend("disposals")
  /\ teardown' = "draining"
  /\ CancelWith("disposed", FALSE)

\* A plausible bug: teardown waits for an empty inbox.
DrainInboxBug ==
  /\ teardown = "draining" /\ call = "none" /\ phase = "idle" /\ at = "none"
  /\ ~hasPending /\ teardown' = "done"
  /\ UNCHANGED <<log, control, data, history, used>>

\* whenIdle has resolved: the scope and both registries let go.
Drained ==
  /\ teardown = "draining" /\ call = "none" /\ phase = "idle" /\ at = "none"
  /\ teardown' = "done"
  /\ UNCHANGED <<log, control, data, history, used>>

RunMaintenance ==
  /\ phase = "idle" /\ teardown # "done" /\ Spend("jobs")
  /\ phase' = "maintenance"
  /\ UNCHANGED <<log, at, abort, wake, replay, turn, step, data, history,
                 teardown>>

EndMaintenance ==
  /\ phase = "maintenance" /\ at = "none" /\ call = "none"
  /\ \/ wake /\ hasPending /\ StartDriver
     \/ /\ ~(wake /\ hasPending)
        /\ phase' = "idle" /\ abort' = "none" /\ wake' = FALSE
        /\ owed' = owed \cap Pending
        /\ UNCHANGED <<at, replay, turn, step>>
  /\ UNCHANGED <<log, data, bounds, rewritten>>

(***************************************************************************)
(* The driver: kick, turn, preStep and step.                               *)
(***************************************************************************)
Runs(place) == at = place /\ call = "none"
Goes(place) == at' = place /\ UNCHANGED <<phase, abort, wake, replay, turn>>
Logs(events) == log' = log \o events /\ UNCHANGED inbox

\* A plausible bug: catch keeps an ending an earlier step had set.
StaleEndingBug(reason, place) ==
  /\ Logs(<<TurnEnd(turn, IF turnEnds = "none" THEN reason ELSE turnEnds)>>)
  /\ Goes(place)

\* turn/end, then rethrow or return false.
Close(reason, place) == Logs(<<TurnEnd(turn, reason)>>) /\ Goes(place)

OpenTurn ==
  /\ Runs("boundary") /\ abort = "none"
  /\ Logs(<<TurnStart(turn + 1)>>)
  /\ turn' = turn + 1 /\ turnEnds' = "none" /\ at' = "opened"
  /\ UNCHANGED <<phase, abort, wake, replay, step, batch, stepEnd, call, sent,
                 bounds, history>>

\* Cancelled before its turn began: no turn is logged.
SkipTurn ==
  /\ Runs("boundary") /\ abort # "none" /\ Goes("exiting")
  /\ UNCHANGED <<log, step, data, bounds, history>>

\* One of inbox.claim's splices, and the messages it adds to the batch.
Claim(target, taken, place) ==
  /\ Splice(<<ClaimEvent(target, taken), Nothing>>)
  /\ batch' = batch \o taken /\ Goes(place)
  /\ UNCHANGED <<step, turnEnds, stepEnd, call, sent, bounds, history>>

\* throwIfAborted, at the places where turn() has nothing else to unwind.
TurnAborts ==
  /\ \E place \in {"opened", "preparing", "stepped", "stopping"} : Runs(place)
  /\ abort # "none" /\ Close("aborted", "exiting") /\ batch' = <<>>
  /\ UNCHANGED <<step, turnEnds, stepEnd, call, sent, bounds, history>>

FirstClaim ==
  /\ Runs("opened") /\ abort = "none" /\ inbox["next-step"] # <<>>
  /\ Claim("next-step", inbox["next-step"], "claiming")

\* The claim's other half follows at once, aborted or not.
PromptClaim ==
  /\ \/ Runs("claiming")
     \/ Runs("opened") /\ abort = "none" /\ inbox["next-step"] = <<>>
  /\ Claim("next-turn", Prompt, "preparing")

\* A plausible bug: no throwIfAborted after the pre-step waterfall.
DeafPreStepBug == Runs("preparing")

\* The listeners' verdict on the step: they may rewrite the claimed messages
\* away, and the runtime context may add one of its own.
Prepared == Runs("preparing") /\ abort = "none"

Reject ==
  /\ Prepared /\ Close("blocked", "exiting") /\ batch' = <<>>
  /\ UNCHANGED <<step, turnEnds, stepEnd, call, sent, bounds, history>>

Enter(messages, context) ==
  LET empty == messages = <<>> /\ ~context
  IN  /\ Prepared
      /\ rewritten' = rewritten \cup (ToSet(batch) \ ToSet(messages))
      /\ batch' = messages
      /\ \/ empty /\ turnEnds # "none" /\ Close(turnEnds, "ended")
            /\ UNCHANGED step
         \/ empty /\ turnEnds = "none" /\ step = 0
            /\ Close("completed", "exiting") /\ UNCHANGED step
         \/ /\ ~empty \/ (turnEnds = "none" /\ step > 0)
            /\ Logs(<<StepStart(turn, step + 1)>>) /\ step' = step + 1
            /\ Goes(IF messages = <<>> THEN "requesting" ELSE "entered")
      /\ UNCHANGED <<turnEnds, stepEnd, call, sent, bounds, owed>>

PreStep == \E messages \in {<<>>, batch}, context \in BOOLEAN :
             Enter(messages, context)

\* The step's messages are appended one by one, aborted or not.
AppendMessage ==
  /\ Runs("entered")
  /\ Logs(<<UserMessage(Head(batch))>>) /\ batch' = Tail(batch)
  /\ Goes(IF batch' = <<>> THEN "requesting" ELSE "entered")
  /\ UNCHANGED <<step, turnEnds, stepEnd, call, sent, bounds, history>>

\* Assembly or a listener throws: before pre-step, or at turn-stopping.
ListenerFails ==
  /\ Runs("preparing") \/ Runs("stopping")
  /\ abort = "none" /\ Goes("erring") /\ batch' = <<>>
  /\ UNCHANGED <<log, step, inbox, turnEnds, stepEnd, call, sent, bounds,
                 history>>

\* A reply without tool calls.
Reply ==
  /\ Runs("requesting") /\ abort = "none"
  /\ Logs(<<Assistant(turn, step, <<>>)>>)
  /\ stepEnd' \in {"completed", "max-tokens"} /\ Goes("replied")
  /\ UNCHANGED <<step, batch, turnEnds, call, sent, bounds, history>>

\* Cut at the token limit, a reply's calls are logged with it and never run.
CutReply ==
  /\ Runs("requesting") /\ abort = "none" /\ Spend("steps")
  /\ Logs(<<Assistant(turn, step, <<<<turn, step>>>>)>>)
  /\ stepEnd' = "max-tokens" /\ Goes("replied")
  /\ UNCHANGED <<step, batch, turnEnds, call, sent, teardown, history>>

\* One call stands for the step's calls: see ToolScheduler.
ReplyWithTools ==
  /\ Runs("requesting") /\ abort = "none" /\ Spend("steps")
  /\ Logs(<<Assistant(turn, step, <<<<turn, step>>>>),
            ToolCall(turn, step, <<turn, step>>)>>)
  /\ Goes("tools")
  /\ UNCHANGED <<step, batch, turnEnds, stepEnd, call, sent, teardown, history>>

\* Aborted or not, a started call gets its result and its context is accepted.
ToolSettles(context, concluded) ==
  /\ Runs("tools")
  /\ LET accept == Spliced("next-step", Len(inbox["next-step"]), 0, context,
                           FALSE)
     IN  /\ log' = log \o <<ToolResult(turn, step, <<turn, step>>, "none")>>
                      \o Logged(accept)
         /\ inbox' = apply(inbox, accept)
  /\ sent' = sent \cup ToSet(context)
  /\ stepEnd' = (IF concluded THEN "completed" ELSE "none") /\ Goes("replied")
  /\ UNCHANGED <<step, batch, turnEnds, call, bounds, history>>

Tools == \E concluded \in BOOLEAN :
           \/ ToolSettles(<<>>, concluded)
           \/ \E m \in Messages \ sent : ToolSettles(<<m>>, concluded)

\* The request, the stream or the tool scheduler throws: step/end, then catch.
StepFails ==
  /\ Runs("tools") \/ (Runs("requesting") /\ abort = "none")
  /\ Logs(<<StepEnd(turn, step)>>) /\ Goes("failed")
  /\ UNCHANGED <<step, batch, turnEnds, stepEnd, call, sent, bounds, history>>

StepAborts ==
  /\ Runs("requesting") /\ abort # "none"
  /\ Logs(<<StepEnd(turn, step), TurnEnd(turn, "aborted")>>) /\ Goes("exiting")
  /\ UNCHANGED <<step, batch, turnEnds, stepEnd, call, sent, bounds, history>>

\* max-tokens is sticky.
StepEnds ==
  /\ Runs("replied")
  /\ turnEnds' = IF turnEnds = "max-tokens" THEN turnEnds ELSE stepEnd
  /\ Logs(<<StepEnd(turn, step)>>) /\ Goes("stepped")
  /\ UNCHANGED <<step, batch, stepEnd, call, sent, bounds, history>>

Catch ==
  /\ Runs("failed")
  /\ \/ abort # "none" /\ Close("aborted", "exiting")
     \/ abort = "none" /\ Goes("erring") /\ UNCHANGED <<log, inbox>>
  /\ UNCHANGED <<step, batch, turnEnds, stepEnd, call, sent, bounds, history>>

CloseFailed ==
  /\ Runs("erring") /\ Close("error", "exiting")
  /\ UNCHANGED <<step, batch, turnEnds, stepEnd, call, sent, bounds, history>>

MayStop == turnEnds # "none" /\ inbox["next-step"] = <<>>

AskToStop ==
  /\ Runs("stepped") /\ abort = "none" /\ MayStop /\ Goes("stopping")
  /\ UNCHANGED <<log, step, data, bounds, history>>

NextClaim ==
  /\ Runs("stepped") \/ Runs("stopping")
  /\ abort = "none" /\ ~MayStop
  /\ Claim("next-step", inbox["next-step"], "preparing")

Stop ==
  /\ Runs("stopping") /\ abort = "none" /\ MayStop /\ Close(turnEnds, "ended")
  /\ UNCHANGED <<step, batch, turnEnds, stepEnd, call, sent, bounds, history>>

\* After a turn that ran to its end: go on while work is pending.
Continue ==
  /\ Runs("ended")
  /\ \/ /\ hasPending
        /\ at' = "boundary" /\ abort' = "none" /\ wake' = FALSE /\ step' = 0
        /\ owed' = {} /\ UNCHANGED <<phase, replay, turn>>
     \/ ~hasPending /\ Goes("exiting") /\ UNCHANGED <<step, owed>>
  /\ UNCHANGED <<log, data, bounds, rewritten>>

\* A plausible bug: the latch is never replayed.
ForgottenLatchBug ==
  /\ Runs("idled") /\ at' = "none" /\ replay' = FALSE
  /\ UNCHANGED <<log, phase, abort, wake, turn, step, data, bounds, history>>

\* A plausible bug: the driver goes idle after its loop and not in the finally,
\* which a turn that throws on its abort never reaches.
IdleAfterLoopBug ==
  /\ Runs("exiting") /\ abort = "none"
  /\ phase' = "idle" /\ at' = "idled" /\ abort' = "none" /\ step' = 0
  /\ replay' = wake /\ wake' = FALSE
  /\ UNCHANGED <<log, turn, data, bounds, history>>

\* kick's finally: idle is published before the latch is looked at.
Exit ==
  /\ Runs("exiting")
  /\ phase' = "idle" /\ at' = "idled" /\ abort' = "none" /\ step' = 0
  /\ replay' = wake /\ wake' = FALSE
  /\ UNCHANGED <<log, turn, data, bounds, history>>

FinishKick ==
  /\ Runs("idled")
  /\ \/ replay /\ hasPending /\ phase = "idle" /\ StartDriver
     \/ /\ replay /\ hasPending /\ LatchWake(FALSE)
        /\ at' = "none" /\ replay' = FALSE
     \/ /\ ~(replay /\ hasPending) /\ at' = "none" /\ replay' = FALSE
        /\ owed' = owed \cap Pending
        /\ UNCHANGED <<phase, abort, wake, turn, step>>
  /\ UNCHANGED <<log, data, bounds, rewritten>>

(***************************************************************************)
(* A crash keeps a prefix of the log; resume repairs it and replays it.    *)
(***************************************************************************)
CrashAndResume ==
  /\ Spend("crashes")
  /\ \E n \in 0..Len(log) : log' = Recovered(SubSeq(log, 1, n))
  /\ inbox' = ReplayInbox(log') /\ turn' = LastTurn(log')
  /\ phase' = "idle" /\ at' = "none" /\ abort' = "none" /\ step' = 0
  /\ wake' = FALSE /\ replay' = FALSE /\ call' = "none" /\ teardown' = "live"
  /\ batch' = <<>> /\ turnEnds' = "none" /\ stepEnd' = "none" /\ owed' = {}
  /\ UNCHANGED <<sent, rewritten>>

Input == \/ \E m \in Messages, target \in Targets, wakeup \in BOOLEAN :
              Send(m, target, wakeup)
         \/ Edit
         \/ \E keepInbox \in BOOLEAN : Cancel(keepInbox)
         \/ Dispose \/ RunMaintenance \/ CrashAndResume

Driver == \/ OpenTurn \/ SkipTurn \/ TurnAborts \/ FirstClaim
          \/ PromptClaim \/ Reject \/ PreStep \/ AppendMessage \/ ListenerFails
          \/ Reply \/ CutReply \/ ReplyWithTools \/ Tools
          \/ StepFails \/ StepAborts \/ StepEnds \/ Catch \/ CloseFailed
          \/ AskToStop \/ NextClaim \/ Stop \/ Continue \/ Exit \/ FinishKick

AgentNext == Input \/ WakeDriver \/ EndMaintenance \/ Drained \/ Driver
AgentSpec == AgentInit /\ [][AgentNext]_vars

\* Every hook, stream, tool and task the agent awaits eventually settles.
FairAgentSpec == AgentSpec /\ WF_vars(Driver) /\ WF_vars(WakeDriver)
                 /\ WF_vars(EndMaintenance) /\ WF_vars(Drained)

(***************************************************************************)
(* Properties.                                                             *)
(***************************************************************************)
\* Every event the driver appends satisfies the relational rules of
\* session/src/invariant.ts, across cancellation, failures, crash and resume.
ImplementsSessionLog == Spec

\* A waking message submitted behind an aborted activity or a maintenance task
\* is never left in the inbox of an agent that has settled to idle: the latch
\* of wakeDriver is replayed by kick or runMaintenance.
OwedWakeRuns ==
  phase = "idle" /\ at = "none" /\ call = "none" => owed \cap Pending = {}

\* The messages a claim at position i removed, and the turn that claimed it.
ClaimedAt(i) ==
  SubSeq(ReplayInbox(SubSeq(log, 1, i - 1))[log[i].target], 1, log[i].removed)
TurnAt(i) == LastTurn(SubSeq(log, 1, i))
Positions(type) == {i \in 1..Len(log) : log[i].type = type}
Claims == {i \in Positions("agent/inbox/spliced") : IsClaim(log[i])}

\* Work is not lost silently: a message claimed from the inbox becomes a
\* user/message, was rewritten away by a pre-step listener, or its turn ends
\* blocked, aborted, in error or interrupted; never completed or max-tokens.
ClaimsAccounted ==
  \A i \in Claims : \A m \in ToSet(ClaimedAt(i)) :
    \/ m \in rewritten
    \/ \E j \in Positions("user/message") : j > i /\ log[j].id = m
    \/ ~\E j \in Positions("turn/end") :
         log[j].turn = TurnAt(i) /\ log[j].reason \in Endings

\* No message reaches the model history twice, not even across a crash, and
\* none does that its own turn did not claim.
DeliveredOnce ==
  /\ \A i, j \in Positions("user/message") : log[i].id = log[j].id => i = j
  /\ \A i \in Positions("user/message") :
       \E j \in Claims : /\ j < i /\ log[i].id \in ToSet(ClaimedAt(j))
                         /\ TurnAt(j) = TurnAt(i)

\* One follow-up, one turn: a turn claims at most one message of next-turn.
TurnOwnsPrompt ==
  \A i, j \in {k \in Claims : log[k].target = "next-turn"} :
    log[i].removed = 1 /\ (TurnAt(i) = TurnAt(j) => i = j)

WorkedTurn(i) ==
  /\ log[i].type = "turn/end"
  /\ \/ \E j \in Positions("step/start") : log[j].turn = log[i].turn
     \/ /\ log[i].reason # "completed"
        /\ \E j \in Claims : TurnAt(j) = log[i].turn
LastWork == Max({0} \cup {i \in 1..Len(log) : WorkedTurn(i)})

\* foldConsumedWork's single pass finds the last turn that did or took work,
\* and reports a drop exactly when one follows that turn.
ConsumedWorkAgrees ==
  foldConsumedWork(log) =
    [end |-> IF LastWork = 0 THEN None ELSE log[LastWork].turn,
     droppedUnrun |-> \E i \in 1..Len(log) : IsDrop(log[i]) /\ i > LastWork]

Uncancelled == {"turn/start", "step/start", "assistant/message"}
\* Once its controller is aborted a driver opens no turn or step and commits no
\* reply, wherever the cancel landed, and takes or delivers no message but what
\* one uninterrupted run of code still owes: the prompt right behind the steering
\* of the same claim, and the messages right behind their own step/start.
AbortStopsWork ==
  [][abort # "none" /\ abort' = abort =>
       \A i \in (Len(log) + 1)..Len(log') :
         /\ log'[i].type \notin Uncancelled
         /\ IsClaim(log'[i]) =>
              /\ log'[i].target = "next-turn" /\ i > 1
              /\ IsClaim(log'[i - 1]) /\ log'[i - 1].target = "next-step"
         /\ log'[i].type = "user/message" =>
              i > 1 /\ log'[i - 1].type \in {"step/start", "user/message"}]_vars

\* A send that arrives after disposal began leaves no wake to replay (agent.ts:
\* "disposal never latches, so teardown waits on no model turn").
DisposalNeverLatches ==
  [][teardown = "draining" /\ wake' => wake]_vars

\* A cancelled activity converges to idle.
AbortConverges == abort # "none" ~> abort = "none"
\* dispose() gets through whenIdle(), whatever is sent or parked meanwhile.
DisposeSettles == teardown = "draining" ~> teardown # "draining"
\* A latched wake with work pending restarts the driver.
LatchReplays ==
  wake /\ hasPending ~> (phase = "running" /\ ~wake) \/ ~hasPending
=============================================================================
