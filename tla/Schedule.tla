------------------------------ MODULE Schedule ------------------------------
(***************************************************************************)
(* Durable reminders of one root agent (packages/schedule/schedule/src):   *)
(* the fold of schedule/change events (domain.ts), the live owner that     *)
(* derives a timer from it and queues due reminders (runtime.ts), the      *)
(* management tools (tools.ts), and the queue that serializes their        *)
(* transactions (transaction.ts).  The agent around them is reduced to the *)
(* phase and the wake latch of AgentDriver; the session's flush either     *)
(* makes the whole log durable or fails; a crash keeps a prefix of the log *)
(* that is at least the durable one.                                       *)
(*                                                                         *)
(* An action runs from one await to the next.  Time is in ticks: the wall  *)
(* clock may also jump, the timer counts elapsed ticks.                    *)
(***************************************************************************)
EXTENDS Integers, Sequences, FiniteSets

CONSTANTS Rules,       \* what schedule_create may be asked for
          Horizon,     \* MAX_FOUR_DIGIT_YEAR_MS, the last representable instant
          MaxDelay,    \* MAX_TIMER_DELAY_MS
          Mixes        \* the mixes of inputs a behaviour stays within

Kinds == {"calls",     \* a call of a management tool
          "turns",     \* a turn nobody here asked for, or another task
          "faults"}    \* a flush, followup or append that fails, a cancelled
                       \* call, a jump of the clock, a disposal, a crash
ASSUME BoundsAssumption ==
  /\ Horizon \in Nat \ {0} /\ MaxDelay \in Nat \ {0}
  /\ Mixes \subseteq [Kinds -> Nat]
  /\ Rules \subseteq [kind : {"after", "at", "every"}, time : Nat \ {0}]

VARIABLES log,         \* the schedule/change events and queued reminders
          stored,      \* how many of them are durable
          life,        \* which process the agent lives in
          now,         \* Date.now()
          phase,       \* of the agent: job is another plugin's maintenance
          wake,        \* the agent's wake latch
          status,      \* of the owner: live, stopping, stopped
          timer,       \* remaining ticks, or Off
          idleWait,    \* whether an idle boundary is awaited
          run,         \* how far the owner's run is
          requested, faulted,
          lapsed,      \* history: the last drive ended in a contained failure
          chain,       \* the transactions of the agent, the running one first
          call,        \* the management call in progress
          answer,      \* what the last one returned
          used         \* how often each kind of input has happened

agent   == <<phase, wake>>
owner   == <<status, timer, idleWait, run, requested, faulted, lapsed>>
disk    == <<log, stored, life>>
manager == <<call, answer>>
vars    == <<disk, now, agent, owner, chain, manager, used>>

Off     == -1
nobody  == 0
Over    == 0
Instants == 1 .. Horizon
NoCall  == [step |-> "none"]
Runs    == {"none", "queued", "preflight", "delivered", "declined", "barrier",
            "returned", "ending"}

Spend(kind, n) ==
  /\ used' = [used EXCEPT ![kind] = @ + n]
  /\ \E mix \in Mixes : \A k \in Kinds : used'[k] <= mix[k]

(***************************************************************************)
(* domain.ts.  A record with every = 0 is a one-shot; its dispatch carries *)
(* no acceptedAt.  A queued reminder names the occurrences it presents and *)
(* (history) the life that queued it.                                      *)
(***************************************************************************)
Created(record)          == [type |-> "create", record |-> record]
Deleted(id)              == [type |-> "delete", id |-> id]
Dispatched(id, accepted) == [type |-> "dispatch", id |-> id, acceptedAt |-> accepted]
Reminder(occurrences)    == [type |-> "message", occurrences |-> occurrences,
                             life |-> life]

\* resolveEveryOccurrence: the latest one due at t.
latest(record, t) ==
  IF record.every = 0 THEN record.at
  ELSE record.at + ((t - record.at) \div record.every) * record.every

\* What a dispatch makes of a record: the next target, or the end of it.
dispatchedRecord(record, acceptedAt) ==
  LET next == latest(record, acceptedAt) + record.every
  IN  [record EXCEPT !.at = IF record.every = 0 \/ next > Horizon THEN Over
                            ELSE next]

\* One record and one event.
changed(record, e) ==
  IF e.type \in {"create", "message"} \/ e.id # record.id THEN record
  ELSE IF e.type = "delete" THEN [record EXCEPT !.at = Over]
  ELSE dispatchedRecord(record, e.acceptedAt)

Replayed(record, events) ==
  LET after[n \in 0 .. Len(events)] ==
        IF n = 0 THEN record ELSE changed(after[n - 1], events[n])
  IN  after[Len(events)]

Creations(events) == {i \in DOMAIN events : events[i].type = "create"}

seenIds(events) == {events[i].record.id : i \in Creations(events)}

\* foldScheduleEvents: the active records, in the order of their creation.
Active(events) ==
  [i \in {j \in Creations(events) : Replayed(events[j].record, events).at # Over}
     |-> Replayed(events[i].record, events)]

Holds(active, id) == \E i \in DOMAIN active : active[i].id = id

\* The transitions that foldScheduleEvents accepts after `events`.
Accepts(events, e) ==
  CASE e.type = "create"   -> e.record.id \notin seenIds(events)
    [] e.type = "delete"   -> Holds(Active(events), e.id)
    [] e.type = "dispatch" ->
         LET active == Active(events)
         IN  \E i \in DOMAIN active :
               /\ active[i].id = e.id
               /\ IF active[i].every = 0 THEN e.acceptedAt = 0
                  ELSE e.acceptedAt >= active[i].at
    [] OTHER -> TRUE

\* The next readable id; no id is used twice.
allocateScheduleId(seen) ==
  CHOOSE id \in Cardinality(seen) + 1 .. 2 * Cardinality(seen) + 1 :
    /\ id \notin seen
    /\ \A other \in Cardinality(seen) + 1 .. id - 1 : other \in seen

Target(rule) == IF rule.kind = "at" THEN rule.time ELSE now + rule.time
Valid(rule)  == now < Target(rule) /\ Target(rule) <= Horizon
Record(rule, id) ==
  [id |-> id, at |-> Target(rule),
   every |-> IF rule.kind = "every" THEN rule.time ELSE 0]

(***************************************************************************)
(* dueDecision: the earliest due one-shot, or every due fixed-rate record. *)
(***************************************************************************)
Overdue(active, t) == {i \in DOMAIN active : active[i].at <= t}

Before(active, i, j) == \/ active[i].at < active[j].at
                        \/ active[i].at = active[j].at /\ i < j

Chosen(active, t) ==
  LET shots == {i \in Overdue(active, t) : active[i].every = 0}
  IN  IF shots = {} THEN Overdue(active, t)
      ELSE {i \in shots : \A j \in shots \ {i} : Before(active, i, j)}

\* The chosen records in the order in which they came due, the only one.
Due(active, t) ==
  LET chosen == Chosen(active, t)
  IN  {[k \in DOMAIN order |-> active[order[k]]] : order \in
         {f \in [1 .. Cardinality(chosen) -> chosen] :
            \A k, l \in DOMAIN f : k < l => Before(active, f[k], f[l])}}

Dispatches(due, t) ==
  [k \in DOMAIN due |->
     Dispatched(due[k].id, IF due[k].every = 0 THEN 0 ELSE t)]

\* One bounded segment of the wait for the earliest target, if there is any.
arm(active, t) ==
  \/ DOMAIN active = {} /\ timer' = Off
  \/ \E i \in DOMAIN active, delay \in 1 .. MaxDelay :
       /\ \A j \in DOMAIN active : active[i].at <= active[j].at
       /\ t + delay = active[i].at \/ (delay = MaxDelay /\ t + delay < active[i].at)
       /\ timer' = delay

(***************************************************************************)
(* The owner's triggers.                                                   *)
(***************************************************************************)
\* requestDrive, the queue of transactions being `queue` otherwise.
requestDrive(queue) ==
  \/ /\ status # "live" \/ faulted
     /\ chain' = queue /\ UNCHANGED <<timer, run, requested>>
  \/ /\ status = "live" /\ ~faulted
     /\ timer' = Off
     /\ IF run = "none"
        THEN run' = "queued" /\ chain' = Append(queue, "drive") /\ requested' = FALSE
        ELSE requested' = TRUE /\ UNCHANGED run /\ chain' = queue

Init ==
  /\ log = <<>> /\ stored = 0 /\ life = 1 /\ now = 1
  /\ phase = "idle" /\ wake = FALSE
  /\ status = "live" /\ timer = Off /\ idleWait = FALSE
  /\ run = "queued" /\ requested = FALSE /\ faulted = FALSE /\ lapsed = FALSE
  /\ chain = <<"drive">> /\ call = NoCall /\ answer = [kind |-> "none"]
  /\ used = [kind \in Kinds |-> 0]

Tick ==
  /\ now < Horizon \/ timer > 0
  /\ now' = IF now < Horizon THEN now + 1 ELSE now
  /\ timer' = IF timer > 0 THEN timer - 1 ELSE timer
  /\ UNCHANGED <<disk, agent, status, idleWait, run, requested, faulted,
                 lapsed, chain, manager, used>>

ClockJumps ==
  /\ Spend("faults", 1)
  /\ \E t \in Instants : t # now /\ now' = t
  /\ UNCHANGED <<disk, agent, owner, chain, manager>>

TimerFires ==
  /\ timer = 0 /\ requestDrive(chain)
  /\ UNCHANGED <<disk, now, agent, status, idleWait, faulted, lapsed, manager,
                 used>>

\* A plausible bug: a drive that finds the agent busy waits for the status event.
UnawaitedBug == UNCHANGED idleWait

waitForIdle == idleWait' = TRUE

IdleReached ==
  /\ idleWait /\ (phase = "idle" \/ status = "stopping")
  /\ idleWait' = FALSE /\ requestDrive(chain)
  /\ UNCHANGED <<disk, now, agent, status, faulted, lapsed, manager, used>>

(***************************************************************************)
(* The agent: turns and other maintenance come from outside.               *)
(***************************************************************************)
StartActivity(kind) ==
  /\ phase = "idle" /\ Spend("turns", 1) /\ phase' = kind
  /\ UNCHANGED <<disk, now, wake, owner, chain, manager>>

\* Only this end is a status event.
EndTurn ==
  /\ phase = "running" /\ call.step = "none" /\ phase' = "idle"
  /\ IF \E i \in DOMAIN log : log[i].type # "message" THEN requestDrive(chain)
     ELSE UNCHANGED <<timer, run, requested, chain>>
  /\ UNCHANGED <<disk, now, wake, status, idleWait, faulted, lapsed, manager,
                 used>>

\* A latched wake is replayed unless a cancel has cleared it.
EndMaintenance ==
  /\ phase \in {"job", "maintenance"}
  /\ phase' \in {"idle"} \cup (IF wake THEN {"running"} ELSE {})
  /\ wake' = FALSE
  /\ UNCHANGED <<disk, now, owner, chain, manager, used>>

(***************************************************************************)
(* driveOnce.                                                              *)
(***************************************************************************)
Drives(step) == run = step
Returns == run' = "returned" /\ chain' = Tail(chain)

DriveStarts ==
  /\ Drives("queued") /\ Head(chain) = "drive"
  /\ timer' = Off /\ lapsed' = FALSE
  /\ IF status = "live" THEN run' = "preflight" /\ UNCHANGED chain ELSE Returns
  /\ UNCHANGED <<disk, now, agent, status, idleWait, requested, faulted,
                 manager, used>>

\* The flush before the decision, or after a dispatch, is rejected.
DriveFlushFails ==
  /\ Drives("preflight") \/ Drives("barrier")
  /\ Spend("faults", 1) /\ lapsed' = TRUE /\ Returns
  /\ UNCHANGED <<disk, now, agent, status, timer, idleWait, requested, faulted,
                 manager>>

Flushed == stored' = Len(log)

PreflightStops ==
  /\ Drives("preflight") /\ status # "live" /\ Flushed /\ Returns
  /\ UNCHANGED <<log, life, now, agent, status, timer, idleWait, requested,
                 faulted, lapsed, manager, used>>

NothingDue ==
  /\ Drives("preflight") /\ status = "live" /\ Flushed
  /\ Overdue(Active(log), now) = {} /\ arm(Active(log), now) /\ Returns
  /\ UNCHANGED <<log, life, now, agent, status, idleWait, requested, faulted,
                 lapsed, manager, used>>

AgentBusy ==
  /\ Drives("preflight") /\ status = "live" /\ Flushed
  /\ Overdue(Active(log), now) # {} /\ phase # "idle" /\ waitForIdle /\ Returns
  /\ UNCHANGED <<log, life, now, agent, status, timer, requested, faulted,
                 lapsed, manager, used>>

\* The job of runMaintenance begins; it reads the clock again, at t.
Claims(t, failures) ==
  /\ Drives("preflight") /\ status = "live" /\ Flushed
  /\ Overdue(Active(log), now) # {} /\ phase = "idle" /\ phase' = "maintenance"
  /\ now' = t /\ Spend("faults", failures + IF t = now THEN 0 ELSE 1)
  /\ UNCHANGED <<life, status, idleWait, requested, chain, manager>>

JobWaits(t) ==
  /\ Claims(t, 0)
  /\ Overdue(Active(log), t) = {} /\ arm(Active(log), t) /\ run' = "declined"
  /\ UNCHANGED <<log, wake, faulted, lapsed>>

FollowupFails(t) ==
  /\ Claims(t, 1)
  /\ Overdue(Active(log), t) # {} /\ run' = "declined" /\ lapsed' = TRUE
  /\ UNCHANGED <<log, wake, timer, faulted>>

\* The message, then the first n of the dispatches.
Queues(due, t, n) ==
  /\ log' = Append(log, Reminder({<<due[k].id, latest(due[k], t)>> :
                                  k \in DOMAIN due}))
              \o SubSeq(Dispatches(due, t), 1, n)
  /\ wake' = TRUE

JobDelivers(t) ==
  /\ Claims(t, 0) /\ run' = "delivered" /\ UNCHANGED <<timer, faulted, lapsed>>
  /\ \E due \in Due(Active(log), t) : due # <<>> /\ Queues(due, t, Len(due))

\* A plausible bug: a refused append is contained like any other failure.
UnfaultedBug(t) ==
  /\ Claims(t, 1) /\ timer' = Off /\ run' = "declined"
  /\ \E due \in Due(Active(log), t) :
       \E n \in 0 .. Len(due) - 1 : Queues(due, t, n)
  /\ UNCHANGED <<faulted, lapsed>>

\* An append is refused: the message is queued already.
JobFaults(t) ==
  /\ Claims(t, 1) /\ faulted' = TRUE /\ timer' = Off /\ run' = "declined"
  /\ \E due \in Due(Active(log), t) :
       \E n \in 0 .. Len(due) - 1 : Queues(due, t, n)
  /\ UNCHANGED lapsed

MaintenanceReturns ==
  /\ phase # "maintenance"
  /\ \/ Drives("declined") /\ Returns
     \/ Drives("delivered") /\ run' = "barrier" /\ UNCHANGED chain
  /\ UNCHANGED <<disk, now, agent, status, timer, idleWait, requested, faulted,
                 lapsed, manager, used>>

DispatchStored ==
  /\ Drives("barrier") /\ Flushed /\ Returns
  /\ IF status = "live" THEN timer' = Off /\ requested' = TRUE
     ELSE UNCHANGED <<timer, requested>>
  /\ UNCHANGED <<log, life, now, agent, status, idleWait, faulted, lapsed,
                 manager, used>>

Wanted == requested /\ status = "live" /\ ~faulted

\* The loop of runRequested.
RunContinues ==
  /\ Drives("returned")
  /\ IF Wanted
     THEN run' = "queued" /\ requested' = FALSE /\ chain' = Append(chain, "drive")
     ELSE run' = "ending" /\ UNCHANGED <<requested, chain>>
  /\ UNCHANGED <<disk, now, agent, status, timer, idleWait, faulted, lapsed,
                 manager, used>>

\* A plausible bug: a request in the gap after the loop is not looked at.
UnseenRequestBug ==
  /\ Drives("ending") /\ run' = "none" /\ UNCHANGED <<requested, timer, chain>>
  /\ UNCHANGED <<disk, now, agent, status, idleWait, faulted, lapsed, manager,
                 used>>

retire ==
  /\ Drives("ending")
  /\ IF Wanted
     THEN run' = "queued" /\ requested' = FALSE /\ timer' = Off
          /\ chain' = Append(chain, "drive")
     ELSE run' = "none" /\ UNCHANGED <<requested, timer, chain>>
  /\ UNCHANGED <<disk, now, agent, status, idleWait, faulted, lapsed, manager,
                 used>>

(***************************************************************************)
(* Disposal by the agent's scope or the plugin.                            *)
(***************************************************************************)
dispose ==
  /\ status = "live" /\ Spend("faults", 1)
  /\ status' = "stopping" /\ requested' = FALSE /\ timer' = Off
  /\ UNCHANGED <<disk, now, agent, idleWait, run, faulted, lapsed, chain,
                 manager>>

Disposed ==
  /\ status = "stopping" /\ run = "none" /\ ~idleWait /\ status' = "stopped"
  /\ UNCHANGED <<disk, now, agent, timer, idleWait, run, requested, faulted,
                 lapsed, chain, manager, used>>

(***************************************************************************)
(* The management tools: one call at a time, inside a turn.                *)
(***************************************************************************)
Call(op, input) ==
  /\ phase = "running" /\ call.step = "none" /\ status = "live"
  /\ Spend("calls", 1)
  /\ call' = [step |-> "queued", op |-> op, input |-> input, id |-> nobody,
              aborted |-> FALSE]
  /\ chain' = Append(chain, "call") /\ answer' = [kind |-> "none"]
  /\ UNCHANGED <<disk, now, agent, owner>>

AbortCall ==
  /\ call.step # "none" /\ ~call.aborted /\ Spend("faults", 1)
  /\ call' = [call EXCEPT !.aborted = TRUE]
  /\ UNCHANGED <<disk, now, agent, owner, chain, answer>>

Answers(value) == call' = NoCall /\ answer' = value
Calls(step) == call.step = step /\ Head(chain) = "call"
Elsewhere == <<life, now, agent, status, idleWait, faulted, lapsed>>

CallStarts ==
  /\ Calls("queued")
  /\ IF call.aborted
     THEN Answers([kind |-> "aborted"]) /\ chain' = Tail(chain)
     ELSE call' = [call EXCEPT !.step = "preflight"] /\ UNCHANGED <<chain, answer>>
  /\ UNCHANGED <<disk, now, agent, owner, used>>

\* A plausible bug: a rejected barrier is reported like a completed one.
SwallowedBarrierBug ==
  /\ Calls("preflight") \/ Calls("barrier")
  /\ Spend("faults", 1) /\ chain' = Tail(chain)
  /\ Answers([kind |-> IF call.step = "preflight" THEN "uncertain" ELSE call.op,
              id |-> call.id])
  /\ UNCHANGED <<disk, now, agent, owner>>

\* persistence_uncertain, before or after the append.
CallFlushFails ==
  /\ Calls("preflight") \/ Calls("barrier")
  /\ Spend("faults", 1) /\ chain' = Tail(chain)
  /\ Answers([kind |-> "uncertain", id |-> call.id])
  /\ UNCHANGED <<disk, now, agent, owner>>

\* After the preflight: notify the owner, fold, and answer without an append.
CallEnds(value, failures) ==
  /\ Calls("preflight") /\ Flushed /\ requestDrive(Tail(chain))
  /\ Answers(value) /\ Spend("faults", failures)
  /\ UNCHANGED <<log, Elsewhere>>

CallAppends(e, id) ==
  /\ Calls("preflight") /\ ~call.aborted /\ Flushed /\ requestDrive(chain)
  /\ log' = Append(log, e)
  /\ call' = [call EXCEPT !.step = "barrier", !.id = id]
  /\ UNCHANGED <<Elsewhere, answer, used>>

List ==
  call.step = "preflight" /\ call.op = "list"
    /\ CallEnds([kind |-> "list", active |-> Active(log)], 0)

Create ==
  LET id == allocateScheduleId(seenIds(log))
  IN  /\ call.step = "preflight" /\ call.op = "create"
      /\ \/ ~Valid(call.input) /\ CallEnds([kind |-> "invalid"], 0)
         \/ /\ Valid(call.input)
            /\ \/ call.aborted /\ CallEnds([kind |-> "aborted"], 0)
               \/ ~call.aborted /\ CallEnds([kind |-> "internal"], 1)
               \/ CallAppends(Created(Record(call.input, id)), id)

Delete ==
  LET held == Holds(Active(log), call.input)
  IN  /\ call.step = "preflight" /\ call.op = "delete"
      /\ \/ ~held /\ CallEnds([kind |-> "not_found", id |-> call.input], 0)
         \/ held /\ call.aborted /\ CallEnds([kind |-> "aborted"], 0)
         \/ held /\ ~call.aborted /\ CallEnds([kind |-> "internal"], 1)
         \/ held /\ CallAppends(Deleted(call.input), call.input)

CallStored ==
  /\ Calls("barrier") /\ Flushed /\ requestDrive(Tail(chain))
  /\ Answers([kind |-> call.op, id |-> call.id])
  /\ UNCHANGED <<log, Elsewhere, used>>

(***************************************************************************)
(* The process stops, or the agent is disposed; the session is resumed     *)
(* from what is stored and a new owner starts.                             *)
(***************************************************************************)
CrashAndResume ==
  /\ Spend("faults", 1)
  /\ \E n \in stored .. Len(log) : log' = SubSeq(log, 1, n)
  /\ stored' = Len(log') /\ life' = life + 1
  /\ phase' = "idle" /\ wake' = FALSE
  /\ status' = "live" /\ timer' = Off /\ idleWait' = FALSE
  /\ run' = "queued" /\ requested' = FALSE /\ faulted' = FALSE /\ lapsed' = FALSE
  /\ chain' = <<"drive">> /\ call' = NoCall /\ answer' = [kind |-> "none"]
  /\ UNCHANGED now

Driver  == \/ DriveStarts \/ PreflightStops \/ NothingDue \/ AgentBusy
           \/ \E t \in Instants : JobWaits(t) \/ JobDelivers(t)
           \/ MaintenanceReturns \/ DispatchStored \/ RunContinues \/ retire
Manager == CallStarts \/ List \/ Create \/ Delete \/ CallStored
Failure == \/ DriveFlushFails \/ CallFlushFails
           \/ \E t \in Instants : FollowupFails(t) \/ JobFaults(t)
Input   == \/ \E rule \in Rules : Call("create", rule)
           \/ \E id \in seenIds(log) \cup {nobody} : Call("delete", id)
           \/ Call("list", nobody)
           \/ \E kind \in {"running", "job"} : StartActivity(kind)
           \/ AbortCall \/ ClockJumps \/ dispose \/ CrashAndResume

Progress == \/ Tick \/ TimerFires \/ IdleReached \/ EndTurn \/ EndMaintenance
            \/ Driver \/ Manager \/ Disposed

Next == Progress \/ Failure \/ Input
Spec == Init /\ [][Next]_vars

\* Time passes, flushes settle, turns and maintenance end, continuations run.
FairSpec == Spec /\ WF_vars(Progress)

(***************************************************************************)
(* Properties.                                                             *)
(***************************************************************************)
TypeOK ==
  /\ phase \in {"idle", "running", "job", "maintenance"} /\ wake \in BOOLEAN
  /\ status \in {"live", "stopping", "stopped"}
  /\ timer \in Off .. MaxDelay /\ run \in Runs
  /\ idleWait \in BOOLEAN /\ requested \in BOOLEAN
  /\ faulted \in BOOLEAN /\ lapsed \in BOOLEAN
  /\ chain \in Seq({"drive", "call"})
  /\ "step" \in DOMAIN call
  /\ call.step \in {"none", "queued", "preflight", "barrier"}

Positions(type) == {i \in DOMAIN log : log[i].type = type}
\* The dispatch at k says that occurrence o has been queued.
Records(k, o) ==
  /\ log[k].type = "dispatch" /\ log[k].id = o[1]
  /\ log[k].acceptedAt = 0 \/ log[k].acceptedAt >= o[2]
RecordedWithin(i, j, o) == \E k \in i + 1 .. j - 1 : Records(k, o)

\* The runtime queues a reminder before it records the dispatch, one record per
\* reminder of a batch, and appends, flushes, the clock, tools and the process
\* may fail in between.  Whatever happens, no dispatch stands in the log without
\* the reminder it records; an occurrence is queued again only by a later life
\* that found its dispatch missing; and the log is one that replay accepts.
RemindedOnce ==
  /\ \A i, j \in Positions("message") :
       i < j => \A o \in log[i].occurrences \cap log[j].occurrences :
                  log[i].life # log[j].life /\ ~RecordedWithin(i, j, o)
  /\ \A j \in Positions("dispatch") : \E i \in Positions("message") :
       i < j /\ \E o \in log[i].occurrences :
                  Records(j, o) /\ ~RecordedWithin(i, j, o)
  /\ \A i \in DOMAIN log :
       Accepts(SubSeq(log, 1, i - 1), log[i])

Confirms(value, active) ==
  CASE value.kind = "create" -> Holds(active, value.id)
    [] value.kind = "list"   -> value.active = active
    [] value.kind \in {"delete", "not_found"} -> ~Holds(active, value.id)
    [] OTHER -> TRUE

\* What the model is told is what a resume would find: an answer other than an
\* error agrees with the fold of the durable log at the moment it is given, and
\* a reminder is queued only for records active in it (tools.ts, runtime.ts:
\* every fold is preceded by a flush, every mutation followed by one, and no
\* other transaction of the agent runs in between).
ToldIsDurable ==
  [][LET active == Active(SubSeq(log', 1, stored'))
     IN  /\ call # NoCall /\ call' = NoCall => Confirms(answer', active)
         /\ \A i \in Len(log) + 1 .. Len(log') : log'[i].type = "message" =>
              \A o \in log'[i].occurrences : Holds(active, o[1])]_vars

Watching == status = "live" /\ ~faulted /\ ~lapsed
SomeDue  == Overdue(Active(log), now) # {}

\* While records are active the owner is never without a trigger of its own: an
\* armed timer, a boundary it waits for, or a request that its run will still
\* see.  A turn's end is no substitute, since no event tells the end of
\* another plugin's maintenance.
TriggerKept ==
  /\ Watching /\ DOMAIN Active(log) # {}
  /\ run \in {"declined", "returned", "ending", "none"}
  => timer # Off \/ idleWait \/ (requested /\ run # "none")

\* Due records do not stay: they are delivered or deleted, or the owner stopped,
\* faulted, or gave up on a contained failure, after which it waits for an
\* unrelated trigger (README.md, "Activity-driven retry").  The wake it owes
\* moves between the timer, the coalesced request, the run and the idle wait.
DueIsQueued == Watching /\ SomeDue ~> ~(Watching /\ SomeDue)
=============================================================================
