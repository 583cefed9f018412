----------------------- MODULE PersistenceCoordinator -----------------------
(***************************************************************************)
(* One session identity under the persistence coordinator                  *)
(* (packages/session/session-persistence/src/coordinator.ts, its pool of   *)
(* preparations in preparations.ts): callers that inspect, prepare and     *)
(* append; sessions that are published, written and retired; the chain     *)
(* that serializes what touches the store; and another process that may    *)
(* write the log while this one holds nothing of it.                       *)
(*                                                                         *)
(* A backend call is atomic here and may fail without effect; JsonlLog is  *)
(* the detail.  The write-behind controller of a session is reduced to the *)
(* first event it retains and one write; SessionWriteBehind is the detail. *)
(* Equal contents stand for equal revisions.                               *)
(***************************************************************************)
EXTENDS Naturals, Sequences, SequencesExt

CONSTANTS Callers,     \* concurrent callers of the service
          Calls,       \* the operations each of them may call
          MaxLives,    \* bound on the Session objects under the identity
          MaxEvents,   \* bound on the length of a log
          Limit        \* bound on each kind of disturbance

Ops   == {"inspect", "prepare", "append"}
Kinds == {"calls",     \* a call of the service, or a Session created afresh
          "faults"}    \* a backend call that fails, a signal that aborts, an
                       \* eviction, or a write by another process
ASSUME BoundsAssumption == /\ MaxLives \in Nat \ {0} /\ MaxEvents \in Nat
                           /\ Calls \in [Callers -> SUBSET Ops]
                           /\ Limit \in [Kinds -> Nat]

VARIABLES stored,    \* the stored log, and whether its tail is torn
          state,     \* states.get(id)
          entry,     \* preparations.entries.get(id)
          chain,     \* chains.get(id): the operations, the running one first
          task,      \* how far the running one is
          caller,    \* the callers' places and local variables
          current,   \* the Session in the store under this id, or nobody
          born,      \* how many Session objects there have been
          session,   \* those objects and their live state
          used       \* how often each disturbance has happened

vars == <<stored, state, entry, chain, task, caller, current, born, session,
          used>>

Lives    == 1 .. MaxLives
nobody   == 0
Event(by, end) == [by |-> by, end |-> end]   \* end: it leaves no turn open
NoSource == [log |-> <<>>, torn |-> FALSE]
NoState  == [tracked |-> FALSE, cursor |-> 0, materialized |-> FALSE,
             owner |-> nobody]
NoEntry  == [phase |-> "none", source |-> NoSource, loader |-> nobody]
AtStart  == [step |-> "start", source |-> NoSource]
Outside  == [at |-> "outside", op |-> "none", awaits |-> nobody,
             same |-> FALSE, loader |-> nobody, source |-> NoSource,
             aborted |-> FALSE, floor |-> 0]
Unborn   == [log |-> <<>>, init |-> "none", from |-> 1, writing |-> FALSE,
             retirement |-> "none"]

Absent(file)  == file.log = <<>> /\ ~file.torn
closers(log)  == IF log = <<>> \/ Last(log).end THEN <<>>
                 ELSE <<Event(nobody, TRUE)>>
NeedsRepair(file) == file.torn \/ closers(file.log) # <<>>
SessionEvents(s, n) == [i \in 1 .. n |-> Event(s, FALSE)]

Init ==
  /\ \E log \in {<<>>, <<Event(nobody, FALSE)>>, <<Event(nobody, TRUE)>>},
        torn \in BOOLEAN :
       stored = [log |-> log, torn |-> torn /\ log # <<>>]
  /\ state = NoState /\ entry = NoEntry /\ task = AtStart
  /\ caller = [c \in Callers |-> Outside]
  /\ used = [kind \in Kinds |-> 0]
  \* A hot reload finds a live session, at or ahead of the log or unrelated.
  /\ \/ current = nobody /\ born = 0 /\ chain = <<>>
        /\ session = [s \in Lives |-> Unborn]
     \/ /\ current = 1 /\ born = 1
        /\ \E base \in {stored.log, <<>>}, n \in 0 .. 1 :
             LET log == base \o SessionEvents(1, n)
             IN  /\ session = [s \in Lives |->
                      IF s = 1 THEN [Unborn EXCEPT !.log = log,
                           !.init = "queued", !.from = Len(log) + 1]
                      ELSE Unborn]
                 /\ chain = <<[op |-> "created", who |-> 1, first |-> 1,
                               last |-> Len(log)]>>

Spend(kind) ==
  used[kind] < Limit[kind] /\ used' = [used EXCEPT ![kind] = @ + 1]

(***************************************************************************)
(* serialize.                                                              *)
(***************************************************************************)
Running(op) == chain # <<>> /\ Head(chain).op = op

serialize(op, who, first, last) ==
  chain' = Append(chain, [op |-> op, who |-> who, first |-> first,
                          last |-> last])

Finish == chain' = Tail(chain) /\ task' = AtStart
Step(step) == /\ task' = [task EXCEPT !.step = step] /\ UNCHANGED chain

(***************************************************************************)
(* The pool of preparations.                                               *)
(***************************************************************************)
Exclusive == entry.phase \in {"committing", "reserved"}

\* A removed entry is no longer the one its callers hold.
Forgotten == [c \in Callers |-> [caller[c] EXCEPT !.same = FALSE]]
remove == entry' = NoEntry
makeReady == entry' = [entry EXCEPT !.phase = "ready"]

\* The retirement a new wait finds in the map: that of the last Session.
retirements ==
  IF born # nobody /\ session[born].retirement \in {"flush", "release"}
  THEN born ELSE nobody

\* The assumption on callers of append, which checks no owner: the identity is
\* cold when they call and no Session is published before it is done.
Cold == current = nobody /\ state.owner = nobody /\ retirements = nobody
NoAppendPending == \A i \in 1 .. Len(chain) : chain[i].op # "append"

Returned(c, callers) == [callers EXCEPT ![c] = Outside]
Gone(c, callers) == [callers EXCEPT ![c] = [Outside EXCEPT !.at = "gone"]]

\* `continue`: wait for a retirement again, where an aborted signal throws.
Again(c, callers) ==
  IF caller[c].aborted THEN Gone(c, callers)
  ELSE [callers EXCEPT ![c] =
          [Outside EXCEPT !.at = "retirement", !.op = caller[c].op,
             !.awaits = retirements, !.floor = caller[c].floor]]

Retired(s) == s # nobody => session[s].retirement \in {"failed", "done"}

Call(c, op) ==
  /\ caller[c].at = "outside" /\ op \in Calls[c] /\ Spend("calls")
  /\ caller' = [caller EXCEPT ![c] =
       [Outside EXCEPT !.at = "retirement", !.op = op,
          !.awaits = retirements, !.floor = Len(stored.log)]]
  /\ UNCHANGED <<stored, state, entry, chain, task, current, born, session>>

\* entryFor: the first caller starts the read, the others share it.
entryFor(c) ==
  LET fresh  == entry = NoEntry
      loader == IF fresh THEN c ELSE entry.loader
      loads  == fresh \/ entry.phase = "loading"
  IN  /\ IF fresh
         THEN /\ entry' = [NoEntry EXCEPT !.phase = "loading", !.loader = c]
              /\ serialize("load", c, 0, 0)
         ELSE UNCHANGED <<entry, chain>>
      /\ caller' = [caller EXCEPT ![c].at = IF loads THEN "load" ELSE "loaded",
           ![c].same = TRUE, ![c].awaits = nobody,
           ![c].loader = IF loads THEN loader ELSE nobody,
           ![c].source = entry.source]

Enter(c) ==
  /\ caller[c].at = "retirement" /\ Retired(caller[c].awaits)
  /\ IF current # nobody
     THEN caller' = Returned(c, caller) /\ UNCHANGED <<entry, chain>>
     ELSE entryFor(c)
  /\ UNCHANGED <<stored, state, task, current, born, session, used>>

\* prepareCore, and what its callers and the entry get.
prepareCore ==
  /\ Running("load")
  /\ LET k == Head(chain).who
         mine == entry.phase = "loading" /\ entry.loader = k
         waiting(c) == caller[c].at = "load" /\ caller[c].loader = k
     IN  \/ /\ ~Absent(stored)
            /\ IF mine THEN entry' = [NoEntry EXCEPT !.phase = "ready",
                                                     !.source = stored]
               ELSE UNCHANGED entry
            /\ caller' = [c \in Callers |->
                 IF waiting(c) THEN [caller[c] EXCEPT !.at = "loaded",
                                       !.loader = nobody, !.source = stored]
                 ELSE caller[c]]
            /\ UNCHANGED used
         \/ /\ \/ Absent(stored) /\ UNCHANGED used
               \/ Spend("faults")
            /\ IF mine THEN remove ELSE UNCHANGED entry
            /\ caller' = [c \in Callers |->
                 IF waiting(c) THEN Outside
                 ELSE IF mine THEN Forgotten[c] ELSE caller[c]]
  /\ Finish
  /\ UNCHANGED <<stored, state, current, born, session>>

\* The least recently used ready entry goes when others become ready.
Evict ==
  /\ entry.phase = "ready" /\ Spend("faults")
  /\ remove /\ caller' = Forgotten
  /\ UNCHANGED <<stored, state, chain, task, current, born, session>>

(***************************************************************************)
(* inspect: the view is compared with the log once more before it is       *)
(* returned.                                                               *)
(***************************************************************************)
Inspect(c) ==
  /\ caller[c].at = "loaded" /\ caller[c].op = "inspect"
  /\ IF current # nobody THEN caller' = Returned(c, caller) /\ UNCHANGED chain
     ELSE /\ caller' = [caller EXCEPT ![c].at = "check"]
          /\ serialize("check", c, 0, 0)
  /\ UNCHANGED <<stored, state, entry, task, current, born, session, used>>

discardReady(c) ==
  IF entry = NoEntry \/ ~caller[c].same THEN "missing"
  ELSE IF entry.phase # "ready" THEN "retained" ELSE "discarded"

isPreparedSourceCurrent(source) == stored = source

\* A plausible bug: inspection trusts a retained view.
UncheckedViewBug ==
  /\ Running("check") /\ Finish
  /\ caller' = Returned(Head(chain).who, caller)
  /\ UNCHANGED <<stored, state, entry, current, born, session, used>>

CheckInspected ==
  /\ Running("check") /\ Finish
  /\ LET c == Head(chain).who
         done == \/ current # nobody
                 \/ isPreparedSourceCurrent(caller[c].source)
                 \/ discardReady(c) = "retained"
     IN  \/ done /\ caller' = Returned(c, caller) /\ UNCHANGED <<entry, used>>
         \/ /\ ~done /\ discardReady(c) = "discarded" /\ remove
            /\ caller' = Again(c, Forgotten) /\ UNCHANGED used
         \/ /\ ~done /\ discardReady(c) = "missing"
            /\ caller' = Again(c, caller) /\ UNCHANGED <<entry, used>>
         \/ /\ Spend("faults") /\ caller' = Returned(c, caller)
            /\ UNCHANGED entry
  /\ UNCHANGED <<stored, state, current, born, session>>

(***************************************************************************)
(* prepare: reserve a ready entry, commit its repair, hold it exclusively  *)
(* until the Session is published or given up.                             *)
(***************************************************************************)
reserve(c) ==
  /\ caller[c].op = "prepare" /\ caller[c].at \in {"loaded", "settled"}
  /\ \/ ~caller[c].same /\ caller' = Again(c, caller)
        /\ UNCHANGED <<entry, chain>>
     \/ /\ caller[c].same /\ entry.phase = "ready"
        /\ entry' = [entry EXCEPT !.phase = "committing"]
        /\ caller' = [caller EXCEPT ![c].at = "commit",
                                    ![c].source = entry.source]
        /\ serialize("commit", c, 0, 0)
     \/ /\ caller[c].same /\ Exclusive /\ caller[c].at = "loaded"
        /\ caller' = [caller EXCEPT ![c].at = "settled"]
        /\ UNCHANGED <<entry, chain>>
  /\ UNCHANGED <<stored, state, task, current, born, session, used>>

\* What reserve does when its commit yields nothing, or throws.
Dropped(c) == IF caller[c].same THEN remove ELSE UNCHANGED entry
Others(c)  == IF caller[c].same THEN Forgotten ELSE caller

Undefined(c) == Dropped(c) /\ caller' = Again(c, Others(c))
Throws(c)    == Dropped(c) /\ caller' = Returned(c, Others(c))

Tracks(log) == [state EXCEPT !.tracked = TRUE, !.cursor = Len(log),
                             !.materialized = TRUE]

\* A plausible bug: the cached source is committed without its revision check.
UncheckedCommitBug(source) ==
  IF NeedsRepair(source)
  THEN /\ task' = [step |-> IF source.torn THEN "truncate" ELSE "close",
                   source |-> source]
       /\ UNCHANGED state
  ELSE state' = Tracks(source.log) /\ task' = [AtStart EXCEPT !.step = "kept"]

\* commitPrepared, up to a repair: stale, to be repaired, or tracked.
commitPrepared(source) ==
  IF ~isPreparedSourceCurrent(source)
  THEN task' = [AtStart EXCEPT !.step = "stale"] /\ UNCHANGED state
  ELSE IF NeedsRepair(source)
  THEN /\ task' = [step |-> IF source.torn THEN "truncate" ELSE "close",
                   source |-> source]
       /\ UNCHANGED state
  ELSE state' = Tracks(source.log) /\ task' = [AtStart EXCEPT !.step = "kept"]

StartCommit ==
  /\ Running("commit") /\ task.step = "start"
  /\ LET c == Head(chain).who
     IN  \/ /\ caller[c].at = "commit" /\ state.owner = nobody
            /\ commitPrepared(caller[c].source)
            /\ UNCHANGED <<entry, caller, chain, used>>
         \/ /\ caller[c].at = "commit"
            /\ \/ state.owner # nobody /\ UNCHANGED used
               \/ Spend("faults")
            /\ Throws(c) /\ Finish /\ UNCHANGED state
         \/ /\ caller[c].at # "commit"
            /\ Finish /\ UNCHANGED <<state, entry, caller, used>>
  /\ UNCHANGED <<stored, current, born, session>>

\* The continuations of reserve and prepare.
FinishCommit ==
  /\ Running("commit") /\ task.step \in {"kept", "stale"} /\ Finish
  /\ LET c == Head(chain).who
     IN  \/ task.step = "stale" /\ Undefined(c)
         \/ /\ task.step = "kept" /\ caller[c].aborted
            /\ IF caller[c].same THEN makeReady ELSE UNCHANGED entry
            /\ caller' = Gone(c, caller)
         \/ /\ task.step = "kept" /\ ~caller[c].aborted /\ ~caller[c].same
            /\ caller' = Again(c, caller) /\ UNCHANGED entry
         \/ /\ task.step = "kept" /\ ~caller[c].aborted /\ caller[c].same
            /\ IF current # nobody THEN Throws(c)
               ELSE /\ entry' = [entry EXCEPT !.phase = "reserved"]
                    /\ caller' = [caller EXCEPT ![c].at = "hold"]
  /\ UNCHANGED <<stored, state, current, born, session, used>>

\* A plausible bug: the entry of a commit that will not start stays exclusive.
ForgottenCommitBug(c) ==
  /\ caller[c].op = "prepare" /\ ~caller[c].aborted /\ Spend("faults")
  /\ caller[c].at = "commit" /\ task = AtStart
  /\ caller' = Gone(c, caller)
  /\ UNCHANGED <<stored, state, entry, chain, task, current, born, session>>

\* The signal aborts; a queued commit then never starts, one that has started
\* finishes first.
Abort(c) ==
  /\ caller[c].op = "prepare" /\ ~caller[c].aborted /\ Spend("faults")
  /\ \/ /\ caller[c].at \in {"retirement", "load", "settled"}
        /\ caller' = Gone(c, caller) /\ UNCHANGED entry
     \/ /\ caller[c].at = "commit"
        /\ ~(Running("commit") /\ Head(chain).who = c /\ task # AtStart)
        /\ Dropped(c) /\ caller' = Gone(c, Others(c))
     \/ /\ \/ caller[c].at = "loaded"
           \/ caller[c].at = "commit" /\ Running("commit")
              /\ Head(chain).who = c
        /\ caller' = [caller EXCEPT ![c].aborted = TRUE] /\ UNCHANGED entry
  /\ UNCHANGED <<stored, state, chain, task, current, born, session>>

\* The holder publishes the Session, with n events that setup appended.
Publish(c, n) ==
  /\ caller[c].at = "hold" /\ current = nobody /\ born < MaxLives
  /\ NoAppendPending
  /\ state.owner = nobody /\ state.cursor = Len(caller[c].source.log)
  /\ LET s == born + 1
         log == caller[c].source.log \o SessionEvents(s, n)
     IN  /\ born' = s /\ current' = s
         /\ state' = [state EXCEPT !.owner = s]
         /\ session' = [session EXCEPT ![s] =
              [Unborn EXCEPT !.log = log, !.from = Len(log) + 1,
                             !.init = IF n = 0 THEN "done" ELSE "queued"]]
         /\ IF n = 0 THEN UNCHANGED chain
            ELSE serialize("suffix", s, state.cursor + 1, Len(log))
  /\ remove /\ caller' = Returned(c, Forgotten)
  /\ UNCHANGED <<stored, task, used>>

\* It is given up, by load or by a setup that failed before or after it
\* appended to the Session.
release(c, reusable) ==
  /\ caller[c].at = "hold"
  /\ IF reusable /\ state.owner = nobody
     THEN makeReady /\ caller' = Returned(c, caller)
     ELSE remove /\ caller' = Returned(c, Forgotten)
  /\ UNCHANGED <<stored, state, chain, task, current, born, session, used>>

(***************************************************************************)
(* Live sessions.                                                          *)
(***************************************************************************)
\* A Session created with n seed events; any entry vetoes it.
Create(n) ==
  /\ current = nobody /\ born < MaxLives /\ entry = NoEntry
  /\ NoAppendPending /\ Spend("calls")
  /\ LET s == born + 1
     IN  /\ born' = s /\ current' = s
         /\ session' = [session EXCEPT ![s] =
              [Unborn EXCEPT !.log = SessionEvents(s, n), !.from = n + 1,
                             !.init = "queued"]]
         /\ serialize("created", s, 1, n)
  /\ UNCHANGED <<stored, state, entry, task, caller>>

Record ==
  /\ current # nobody /\ Len(session[current].log) < MaxEvents
  /\ session' = [session EXCEPT ![current].log =
                   Append(@, Event(current, FALSE))]
  /\ UNCHANGED <<stored, state, entry, chain, task, caller, current, born,
                 used>>

hasWork(s) == session[s].writing \/ session[s].from <= Len(session[s].log)

\* One write of the controller: everything retained, once initialized.
Write(s) ==
  /\ session[s].init = "done" /\ hasWork(s) /\ ~session[s].writing
  /\ session[s].retirement \in {"none", "flush"}
  /\ session' = [session EXCEPT ![s].writing = TRUE]
  /\ serialize("batch", s, session[s].from, Len(session[s].log))
  /\ UNCHANGED <<stored, state, entry, task, caller, current, born, used>>

Dispose ==
  /\ current # nobody /\ current' = nobody
  /\ session' = [session EXCEPT ![current].retirement = "flush"]
  /\ UNCHANGED <<stored, state, entry, chain, task, caller, born, used>>

\* A plausible bug: the failure of initialization does not reach a flush.
UnrejectedFlushBug(s) ==
  /\ session[s].retirement = "flush" /\ session[s].init = "done" /\ ~hasWork(s)
  /\ session' = [session EXCEPT ![s].retirement = "release"]
  /\ serialize("release", s, 0, 0)
  /\ UNCHANGED <<stored, state, entry, task, caller, current, born, used>>

\* retireCore: the flush, then the release behind whatever is queued.
Flushed(s) ==
  /\ session[s].retirement = "flush"
  /\ \/ /\ session[s].init = "failed" /\ UNCHANGED chain
        /\ session' = [session EXCEPT ![s].retirement = "failed"]
     \/ /\ session[s].init = "done" /\ ~hasWork(s)
        /\ session' = [session EXCEPT ![s].retirement = "release"]
        /\ serialize("release", s, 0, 0)
  /\ UNCHANGED <<stored, state, entry, task, caller, current, born, used>>

\* A plausible bug: the retired session stays the owner.
KeptOwnerBug ==
  /\ Running("release") /\ Finish
  /\ session' = [session EXCEPT ![Head(chain).who] =
                   [Unborn EXCEPT !.retirement = "done"]]
  /\ UNCHANGED <<stored, state, entry, caller, current, born, used>>

retireCore ==
  /\ Running("release") /\ Finish
  /\ LET s == Head(chain).who
     IN  /\ session' = [session EXCEPT ![s] =
                          [Unborn EXCEPT !.retirement = "done"]]
         /\ state' = IF state.owner = s THEN NoState ELSE state
  /\ UNCHANGED <<stored, entry, caller, current, born, used>>

(***************************************************************************)
(* appendCore and the operations that end in it.                           *)
(***************************************************************************)
Stores(events) ==
  /\ stored' = [stored EXCEPT !.log = @ \o events]
  /\ state' = [state EXCEPT !.cursor = @ + Len(events),
                            !.materialized = TRUE]
  /\ remove

Accepts(first) == ~Exclusive /\ first = state.cursor + 1

\* appendLiveBatch: what initialization stored already is skipped.
appendLiveBatch ==
  /\ Running("batch") /\ Finish
  /\ LET op     == Head(chain)
         s      == op.who
         first  == IF op.first > state.cursor THEN op.first
                   ELSE state.cursor + 1
         events == SubSeq(session[s].log, first, op.last)
     IN  \/ /\ events = <<>> \/ Accepts(first)
            /\ IF events = <<>> THEN UNCHANGED <<stored, state, entry, caller>>
               ELSE Stores(events) /\ caller' = Forgotten
            /\ session' = [session EXCEPT ![s].writing = FALSE,
                                          ![s].from = op.last + 1]
            /\ UNCHANGED used
         \/ /\ \/ events # <<>> /\ ~Accepts(first) /\ UNCHANGED used
               \/ events # <<>> /\ Spend("faults")
            /\ \/ session' = [session EXCEPT ![s].writing = FALSE]
               \/ /\ session[s].retirement = "flush"
                  /\ session' = [session EXCEPT ![s].writing = FALSE,
                                                ![s].retirement = "failed"]
            /\ UNCHANGED <<stored, state, entry, caller>>
  /\ UNCHANGED <<current, born>>

Initialized(s, outcome) == session' = [session EXCEPT ![s].init = outcome]

\* The end of initialization: the part of the seed that is not stored.
AppendSeed ==
  /\ Running("suffix") \/ (Running("created") /\ task.step = "append")
  /\ Finish
  /\ LET op == Head(chain)
         s  == op.who
         first == IF op.op = "created" THEN state.cursor + 1 ELSE op.first
     IN  \/ /\ Accepts(first) /\ Stores(SubSeq(session[s].log, first, op.last))
            /\ caller' = Forgotten /\ Initialized(s, "done") /\ UNCHANGED used
         \/ /\ \/ ~Accepts(first) /\ UNCHANGED used
               \/ Spend("faults")
            /\ Initialized(s, "failed")
            /\ UNCHANGED <<stored, state, entry, caller>>
  /\ UNCHANGED <<current, born>>

(***************************************************************************)
(* onCreated: claim, reclaim, adopt or create.                             *)
(***************************************************************************)
Owned(s, cursor, materialized) ==
  [tracked |-> TRUE, cursor |-> cursor, materialized |-> materialized,
   owner |-> s]

\* The state is bound; what remains is the seed beyond its cursor.
Binds(s, cursor, materialized, last) ==
  /\ state' = Owned(s, cursor, materialized)
  /\ IF last > cursor THEN Step("append") /\ UNCHANGED session
     ELSE Finish /\ Initialized(s, "done")

Collides(s) == Finish /\ Initialized(s, "failed") /\ UNCHANGED state

\* Ownerless state is claimed by a seed that covers what it counts.
seedMatchesPersisted(seed) ==
  state.cursor = 0 \/ IsPrefix(SubSeq(stored.log, 1, state.cursor), seed)

Abandoned == /\ state.owner # nobody /\ ~state.materialized
             /\ ~hasWork(state.owner)

adoptLivePrefix(s, seed) ==
  IF ~IsPrefix(stored.log, seed) THEN Collides(s)
  ELSE IF stored.torn
  THEN /\ task' = [step |-> "truncate", source |-> stored]
       /\ UNCHANGED <<chain, session, state>>
  ELSE Binds(s, Len(stored.log), TRUE, Len(seed))

onCreated ==
  /\ Running("created") /\ task.step = "start"
  /\ LET op   == Head(chain)
         s    == op.who
         seed == SubSeq(session[s].log, 1, op.last)
     IN  \/ /\ state.tracked /\ state.owner = nobody
            /\ IF seedMatchesPersisted(seed)
               THEN Binds(s, state.cursor, state.materialized, op.last)
               ELSE Collides(s)
            /\ UNCHANGED used
         \/ /\ state.tracked /\ state.owner # nobody /\ ~Abandoned
            /\ Collides(s) /\ UNCHANGED used
         \/ /\ state.tracked => Abandoned
            /\ IF ~Absent(stored) THEN adoptLivePrefix(s, seed)
               ELSE IF entry # NoEntry THEN Collides(s)
               ELSE Binds(s, 0, FALSE, op.last)
            /\ UNCHANGED used
         \/ Spend("faults") /\ Collides(s)
  /\ UNCHANGED <<stored, entry, caller, current, born>>

(***************************************************************************)
(* A public append, which adopts a log that is not tracked.                *)
(***************************************************************************)
append(c) ==
  /\ caller[c].at = "outside" /\ "append" \in Calls[c] /\ Spend("calls")
  /\ Cold
  /\ caller' = [caller EXCEPT ![c] =
                  [Outside EXCEPT !.at = "append", !.op = "append"]]
  /\ serialize("append", c, Len(stored.log) + 1, Len(stored.log) + 1)
  /\ UNCHANGED <<stored, state, entry, task, current, born, session>>

AppendThrows == /\ Finish /\ caller' = Returned(Head(chain).who, caller)
                /\ UNCHANGED <<stored, state, entry>>

StartAppend ==
  /\ Running("append") /\ task.step = "start"
  /\ \/ Exclusive /\ AppendThrows
     \/ /\ ~Exclusive
        /\ Step(IF state.tracked THEN "append" ELSE "source")
        /\ UNCHANGED <<stored, state, entry, caller>>
  /\ UNCHANGED <<current, born, session, used>>

\* adopt: a ready entry is taken, or the log is read.
TakeSource ==
  /\ Running("append") /\ task.step = "source"
  /\ \/ /\ entry.phase = "ready" /\ UNCHANGED chain
        /\ task' = [step |-> "adopt", source |-> entry.source]
        /\ remove /\ caller' = Forgotten /\ UNCHANGED <<stored, state, used>>
     \/ /\ entry.phase # "ready" /\ ~Absent(stored) /\ UNCHANGED chain
        /\ task' = [step |-> "adopt", source |-> stored]
        /\ UNCHANGED <<stored, state, entry, caller, used>>
     \/ /\ entry.phase # "ready"
        /\ \/ Absent(stored) /\ UNCHANGED used
           \/ Spend("faults")
        /\ AppendThrows
  /\ UNCHANGED <<current, born, session>>

Adopt ==
  /\ Running("append")
  /\ \/ /\ task.step = "adopt" /\ commitPrepared(task.source)
        /\ UNCHANGED <<stored, entry, caller, chain, used>>
     \/ task.step = "adopt" /\ Spend("faults") /\ AppendThrows
     \/ /\ task.step \in {"kept", "stale"}
        /\ Step(IF task.step = "kept" THEN "append" ELSE "source")
        /\ UNCHANGED <<stored, state, entry, caller, used>>
  /\ UNCHANGED <<current, born, session>>

FinishAppend ==
  /\ Running("append") /\ task.step = "append"
  /\ LET op == Head(chain)
         next == op.first = state.cursor + 1
     IN  \/ /\ next /\ Finish /\ caller' = Returned(op.who, Forgotten)
            /\ Stores(<<Event(nobody, FALSE)>>)
            /\ UNCHANGED used
         \/ /\ \/ ~next /\ UNCHANGED used
               \/ Spend("faults")
            /\ AppendThrows
  /\ UNCHANGED <<current, born, session>>

(***************************************************************************)
(* commitRepair: truncate, then append the closers; live adoption only     *)
(* truncates.                                                              *)
(***************************************************************************)
\* A commit whose repair is done reloads, and so does an adoption.
Repaired(log) ==
  IF Running("created")
  THEN /\ Binds(Head(chain).who, Len(log), TRUE, Head(chain).last)
       /\ UNCHANGED <<entry, caller>>
  ELSE Step("stale") /\ UNCHANGED <<state, entry, caller, session>>

RepairFails ==
  /\ Spend("faults") /\ UNCHANGED <<stored, state>> /\ Finish
  /\ LET who == Head(chain).who
     IN  \/ /\ Running("created") /\ Initialized(who, "failed")
            /\ UNCHANGED <<entry, caller>>
         \/ Running("commit") /\ Throws(who) /\ UNCHANGED session
         \/ /\ Running("append") /\ caller' = Returned(who, caller)
            /\ UNCHANGED <<entry, session>>

Truncate ==
  /\ task.step = "truncate"
  /\ \/ /\ stored' = [stored EXCEPT !.torn = FALSE] /\ UNCHANGED used
        /\ IF ~Running("created") /\ closers(task.source.log) # <<>>
           THEN /\ Step("close")
                /\ UNCHANGED <<state, entry, caller, session>>
           ELSE Repaired(stored.log)
     \/ RepairFails
  /\ UNCHANGED <<current, born>>

Close ==
  /\ task.step = "close"
  /\ \/ /\ stored' = [stored EXCEPT !.log = @ \o closers(task.source.log)]
        /\ Repaired(stored.log) /\ UNCHANGED used
     \/ RepairFails
  /\ UNCHANGED <<current, born>>

\* Another process writes while this one tracks nothing and is not between a
\* check and its effect: the coordinator excludes no writer.
Foreign ==
  /\ ~state.tracked /\ task.step \in {"start", "source", "adopt", "stale"}
  /\ Len(stored.log) < MaxEvents /\ Spend("faults")
  /\ \E torn \in BOOLEAN :
       stored' = [log |-> Append(stored.log, Event(nobody, TRUE)),
                  torn |-> torn]
  /\ UNCHANGED <<state, entry, chain, task, caller, current, born, session>>

(***************************************************************************)
(* The specification.                                                      *)
(***************************************************************************)
Serialized == \/ prepareCore \/ CheckInspected \/ StartCommit \/ FinishCommit
              \/ retireCore \/ appendLiveBatch \/ AppendSeed \/ onCreated
              \/ StartAppend \/ TakeSource \/ Adopt \/ FinishAppend
              \/ Truncate \/ Close

Continues(c) == Enter(c) \/ Inspect(c) \/ reserve(c)
HolderEnds(c) == \/ \E n \in 0 .. 1 : Publish(c, n)
                 \/ \E reusable \in BOOLEAN : release(c, reusable)
Drains(s) == Write(s) \/ Flushed(s)

Progress == \/ Serialized
            \/ \E c \in Callers : Continues(c) \/ HolderEnds(c)
            \/ \E s \in Lives : Drains(s)

Next == \/ Progress
        \/ \E c \in Callers :
             \/ \E op \in {"inspect", "prepare"} : Call(c, op)
             \/ append(c) \/ Abort(c)
        \/ \E n \in 0 .. 1 : Create(n)
        \/ Record \/ Evict \/ Dispose \/ Foreign

Spec == Init /\ [][Next]_vars

\* Backend calls settle, promises continue, a holder publishes or gives up, and
\* a controller with work writes; in which order does not matter.
FairSpec == Spec /\ WF_vars(Progress)

(***************************************************************************)
(* Properties.                                                             *)
(***************************************************************************)
\* The ledger agrees with the store: what is tracked counts exactly the stored
\* log, which is a prefix of its owner's; once the owner is initialized the
\* events it retains continue what is stored.  So nobody else's events are in
\* the log of a live session, and none is missing or doubled.
LedgerAgrees ==
  state.tracked =>
    /\ state.cursor <= Len(stored.log)
    /\ entry.phase = "reserved" => state.cursor = Len(stored.log)
    /\ state.owner # nobody =>
         /\ state.cursor = Len(stored.log)
         /\ IsPrefix(stored.log, session[state.owner].log)
         /\ session[state.owner].init = "done" =>
              session[state.owner].from <= state.cursor + 1

\* An exclusive preparation has exactly one caller that will end it, and no
\* preparation survives the publication of a session.
HasOneHolder ==
  /\ entry.phase = "committing" =>
       \E c \in Callers : caller[c].at = "commit" /\ caller[c].same
  /\ entry.phase = "reserved" =>
       \E c \in Callers : caller[c].at = "hold" /\ caller[c].same
  /\ \A c, d \in Callers :
       /\ caller[c].same /\ caller[c].at \in {"commit", "hold"}
       /\ caller[d].same /\ caller[d].at \in {"commit", "hold"}
       => c = d
  /\ entry # NoEntry => current = nobody

\* A disposed session whose retirement has ended owns the identity only while
\* it retains events, or when it could not be initialized.
RetiredLetsGo ==
  \A s \in Lives :
    session[s].retirement \in {"failed", "done"} /\ state.owner = s
      => hasWork(s) \/ session[s].init = "failed"

\* The view an inspection returns is at least as new as the log was when it
\* was asked, unless a reservation retains it.
InspectionIsFresh ==
  [][\A c \in Callers :
       /\ caller[c].at = "check" /\ caller'[c].at = "outside"
       /\ UNCHANGED used /\ current = nobody
       /\ ~(Exclusive /\ caller[c].same)
       => Len(caller[c].source.log) >= caller[c].floor]_vars

\* Every call returns or holds a reservation, every retirement ends: repairs
\* and reloads converge, and nobody waits for a reservation that is lost.
Settled ==
  /\ \A c \in Callers : caller[c].at \in {"outside", "hold", "gone"}
  /\ \A s \in Lives : session[s].retirement \notin {"flush", "release"}

AllSettle == []<>Settled
=============================================================================
