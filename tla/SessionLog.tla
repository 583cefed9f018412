----------------------------- MODULE SessionLog -----------------------------
(***************************************************************************)
(* The append-only session log as its readers understand it: the           *)
(* relational rules the invariant companion enforces on every append       *)
(* (packages/core/session/src/invariant.ts), the closers that crash        *)
(* recovery adds to an interrupted log (repair.ts), the inbox a resumed    *)
(* agent replays from it (inbox.ts) and the account of consumed work a     *)
(* supervisor folds from it (consumed-work.ts).                            *)
(*                                                                         *)
(* Spec is the contract of every writer of a session log: it only appends  *)
(* events the rules accept, and after a crash the log is a prefix of what  *)
(* was written, completed by the closers.                                  *)
(***************************************************************************)
EXTENDS Integers, Sequences, SequencesExt

VARIABLE log

Targets == {"next-turn", "next-step"}
None == 0            \* null turn or step: numbering starts at 1

(***************************************************************************)
(* Events.  Only the fields some reader looks at are kept.                 *)
(***************************************************************************)
TurnStart(t)     == [type |-> "turn/start", turn |-> t]
TurnEnd(t, r)    == [type |-> "turn/end", turn |-> t, reason |-> r]
StepStart(t, s)  == [type |-> "step/start", turn |-> t, step |-> s]
StepEnd(t, s)    == [type |-> "step/end", turn |-> t, step |-> s]
UserMessage(m)   == [type |-> "user/message", id |-> m]
Assistant(t, s, cs) ==
  [type |-> "assistant/message", turn |-> t, step |-> s, calls |-> cs]
ToolCall(t, s, c) == [type |-> "tool/call", turn |-> t, step |-> s, call |-> c]
ToolResult(t, s, c, e) ==
  [type |-> "tool/result", turn |-> t, step |-> s, call |-> c, error |-> e]
Spliced(target, start, removed, inserted, canceled) ==
  [type |-> "agent/inbox/spliced", target |-> target, start |-> start,
   removed |-> removed, inserted |-> inserted, canceled |-> canceled]

IsClaim(e) == e.type = "agent/inbox/spliced" /\ e.removed > 0 /\ ~e.canceled
IsDrop(e)  == /\ e.type = "agent/inbox/spliced" /\ e.removed > 0
              /\ e.canceled /\ e.inserted = <<>>

\* FoldLeft, in the form TLC evaluates in one pass.
Folded(op(_, _), base, events) ==
  LET after[i \in 0..Len(events)] ==
        IF i = 0 THEN base ELSE op(after[i - 1], events[i])
  IN  after[Len(events)]

(***************************************************************************)
(* The relational rules: one trace per session, advanced by each event.    *)
(***************************************************************************)
FreshTrace ==
  [openTurn |-> None, openStep |-> None, nextTurn |-> 1, nextStep |-> 1,
   pendingCalls |-> {}]

requireOpenStep(t, e) == t.openTurn = e.turn /\ t.openStep = e.step

validateEvent(t, e) ==
  \/ e.type = "turn/start" /\ t.openTurn = None /\ e.turn = t.nextTurn
  \/ e.type = "turn/end" /\ t.openTurn = e.turn /\ t.openStep = None
  \/ /\ e.type = "step/start"
     /\ t.openTurn = e.turn /\ t.openStep = None /\ e.step = t.nextStep
  \/ /\ e.type \in {"step/end", "assistant/message", "tool/call"}
     /\ requireOpenStep(t, e)
  \/ /\ e.type = "tool/result" /\ requireOpenStep(t, e)
     /\ e.call \in t.pendingCalls \/ e.error = "TOOL_NOT_STARTED"
  \/ e.type \in {"user/message", "agent/inbox/spliced"}

applyTransition(t, e) ==
  CASE e.type = "turn/start" -> [t EXCEPT !.openTurn = e.turn, !.nextStep = 1]
    [] e.type = "turn/end"   -> [t EXCEPT !.openTurn = None, !.nextTurn = @ + 1]
    [] e.type = "step/start" -> [t EXCEPT !.openStep = e.step]
    [] e.type = "step/end"   -> [t EXCEPT !.openStep = None, !.nextStep = @ + 1,
                                          !.pendingCalls = {}]
    [] e.type = "tool/call"  -> [t EXCEPT !.pendingCalls = @ \cup {e.call}]
    [] e.type = "tool/result" -> [t EXCEPT !.pendingCalls = @ \ {e.call}]
    [] OTHER -> t

\* Traces(events)[i] is the trace after the first i events.
Traces(events) ==
  LET trace[i \in 0..Len(events)] ==
        IF i = 0 THEN FreshTrace ELSE applyTransition(trace[i - 1], events[i])
  IN  trace

\* The events after position n were each accepted when they were appended.
AcceptedAfter(n, events) ==
  LET trace == Traces(events)
  IN  \A i \in (n + 1)..Len(events) : validateEvent(trace[i - 1], events[i])

(***************************************************************************)
(* Crash repair.  Unmatched calls keep the order the model made them in.   *)
(***************************************************************************)
FreshCursor == [openTurn |-> None, openStep |-> None, pendingCalls |-> <<>>]

\* Map.delete on the ordered calls.
Without(calls, call) ==
  LET found == {i \in 1..Len(calls) : calls[i].call = call}
  IN  IF found = {} THEN calls ELSE RemoveAt(calls, Min(found))

\* A plausible bug: step/end does not forget the calls of its step.
LeakedCallsBug(c, e) ==
  CASE e.type = "turn/start" -> [FreshCursor EXCEPT !.openTurn = e.turn]
    [] e.type = "turn/end"   -> FreshCursor
    [] e.type = "step/start" -> [c EXCEPT !.openStep = e.step]
    [] e.type = "step/end"   -> [c EXCEPT !.openStep = None]
    [] e.type = "assistant/message" ->
         [c EXCEPT !.pendingCalls = @ \o [i \in 1..Len(e.calls) |->
            [call |-> e.calls[i], step |-> e.step, started |-> TRUE]]]
    [] e.type = "tool/result" -> [c EXCEPT !.pendingCalls = Without(@, e.call)]
    [] OTHER -> c

scan(c, e) ==
  CASE e.type = "turn/start" ->
         [openTurn |-> e.turn, openStep |-> None, pendingCalls |-> <<>>]
    [] e.type = "turn/end"   -> FreshCursor
    [] e.type = "step/start" -> [c EXCEPT !.openStep = e.step]
    [] e.type = "step/end"   ->
         [c EXCEPT !.openStep = None, !.pendingCalls = <<>>]
    [] e.type = "assistant/message" ->
         [c EXCEPT !.pendingCalls = @ \o [i \in 1..Len(e.calls) |->
            [call |-> e.calls[i], step |-> e.step, started |-> FALSE]]]
    [] e.type = "tool/call"  ->
         [c EXCEPT !.pendingCalls = [i \in 1..Len(@) |->
            IF @[i].call = e.call THEN [@[i] EXCEPT !.started = TRUE] ELSE @[i]]]
    [] e.type = "tool/result" -> [c EXCEPT !.pendingCalls = Without(@, e.call)]
    [] OTHER -> c

interruptedTurnClosers(events) ==
  LET c == Folded(scan, FreshCursor, events)
      results == [i \in 1..Len(c.pendingCalls) |->
        ToolResult(c.openTurn, c.pendingCalls[i].step, c.pendingCalls[i].call,
          IF c.pendingCalls[i].started THEN "TOOL_OUTCOME_UNKNOWN"
                                       ELSE "TOOL_NOT_STARTED")]
      stepEnd == IF c.openStep = None THEN <<>>
                 ELSE <<StepEnd(c.openTurn, c.openStep)>>
  IN  IF c.openTurn = None THEN <<>>
      ELSE results \o stepEnd \o <<TurnEnd(c.openTurn, "interrupted")>>

Recovered(events) == events \o interruptedTurnClosers(events)

(***************************************************************************)
(* What a resumed agent reads back.                                        *)
(***************************************************************************)
EmptyInbox == [target \in Targets |-> <<>>]

\* JavaScript splice at normalized coordinates.
SpliceAt(list, start, removed, inserted) ==
  SubSeq(list, 1, start) \o inserted
    \o SubSeq(list, start + removed + 1, Len(list))

apply(box, e) ==
  IF e.type = "agent/inbox/spliced"
  THEN [box EXCEPT ![e.target] = SpliceAt(@, e.start, e.removed, e.inserted)]
  ELSE box

ReplayInbox(events) == Folded(apply, EmptyInbox, events)

\* The turn of the last turn/start, 0 without one.
findLast(t, e) == IF e.type = "turn/start" THEN e.turn ELSE t
LastTurn(events) == Folded(findLast, 0, events)

(***************************************************************************)
(* foldConsumedWork: the ending that accounts for consumed work, and       *)
(* whether accepted work was cancelled unrun after it.                     *)
(***************************************************************************)
\* A plausible bug: a rejected step is read as having nothing to run.
BlockedIsNothingBug(reason) == reason \notin {"completed", "blocked"}

accountsForClaim(reason) == reason # "completed"

NoWork == [stepped |-> {}, claimed |-> {}, open |-> None, end |-> None,
           droppedUnrun |-> FALSE]

consume(w, e) ==
  CASE e.type = "turn/start" -> [w EXCEPT !.open = e.turn]
    [] e.type = "step/start" -> [w EXCEPT !.stepped = @ \cup {e.turn}]
    [] IsDrop(e)  -> [w EXCEPT !.droppedUnrun = TRUE]
    [] IsClaim(e) -> [w EXCEPT !.claimed =
                        IF w.open = None THEN @ ELSE @ \cup {w.open}]
    [] e.type = "turn/end" ->
         IF \/ e.turn \in w.stepped
            \/ e.turn \in w.claimed /\ accountsForClaim(e.reason)
         THEN [w EXCEPT !.open = None, !.end = e.turn, !.droppedUnrun = FALSE,
                        !.stepped = @ \ {e.turn},
                        !.claimed = IF e.turn \in w.stepped THEN @
                                    ELSE @ \ {e.turn}]
         ELSE [w EXCEPT !.open = None, !.claimed = @ \ {e.turn}]
    [] OTHER -> w

foldConsumedWork(events) ==
  LET w == Folded(consume, NoWork, events)
  IN  [end |-> w.end, droppedUnrun |-> w.droppedUnrun]

(***************************************************************************)
(* The contract of a writer.                                               *)
(***************************************************************************)
Init == log = <<>>

\* A writer appends events, each of which the rules accept.
Extend == IsPrefix(log, log') /\ AcceptedAfter(Len(log), log')

\* A crash keeps what reached storage; loading closes the open turn with
\* events that are themselves accepted.
Recover ==
  /\ \E closers \in 0..Len(log') :
       LET n == Len(log') - closers
       IN  /\ n <= Len(log) /\ log' = Recovered(SubSeq(log, 1, n))
           /\ AcceptedAfter(n, log')
  /\ Traces(log')[Len(log')].openTurn = None

Next == Extend \/ Recover
Spec == Init /\ [][Next]_log
=============================================================================
