------------------------- MODULE AgentDriverProofs -------------------------
(***************************************************************************)
(* For every set of messages and however often anything is cancelled,      *)
(* edited, disposed or crashed: no owed wake is lost, every event of the   *)
(* log is accepted by the relational rules, an aborted driver starts       *)
(* nothing, a turn takes one prompt, a message that was claimed is shown   *)
(* once, by the turn that claimed it, or accounted for, and the account of *)
(* consumed work is right.                                                 *)
(*                                                                         *)
(* The property of wakes speaks of an agent at rest.  What carries it      *)
(* there is WakeOK: while an activity lasts, an owed wake is latched, or   *)
(* is about to be latched by the send that owes it, or is the latch kick   *)
(* has read and not yet looked at.                                         *)
(***************************************************************************)
EXTENDS AgentDriver, SessionLogProofs

WakeOK ==
  /\ phase # "idle" /\ owed # {} =>
       \/ wake
       \/ at = "idled" /\ replay
       \/ call # "none" /\ Latches(call = "wakeAfterAbort")
  /\ phase = "idle" /\ at = "idled" /\ owed # {} => replay
  /\ phase = "idle" /\ at = "none" => owed = {}
  /\ abort = "disposed" => owed = {}

WakeInv == ControlOK /\ WakeOK
-----------------------------------------------------------------------------
\* A new agent satisfies the invariant.
LEMMA InitWakeInv == AgentInit => WakeInv
  BY DEF AgentInit, WakeInv, ControlOK, WakeOK, Causes, Driving, Observers

\* A message that is pending makes the inbox non-empty.
LEMMA PendingIsPending == Pending # {} => hasPending
<1> SUFFICES ASSUME Pending # {}, ~hasPending PROVE FALSE
  OBVIOUS
<1>1. PICK m : m \in Pending
  OBVIOUS
<1>2. PICK target \in Targets : m \in ToSet(inbox[target])
  BY <1>1 DEF Pending
<1>3. inbox[target] = <<>>
  BY <1>2 DEF hasPending
<1>4. ToSet(<<>>) = {}
  BY DEF ToSet
<1> QED
  BY <1>2, <1>3, <1>4

\* The driver moves between two of its own places and the wake is not touched.
LEMMA QuietStep ==
  ASSUME WakeInv, at \in Driving, at' \in Driving,
         UNCHANGED <<phase, abort, wake, replay, call, owed>>
  PROVE  WakeInv'
<1> USE DEF WakeInv, Driving, Observers
<1>1. ControlOK'
  BY DEF ControlOK, Causes
<1>2. at # "idled" /\ at # "none" /\ at' # "idled" /\ at' # "none" /\ phase = "running"
  BY DEF ControlOK
<1>3. WakeOK'
  BY <1>2 DEF WakeOK, Latches
<1> QED
  BY <1>1, <1>3

\* A new driver owes nothing: it claims the queue itself.
LEMMA StartStep ==
  ASSUME WakeInv, StartDriver, call' \in {"none"}
  PROVE  WakeInv'
  BY DEF WakeInv, ControlOK, WakeOK, StartDriver, Driving, Observers, Causes


\* Every step of the driver, its callers and its recovery preserves it.
LEMMA NextWakeInv == WakeInv /\ [AgentNext]_vars => WakeInv'
<1> SUFFICES ASSUME WakeInv, [AgentNext]_vars PROVE WakeInv'
  OBVIOUS
<1> USE DEF vars, control, data, bounds, history
<1>1. ASSUME NEW m \in Messages, NEW target \in Targets, NEW wakeup \in BOOLEAN,
            Send(m, target, wakeup)
     PROVE  WakeInv'
  <2>1. /\ call = "none" /\ call' \in {"none", "wake", "wakeAfterAbort"}
        /\ UNCHANGED <<phase, at, abort, wake, replay>>
    BY <1>1 DEF Send, Open
  <2>2. CASE owed' = owed
    BY <2>1, <2>2 DEF WakeInv, ControlOK, WakeOK, Driving, Observers, Causes, Latches
  <2>3. CASE owed' # owed
    <3>1. wakeup /\ phase # "idle" /\ ~Deliverable /\ abort # "disposed"
      BY <1>1, <2>3 DEF Send
    <3>2. call' = IF abort # "none" THEN "wakeAfterAbort" ELSE "wake"
      BY <1>1, <3>1 DEF Send, AfterAbort
    <3>3. Latches(call = "wakeAfterAbort")'
      BY <2>1, <3>1, <3>2 DEF WakeInv, ControlOK, Causes, Latches, Deliverable
    <3> QED
      BY <2>1, <3>1, <3>2, <3>3 DEF WakeInv, ControlOK, WakeOK, Causes
  <2> QED
    BY <2>2, <2>3
<1>2. ASSUME Edit PROVE WakeInv'
  <2> DEFINE Kept == /\ UNCHANGED <<phase, at, abort, wake, replay, call>>
                     /\ owed = {} => owed' = {}
  <2>1. Kept
    <3>1. ASSUME NEW m, NEW inserted, EditPending(m, inserted) PROVE Kept
      BY <3>1 DEF EditPending
    <3> QED
      BY <1>2, <3>1 DEF Edit, Prepend
  <2> QED
    BY <2>1 DEF WakeInv, ControlOK, WakeOK, Driving, Observers, Causes, Latches
<1>3. ASSUME NEW keepInbox \in BOOLEAN, Cancel(keepInbox) PROVE WakeInv'
  <2>1. /\ UNCHANGED <<phase, at, replay, call>>
        /\ abort' = IF phase # "idle" /\ abort = "none" THEN "user" ELSE abort
    BY <1>3 DEF Cancel, CancelWith, Abort
  <2>2. CASE keepInbox
    <3>1. owed' = owed /\ wake' = wake
      BY <1>3, <2>2 DEF Cancel, CancelWith, WakeInv, ControlOK
    <3> QED
      BY <2>1, <3>1 DEF WakeInv, ControlOK, WakeOK, Driving, Observers, Causes, Latches
  <2>3. CASE ~keepInbox
    <3>1. owed' = {} /\ wake' = FALSE
      BY <1>3, <2>3 DEF Cancel, CancelWith
    <3> QED
      BY <2>1, <3>1 DEF WakeInv, ControlOK, WakeOK, Driving, Observers, Causes, Latches
  <2> QED
    BY <2>2, <2>3
<1>4. ASSUME Dispose PROVE WakeInv'
  <2>1. /\ UNCHANGED <<phase, at, replay, call>>
        /\ abort' = IF phase # "idle" /\ abort = "none" THEN "disposed" ELSE abort
        /\ owed' = {} /\ wake' = FALSE
    BY <1>4 DEF Dispose, CancelWith, Abort
  <2> QED
    BY <2>1 DEF WakeInv, ControlOK, WakeOK, Driving, Observers, Causes, Latches
<1>5. ASSUME RunMaintenance PROVE WakeInv'
  <2>1. /\ phase = "idle" /\ phase' = "maintenance"
        /\ UNCHANGED <<at, abort, wake, replay, call, owed>>
    BY <1>5 DEF RunMaintenance
  <2> QED
    BY <2>1 DEF WakeInv, ControlOK, WakeOK, Driving, Observers, Causes, Latches
<1>6. ASSUME CrashAndResume PROVE WakeInv'
  BY <1>6 DEF CrashAndResume, WakeInv, ControlOK, WakeOK, Driving, Observers, Causes, Latches
<1>7. ASSUME WakeDriver PROVE WakeInv'
  <2>1. call # "none" /\ call' = "none"
    BY <1>7 DEF WakeDriver
  <2>2. CASE StartDriver
    BY <2>1, <2>2, StartStep
  <2>3. CASE LatchWake(call = "wakeAfterAbort") /\ UNCHANGED <<at, replay>>
    <3>1. wake' = (wake \/ Latches(call = "wakeAfterAbort"))
          /\ phase # "idle" /\ UNCHANGED <<phase, abort, owed, at, replay>>
      BY <2>3 DEF LatchWake
    <3> QED
      BY <2>1, <3>1 DEF WakeInv, ControlOK, WakeOK, Driving, Observers, Causes, Latches
  <2> QED
    BY <1>7, <2>2, <2>3 DEF WakeDriver
<1>8. ASSUME EndMaintenance PROVE WakeInv'
  <2>1. /\ phase = "maintenance" /\ at = "none" /\ call = "none" /\ call' = "none"
    BY <1>8 DEF EndMaintenance
  <2>2. CASE StartDriver
    BY <2>1, <2>2, StartStep
  <2>3. CASE ~StartDriver
    <3>1. /\ ~(wake /\ hasPending) /\ phase' = "idle" /\ abort' = "none"
          /\ wake' = FALSE /\ owed' = owed \cap Pending /\ UNCHANGED <<at, replay>>
      BY <1>8, <2>3 DEF EndMaintenance
    <3>2. owed = {} \/ wake
      BY <2>1 DEF WakeInv, WakeOK
    <3>3. owed' = {}
      BY <3>1, <3>2, PendingIsPending
    <3> QED
      BY <2>1, <3>1, <3>3 DEF WakeInv, ControlOK, WakeOK, Driving, Observers, Causes, Latches
  <2> QED
    BY <2>2, <2>3
<1>9. ASSUME Drained PROVE WakeInv'
  <2>1. UNCHANGED <<phase, at, abort, wake, replay, call, owed>>
    BY <1>9 DEF Drained
  <2> QED
    BY <2>1 DEF WakeInv, ControlOK, WakeOK, Driving, Observers, Causes, Latches
<1>10. ASSUME OpenTurn PROVE WakeInv'
  <2>1. /\ at \in Driving /\ at' \in Driving
        /\ UNCHANGED <<phase, abort, wake, replay, call, owed>>
    BY <1>10 DEF OpenTurn, Runs, Driving, Observers
  <2> QED
    BY <2>1, QuietStep
<1>11. ASSUME SkipTurn PROVE WakeInv'
  <2>1. /\ at \in Driving /\ at' \in Driving
        /\ UNCHANGED <<phase, abort, wake, replay, call, owed>>
    BY <1>11 DEF SkipTurn, Goes, Runs, Driving, Observers
  <2> QED
    BY <2>1, QuietStep
<1>12. ASSUME TurnAborts PROVE WakeInv'
  <2>1. /\ at \in Driving /\ at' \in Driving
        /\ UNCHANGED <<phase, abort, wake, replay, call, owed>>
    BY <1>12 DEF TurnAborts, Close, Goes, Runs, Driving, Observers
  <2> QED
    BY <2>1, QuietStep
<1>13. ASSUME FirstClaim PROVE WakeInv'
  <2>1. /\ at \in Driving /\ at' \in Driving
        /\ UNCHANGED <<phase, abort, wake, replay, call, owed>>
    BY <1>13 DEF FirstClaim, Claim, Goes, Runs, Driving, Observers
  <2> QED
    BY <2>1, QuietStep
<1>14. ASSUME Reject PROVE WakeInv'
  <2>1. /\ at \in Driving /\ at' \in Driving
        /\ UNCHANGED <<phase, abort, wake, replay, call, owed>>
    BY <1>14 DEF Reject, Prepared, Close, Goes, Runs, Driving, Observers
  <2> QED
    BY <2>1, QuietStep
<1>15. ASSUME PreStep PROVE WakeInv'
  <2>1. /\ at \in Driving /\ at' \in Driving
        /\ UNCHANGED <<phase, abort, wake, replay, call, owed>>
    BY <1>15 DEF PreStep, Enter, Prepared, Close, Goes, Runs, Driving, Observers
  <2> QED
    BY <2>1, QuietStep
<1>16. ASSUME ListenerFails PROVE WakeInv'
  <2>1. /\ at \in Driving /\ at' \in Driving
        /\ UNCHANGED <<phase, abort, wake, replay, call, owed>>
    BY <1>16 DEF ListenerFails, Goes, Runs, Driving, Observers
  <2> QED
    BY <2>1, QuietStep
<1>17. ASSUME Reply PROVE WakeInv'
  <2>1. /\ at \in Driving /\ at' \in Driving
        /\ UNCHANGED <<phase, abort, wake, replay, call, owed>>
    BY <1>17 DEF Reply, Goes, Runs, Driving, Observers
  <2> QED
    BY <2>1, QuietStep
<1>18. ASSUME ReplyWithTools PROVE WakeInv'
  <2>1. /\ at \in Driving /\ at' \in Driving
        /\ UNCHANGED <<phase, abort, wake, replay, call, owed>>
    BY <1>18 DEF ReplyWithTools, Goes, Runs, Driving, Observers
  <2> QED
    BY <2>1, QuietStep
<1>19. ASSUME Tools PROVE WakeInv'
  <2>1. /\ at \in Driving /\ at' \in Driving
        /\ UNCHANGED <<phase, abort, wake, replay, call, owed>>
    BY <1>19 DEF Tools, ToolSettles, Goes, Runs, Driving, Observers
  <2> QED
    BY <2>1, QuietStep
<1>20. ASSUME StepFails PROVE WakeInv'
  <2>1. /\ at \in Driving /\ at' \in Driving
        /\ UNCHANGED <<phase, abort, wake, replay, call, owed>>
    BY <1>20 DEF StepFails, Goes, Runs, Driving, Observers
  <2> QED
    BY <2>1, QuietStep
<1>21. ASSUME StepAborts PROVE WakeInv'
  <2>1. /\ at \in Driving /\ at' \in Driving
        /\ UNCHANGED <<phase, abort, wake, replay, call, owed>>
    BY <1>21 DEF StepAborts, Goes, Runs, Driving, Observers
  <2> QED
    BY <2>1, QuietStep
<1>22. ASSUME StepEnds PROVE WakeInv'
  <2>1. /\ at \in Driving /\ at' \in Driving
        /\ UNCHANGED <<phase, abort, wake, replay, call, owed>>
    BY <1>22 DEF StepEnds, Goes, Runs, Driving, Observers
  <2> QED
    BY <2>1, QuietStep
<1>23. ASSUME Catch PROVE WakeInv'
  <2>1. /\ at \in Driving /\ at' \in Driving
        /\ UNCHANGED <<phase, abort, wake, replay, call, owed>>
    BY <1>23 DEF Catch, Close, Goes, Runs, Driving, Observers
  <2> QED
    BY <2>1, QuietStep
<1>24. ASSUME CloseFailed PROVE WakeInv'
  <2>1. /\ at \in Driving /\ at' \in Driving
        /\ UNCHANGED <<phase, abort, wake, replay, call, owed>>
    BY <1>24 DEF CloseFailed, Close, Goes, Runs, Driving, Observers
  <2> QED
    BY <2>1, QuietStep
<1>25. ASSUME AskToStop PROVE WakeInv'
  <2>1. /\ at \in Driving /\ at' \in Driving
        /\ UNCHANGED <<phase, abort, wake, replay, call, owed>>
    BY <1>25 DEF AskToStop, Goes, Runs, Driving, Observers
  <2> QED
    BY <2>1, QuietStep
<1>26. ASSUME NextClaim PROVE WakeInv'
  <2>1. /\ at \in Driving /\ at' \in Driving
        /\ UNCHANGED <<phase, abort, wake, replay, call, owed>>
    BY <1>26 DEF NextClaim, Claim, Goes, Runs, Driving, Observers
  <2> QED
    BY <2>1, QuietStep
<1>27. ASSUME Stop PROVE WakeInv'
  <2>1. /\ at \in Driving /\ at' \in Driving
        /\ UNCHANGED <<phase, abort, wake, replay, call, owed>>
    BY <1>27 DEF Stop, Close, Goes, Runs, Driving, Observers
  <2> QED
    BY <2>1, QuietStep
<1>28. ASSUME Continue PROVE WakeInv'
  <2>1. at = "ended" /\ UNCHANGED <<phase, replay, call>>
    BY <1>28 DEF Continue, Runs, Goes
  <2>2. CASE hasPending
    <3>1. /\ at' = "boundary" /\ abort' = "none" /\ wake' = FALSE /\ owed' = {}
      BY <1>28, <2>2 DEF Continue
    <3> QED
      BY <2>1, <3>1 DEF WakeInv, ControlOK, WakeOK, Driving, Observers, Causes, Latches
  <2>3. CASE ~hasPending
    <3>1. at' = "exiting" /\ UNCHANGED <<abort, wake, owed>>
      BY <1>28, <2>3 DEF Continue, Goes
    <3>2. at \in Driving /\ at' \in Driving
      BY <2>1, <3>1 DEF Driving, Observers
    <3> QED
      BY <2>1, <3>1, <3>2, QuietStep
  <2> QED
    BY <2>2, <2>3
<1>29. ASSUME Exit PROVE WakeInv'
  <2>1. /\ at = "exiting" /\ call = "none" /\ call' = "none" /\ owed' = owed
        /\ phase' = "idle" /\ at' = "idled" /\ abort' = "none"
        /\ replay' = wake /\ wake' = FALSE
    BY <1>29 DEF Exit, Runs
  <2>2. phase = "running"
    BY <2>1 DEF WakeInv, ControlOK, Driving
  <2>3. owed # {} => wake
    BY <2>1, <2>2 DEF WakeInv, WakeOK
  <2> QED
    BY <2>1, <2>2, <2>3 DEF WakeInv, ControlOK, WakeOK, Driving, Observers, Causes, Latches
<1>30. ASSUME FinishKick PROVE WakeInv'
  <2>1. at = "idled" /\ call = "none" /\ call' = "none"
    BY <1>30 DEF FinishKick, Runs
  <2>2. CASE StartDriver
    BY <2>1, <2>2, StartStep
  <2>3. CASE replay /\ LatchWake(FALSE) /\ at' = "none" /\ replay' = FALSE
    <3>1. /\ phase # "idle" /\ wake' = (wake \/ Latches(FALSE))
          /\ UNCHANGED <<phase, abort, owed>>
      BY <2>3 DEF LatchWake
    <3> QED
      BY <2>1, <2>3, <3>1 DEF WakeInv, ControlOK, WakeOK, Driving, Observers, Causes, Latches
  <2>4. CASE /\ ~(replay /\ hasPending) /\ at' = "none" /\ replay' = FALSE
             /\ owed' = owed \cap Pending /\ UNCHANGED <<phase, abort, wake>>
    <3>1. owed' # {} => ~replay /\ owed # {}
      BY <2>4, PendingIsPending
    <3> QED
      BY <2>1, <2>4, <3>1 DEF WakeInv, ControlOK, WakeOK, Driving, Observers, Causes, Latches
  <2> QED
    BY <1>30, <2>2, <2>3, <2>4 DEF FinishKick
<1>31. ASSUME PromptClaim PROVE WakeInv'
  <2>1. /\ at \in Driving /\ at' \in Driving
        /\ UNCHANGED <<phase, abort, wake, replay, call, owed>>
    BY <1>31 DEF PromptClaim, Claim, Goes, Runs, Driving, Observers
  <2> QED
    BY <2>1, QuietStep
<1>32. ASSUME AppendMessage PROVE WakeInv'
  <2>1. /\ at \in Driving /\ at' \in Driving
        /\ UNCHANGED <<phase, abort, wake, replay, call, owed>>
    BY <1>32 DEF AppendMessage, Goes, Runs, Driving, Observers
  <2> QED
    BY <2>1, QuietStep
<1>33. ASSUME CutReply PROVE WakeInv'
  <2>1. /\ at \in Driving /\ at' \in Driving
        /\ UNCHANGED <<phase, abort, wake, replay, call, owed>>
    BY <1>33 DEF CutReply, Goes, Runs, Driving, Observers
  <2> QED
    BY <2>1, QuietStep
<1>34. CASE UNCHANGED vars
  BY <1>34 DEF WakeInv, ControlOK, WakeOK, Driving, Observers, Causes, Latches
<1> QED
  BY <1>1, <1>2, <1>3, <1>4, <1>5, <1>6, <1>7, <1>8, <1>9, <1>10, <1>11, <1>12, <1>13, <1>14, <1>15, <1>16, <1>17, <1>18, <1>19, <1>20, <1>21, <1>22, <1>23, <1>24, <1>25, <1>26, <1>27, <1>28, <1>29, <1>30, <1>31, <1>32, <1>33, <1>34
     DEF AgentNext, Input, Driver

\* wakeDriver, kick and runMaintenance: the control state keeps its type, and a
\* wake owed behind an aborted or maintaining activity never rests at idle.
THEOREM ControlCorrect == AgentSpec => []ControlOK
<1>1. AgentSpec => []WakeInv
  BY InitWakeInv, NextWakeInv, PTL DEF AgentSpec
<1>2. WakeInv => ControlOK
  BY DEF WakeInv
<1> QED
  BY <1>1, <1>2, PTL

\* The safety property of the wake protocol, for any messages and bounds.
THEOREM OwedWakeCorrect == AgentSpec => []OwedWakeRuns
<1>1. AgentSpec => []WakeInv
  BY InitWakeInv, NextWakeInv, PTL DEF AgentSpec
<1>2. WakeInv => OwedWakeRuns
  BY DEF WakeInv, WakeOK, OwedWakeRuns
<1> QED
  BY <1>1, <1>2, PTL
-----------------------------------------------------------------------------
(***************************************************************************)
(* The log.  What is said of it is said of every prefix, since a crash     *)
(* keeps any: Reads is how the rules, the repair and a resumed agent read  *)
(* one log, and every event the driver appends keeps the three in step.    *)
(***************************************************************************)
Reasons == Endings \cup {"aborted", "blocked", "error", "interrupted"}
CallIds == Nat \X Nat
Number  == Nat \ {0}
LogEvents ==
  [type : {"turn/start"}, turn : Number]
    \cup [type : {"turn/end"}, turn : Number, reason : Reasons]
    \cup [type : {"step/start", "step/end"}, turn : Number, step : Number]
    \cup [type : {"user/message"}, id : Messages]
    \cup [type : {"assistant/message"}, turn : Number, step : Number,
          calls : {<<>>} \cup {<<c>> : c \in CallIds}]
    \cup [type : {"tool/call"}, turn : Number, step : Number, call : CallIds]
    \cup [type : {"tool/result"}, turn : Number, step : Number, call : CallIds,
          error : {"none", "TOOL_OUTCOME_UNKNOWN", "TOOL_NOT_STARTED"}]
    \cup [type : {"agent/inbox/spliced"}, target : Targets, start : Nat,
          removed : Nat, inserted : Seq(Messages), canceled : BOOLEAN]

Tr(l)  == Traces(l)[Len(l)]
Cur(l) == Folded(scan, FreshCursor, l)

OpenCall(n, s, began) == [call |-> <<n, s>>, step |-> s, started |-> began]

OpenCalls == [call : CallIds, step : Nat, started : BOOLEAN]
CursorSet == [openTurn : Nat, openStep : Nat, pendingCalls : Seq(OpenCalls)]
TraceSet  == [openTurn : Nat, openStep : Nat, nextTurn : Nat, nextStep : Number,
              pendingCalls : SUBSET CallIds]

\* The trace t, the cursor c and the last turn n of one log agree.
Agree(t, c, n) ==
  /\ t \in TraceSet /\ n \in Nat /\ t.openTurn \in {None, n}
  /\ t.nextTurn = IF t.openTurn = None THEN n + 1 ELSE n
  /\ t.openTurn = None => t.openStep = None
  /\ c \in CursorSet /\ c.openTurn = t.openTurn /\ c.openStep = t.openStep
  /\ \/ c.pendingCalls = <<>>
     \/ /\ t.openStep # None
        /\ \E began \in BOOLEAN :
             /\ c.pendingCalls = <<OpenCall(n, t.openStep, began)>>
             /\ began => <<n, t.openStep>> \in t.pendingCalls

Reads(l) == Agree(Tr(l), Cur(l), LastTurn(l))

\* A step has one call, named after it, and a reply is followed by no other.
Simple(c, e) ==
  /\ e.type = "assistant/message" /\ e.calls # <<>> =>
       c.pendingCalls = <<>> /\ e.calls = <<<<e.turn, e.step>>>>
  /\ e.type = "tool/call" => e.call = <<e.turn, e.step>>

\* An answered call is no longer pending, and no other is touched.
LEMMA AnswerOne ==
  ASSUME NEW p, NEW id
  PROVE  /\ Without(<<>>, id) = <<>>
         /\ Without(<<p>>, id) = IF p.call = id THEN <<>> ELSE <<p>>
<1>1. Len(<<>>) = 0 /\ Len(<<p>>) = 1 /\ <<p>>[1] = p
  OBVIOUS
<1>2. Without(<<>>, id) = <<>>
  <2>1. {i \in 1..Len(<<>>) : <<>>[i].call = id} = {}
    BY <1>1
  <2> QED
    BY <2>1 DEF Without
<1>3. CASE p.call # id
  <2>1. {i \in 1..Len(<<p>>) : <<p>>[i].call = id} = {}
    BY <1>1, <1>3
  <2> QED
    BY <1>2, <1>3, <2>1 DEF Without
<1>4. CASE p.call = id
  <2>1. {i \in 1..Len(<<p>>) : <<p>>[i].call = id} = {1}
    BY <1>1, <1>4
  <2>2. Min({1}) = 1
    BY DEF Min
  <2>3. RemoveAt(<<p>>, 1) = <<>>
    BY <1>1 DEF RemoveAt
  <2> QED
    BY <1>2, <1>4, <2>1, <2>2, <2>3 DEF Without
<1> QED
  BY <1>2, <1>3, <1>4

\* What a step's start changes of a trace.
LEMMA EditStepStart ==
  ASSUME NEW t \in TraceSet, NEW x \in Nat,
         NEW u, u = [t EXCEPT !.openStep = x]
  PROVE  /\ u \in TraceSet /\ u.openTurn = t.openTurn /\ u.openStep = x
         /\ u.nextTurn = t.nextTurn /\ u.nextStep = t.nextStep
  BY DEF TraceSet

\* What a call or a result changes of a trace.
LEMMA EditCalls ==
  ASSUME NEW t \in TraceSet, NEW set \in SUBSET CallIds,
         NEW u, u = [t EXCEPT !.pendingCalls = set]
  PROVE  /\ u \in TraceSet /\ u.openTurn = t.openTurn /\ u.openStep = t.openStep
         /\ u.nextTurn = t.nextTurn /\ u.nextStep = t.nextStep
         /\ u.pendingCalls = set
  BY DEF TraceSet

\* What a step's start changes of the cursor.
LEMMA CursorStepStart ==
  ASSUME NEW c \in CursorSet, NEW x \in Nat,
         NEW u, u = [c EXCEPT !.openStep = x]
  PROVE  /\ u \in CursorSet /\ u.openTurn = c.openTurn /\ u.openStep = x
         /\ u.pendingCalls = c.pendingCalls
  BY DEF CursorSet

\* What replies, calls and results change of the cursor.
LEMMA CursorCalls ==
  ASSUME NEW c \in CursorSet, NEW seq \in Seq(OpenCalls),
         NEW u, u = [c EXCEPT !.pendingCalls = seq]
  PROVE  /\ u \in CursorSet /\ u.openTurn = c.openTurn /\ u.openStep = c.openStep
         /\ u.pendingCalls = seq
  BY DEF CursorSet

\* What a turn's start or end makes of the cursor.
LEMMA CursorTurn ==
  ASSUME NEW x \in Nat, NEW y \in Nat, NEW seq \in Seq(OpenCalls),
         NEW u, u = [openTurn |-> x, openStep |-> y, pendingCalls |-> seq]
  PROVE  /\ u \in CursorSet /\ u.openTurn = x /\ u.openStep = y
         /\ u.pendingCalls = seq
  BY DEF CursorSet

\* The pending call of a step, and how it is begun.
LEMMA OneCall ==
  ASSUME NEW n \in Nat, NEW s \in Nat
  PROVE  /\ <<>> \in Seq(OpenCalls)
         /\ \A b \in BOOLEAN : <<OpenCall(n, s, b)>> \in Seq(OpenCalls)
         /\ \A b \in BOOLEAN, d \in BOOLEAN :
              [OpenCall(n, s, b) EXCEPT !.started = d] = OpenCall(n, s, d)
<1>1. ASSUME NEW b \in BOOLEAN PROVE <<OpenCall(n, s, b)>> \in Seq(OpenCalls)
  <2>1. OpenCall(n, s, b) \in OpenCalls
    BY DEF OpenCall, OpenCalls, CallIds
  <2> QED
    BY <2>1
<1>2. <<>> \in Seq(OpenCalls)
  OBVIOUS
<1>3. \A b, d : [OpenCall(n, s, b) EXCEPT !.started = d] = OpenCall(n, s, d)
  BY DEF OpenCall
<1> QED
  BY <1>1, <1>2, <1>3

\* An event the rules accept keeps the readings in agreement.
LEMMA AgreeStep ==
  ASSUME NEW t, NEW c, NEW n, NEW e \in LogEvents, Agree(t, c, n),
         validateEvent(t, e), Simple(c, e)
  PROVE  Agree(applyTransition(t, e), scan(c, e), findLast(n, e))
<1> DEFINE t2 == applyTransition(t, e)
           c2 == scan(c, e)
           n2 == findLast(n, e)
<1>0. /\ None = 0 /\ t \in TraceSet /\ n \in Nat /\ t.openTurn \in {None, n}
      /\ t.nextTurn = IF t.openTurn = None THEN n + 1 ELSE n
      /\ t.openTurn = None => t.openStep = None
      /\ c \in CursorSet /\ c.openTurn = t.openTurn /\ c.openStep = t.openStep
      /\ t.openTurn \in Nat /\ t.openStep \in Nat /\ t.nextTurn \in Nat
      /\ t.nextStep \in Number /\ t.nextStep + 1 \in Number
      /\ t.pendingCalls \in SUBSET CallIds
  BY DEF Agree, None, TraceSet, Number
<1>b. t \in TraceSet /\ c \in CursorSet /\ None \in Nat /\ <<>> \in Seq(OpenCalls)
  BY <1>0, OneCall
<1>a. \/ c.pendingCalls = <<>>
      \/ \E b \in BOOLEAN : /\ c.pendingCalls = <<OpenCall(n, t.openStep, b)>>
                            /\ t.openStep # None
                            /\ b => <<n, t.openStep>> \in t.pendingCalls
  BY DEF Agree
<1>1. CASE e.type = "turn/start"
  <2>1. e.turn \in Number
    BY <1>1 DEF LogEvents
  <2>2. t.openTurn = None /\ e.turn = n + 1
    BY <1>0, <1>1 DEF validateEvent
  <2>3. t2 = [t EXCEPT !.openTurn = e.turn, !.nextStep = 1]
    BY <1>1 DEF applyTransition
  <2>4. c2 = [openTurn |-> e.turn, openStep |-> None, pendingCalls |-> <<>>]
    BY <1>1 DEF scan
  <2>5. n2 = e.turn
    BY <1>1 DEF findLast
  <2> HIDE DEF t2, c2, n2
  <2>6. t2 \in TraceSet /\ t2.openTurn = e.turn /\ t2.openStep = None /\ t2.nextTurn = n + 1
    <3> DEFINE z == 1
    <3>1. z \in Number /\ e.turn \in Nat /\ t2 = [t EXCEPT !.openTurn = e.turn, !.nextStep = z]
      BY <2>1, <2>3 DEF Number
    <3> HIDE DEF z
    <3>2. /\ t2 \in TraceSet /\ t2.openTurn = e.turn /\ t2.openStep = t.openStep
          /\ t2.nextTurn = t.nextTurn
      BY <1>b, <3>1 DEF TraceSet
    <3> QED
      BY <1>0, <2>2, <3>2
  <2>8. /\ c2 \in CursorSet /\ c2.openTurn = e.turn /\ c2.openStep = None
        /\ c2.pendingCalls = <<>>
    <3> DEFINE q == <<>>
    <3>1. e.turn \in Nat /\ None \in Nat /\ q \in Seq(OpenCalls)
      BY <1>b, <2>1 DEF Number
    <3>2. c2 = [openTurn |-> e.turn, openStep |-> None, pendingCalls |-> q]
      BY <2>4
    <3> HIDE DEF q
    <3>3. c2 \in CursorSet /\ c2.openTurn = e.turn /\ c2.openStep = None /\ c2.pendingCalls = q
      BY <3>1, <3>2, CursorTurn
    <3> QED
      BY <3>3 DEF q
  <2>7. Agree(t2, c2, n2)
    BY <1>0, <2>1, <2>2, <2>5, <2>6, <2>8 DEF Agree, Number
  <2> QED
    BY <2>7 DEF t2, c2, n2
<1>2. CASE e.type = "turn/end"
  <2>1. e.turn \in Number
    BY <1>2 DEF LogEvents
  <2>2. t.openTurn = e.turn /\ t.openStep = None /\ e.turn = n
    BY <1>0, <1>2, <2>1 DEF validateEvent, Number
  <2>3. t2 = [t EXCEPT !.openTurn = None, !.nextTurn = @ + 1]
    BY <1>2 DEF applyTransition
  <2>4. c2 = [openTurn |-> None, openStep |-> None, pendingCalls |-> <<>>]
    BY <1>2 DEF scan, FreshCursor
  <2>5. n2 = n
    BY <1>2 DEF findLast
  <2> HIDE DEF t2, c2, n2
  <2>6. t2 \in TraceSet /\ t2.openTurn = None /\ t2.openStep = None /\ t2.nextTurn = n + 1
    <3>1. None \in Nat /\ t.nextTurn + 1 \in Nat /\ t.nextTurn = n
      BY <1>0, <2>1, <2>2 DEF Number
    <3> DEFINE y == t.nextTurn + 1
    <3>2. y \in Nat /\ t2 = [t EXCEPT !.openTurn = None, !.nextTurn = y]
      BY <2>3, <3>1
    <3> HIDE DEF y
    <3>3. /\ t2 \in TraceSet /\ t2.openTurn = None /\ t2.openStep = t.openStep
          /\ t2.nextTurn = y
      BY <1>b, <3>2 DEF TraceSet
    <3> QED
      BY <1>0, <2>2, <3>1, <3>3 DEF y
  <2>8. /\ c2 \in CursorSet /\ c2.openTurn = None /\ c2.openStep = None
        /\ c2.pendingCalls = <<>>
    <3> DEFINE q == <<>>
    <3>1. None \in Nat /\ q \in Seq(OpenCalls)
      BY <1>b
    <3>2. c2 = [openTurn |-> None, openStep |-> None, pendingCalls |-> q]
      BY <2>4
    <3> HIDE DEF q
    <3>3. c2 \in CursorSet /\ c2.openTurn = None /\ c2.openStep = None /\ c2.pendingCalls = q
      BY <3>1, <3>2, CursorTurn
    <3> QED
      BY <3>3 DEF q
  <2>7. Agree(t2, c2, n2)
    BY <1>0, <2>5, <2>6, <2>8 DEF Agree
  <2> QED
    BY <2>7 DEF t2, c2, n2
<1>3. CASE e.type = "step/start"
  <2>1. e.turn \in Number /\ e.step \in Number
    BY <1>3 DEF LogEvents
  <2>2. t.openTurn = e.turn /\ t.openStep = None /\ e.turn = n
    BY <1>0, <1>3, <2>1 DEF validateEvent, Number
  <2>3. t2 = [t EXCEPT !.openStep = e.step]
    BY <1>3 DEF applyTransition
  <2>4. c2 = [c EXCEPT !.openStep = e.step]
    BY <1>3 DEF scan
  <2>5. n2 = n
    BY <1>3 DEF findLast
  <2> HIDE DEF t2, c2, n2
  <2>6. /\ t2 \in TraceSet /\ t2.openTurn = n /\ t2.openStep = e.step
        /\ t2.nextTurn = t.nextTurn
    BY <1>0, <2>1, <2>2, <2>3 DEF TraceSet, Number
  <2>7. c.pendingCalls = <<>>
    BY <1>a, <2>2
  <2>8. /\ c2 \in CursorSet /\ c2.openTurn = n /\ c2.openStep = e.step
        /\ c2.pendingCalls = <<>>
    <3>1. e.step \in Nat
      BY <2>1 DEF Number
    <3> QED
      BY <1>0, <2>2, <2>4, <2>7, <3>1, CursorStepStart
  <2>9. Agree(t2, c2, n2)
    BY <1>0, <2>1, <2>2, <2>5, <2>6, <2>8 DEF Agree, Number
  <2> QED
    BY <2>9 DEF t2, c2, n2
<1>4. CASE e.type = "step/end"
  <2>1. e.turn \in Number /\ e.step \in Number
    BY <1>4 DEF LogEvents
  <2>2. t.openTurn = e.turn /\ e.turn = n
    BY <1>0, <1>4, <2>1 DEF validateEvent, requireOpenStep, Number
  <2>3. t2 = [t EXCEPT !.openStep = None, !.nextStep = @ + 1, !.pendingCalls = {}]
    BY <1>4 DEF applyTransition
  <2>4. c2 = [c EXCEPT !.openStep = None, !.pendingCalls = <<>>]
    BY <1>4 DEF scan
  <2>5. n2 = n
    BY <1>4 DEF findLast
  <2> HIDE DEF t2, c2, n2
  <2>6. /\ t2 \in TraceSet /\ t2.openTurn = n /\ t2.openStep = None
        /\ t2.nextTurn = t.nextTurn
    <3> DEFINE z == t.nextStep + 1
               none == {}
    <3>1. /\ z \in Number /\ none \in SUBSET CallIds
          /\ t2 = [t EXCEPT !.openStep = None, !.nextStep = z, !.pendingCalls = none]
      BY <1>0, <2>3
    <3> HIDE DEF z, none
    <3>2. /\ t2 \in TraceSet /\ t2.openTurn = t.openTurn /\ t2.openStep = None
          /\ t2.nextTurn = t.nextTurn
      BY <1>b, <3>1 DEF TraceSet
    <3> QED
      BY <2>2, <3>2
  <2>8. /\ c2 \in CursorSet /\ c2.openTurn = n /\ c2.openStep = None
        /\ c2.pendingCalls = <<>>
    <3> DEFINE q == <<>>
    <3>1. None \in Nat /\ q \in Seq(OpenCalls)
      BY <1>b
    <3>2. c2 = [c EXCEPT !.openStep = None, !.pendingCalls = q]
      BY <2>4
    <3> HIDE DEF q
    <3>3. /\ c2 \in CursorSet /\ c2.openTurn = c.openTurn /\ c2.openStep = None
          /\ c2.pendingCalls = q
      BY <1>b, <3>1, <3>2 DEF CursorSet
    <3> QED
      BY <1>0, <2>2, <3>3 DEF q
  <2>9. Agree(t2, c2, n2)
    BY <1>0, <2>1, <2>2, <2>5, <2>6, <2>8 DEF Agree, Number
  <2> QED
    BY <2>9 DEF t2, c2, n2
<1>5. CASE e.type = "assistant/message"
  <2>1. e.turn \in Number /\ e.step \in Number
    BY <1>5 DEF LogEvents
  <2>2. t.openTurn = e.turn /\ t.openStep = e.step /\ e.turn = n /\ e.step # None
    BY <1>0, <1>5, <2>1 DEF validateEvent, requireOpenStep, Number
  <2>3. t2 = t /\ n2 = n
    BY <1>5 DEF applyTransition, findLast
  <2>4. c2 = [c EXCEPT !.pendingCalls = @ \o [i \in 1..Len(e.calls) |->
            [call |-> e.calls[i], step |-> e.step, started |-> FALSE]]]
    BY <1>5 DEF scan
  <2> HIDE DEF t2, c2, n2
  <2>6. CASE e.calls = <<>>
    <3> DEFINE q == [i \in 1..Len(e.calls) |->
                      [call |-> e.calls[i], step |-> e.step, started |-> FALSE]]
    <3>1. q = <<>>
      BY <2>6
    <3>2. c.pendingCalls \o <<>> = c.pendingCalls
      <4>1. CASE c.pendingCalls = <<>>
        BY <4>1
      <4>2. ASSUME NEW x, c.pendingCalls = <<x>> PROVE c.pendingCalls \o <<>> = c.pendingCalls
        BY <4>2
      <4> QED
        BY <1>a, <4>1, <4>2
    <3> HIDE DEF q
    <3>3. c2 = [c EXCEPT !.pendingCalls = c.pendingCalls]
      BY <2>4, <3>1, <3>2 DEF q
    <3>4. c2 = c
      BY <1>0, <3>3 DEF CursorSet
    <3> QED
      BY <2>3, <3>4 DEF t2, c2, n2
  <2>7. CASE e.calls # <<>>
    <3>1. c.pendingCalls = <<>> /\ e.calls = <<<<n, t.openStep>>>>
      BY <1>5, <2>2, <2>7 DEF Simple
    <3> DEFINE q == [i \in 1..Len(e.calls) |->
                      [call |-> e.calls[i], step |-> e.step, started |-> FALSE]]
               p == OpenCall(n, t.openStep, FALSE)
    <3>2. q = <<p>>
      <4>1. Len(e.calls) = 1 /\ e.calls[1] = <<n, t.openStep>>
        BY <3>1
      <4>2. \A i \in 1..1 : i = 1
        OBVIOUS
      <4>3. q = [i \in 1..1 |-> [call |-> <<n, t.openStep>>, step |-> t.openStep,
                                 started |-> FALSE]]
        BY <2>2, <4>1, <4>2
      <4> QED
        BY <4>3 DEF OpenCall
    <3> HIDE DEF q, p
    <3>3. <<>> \o <<p>> = <<p>>
      OBVIOUS
    <3>4. c2 = [c EXCEPT !.pendingCalls = <<p>>]
      BY <2>4, <3>1, <3>2, <3>3 DEF q
    <3>5. /\ c2 \in CursorSet /\ c2.openTurn = t.openTurn /\ c2.openStep = t.openStep
          /\ c2.pendingCalls = <<p>>
      <4>1. <<p>> \in Seq(OpenCalls)
        BY <1>0, OneCall DEF p
      <4> QED
        BY <1>0, <3>4, <4>1, CursorCalls
    <3>6. c2.pendingCalls = <<OpenCall(n, t.openStep, FALSE)>>
      BY <3>5 DEF p
    <3>7. Agree(t2, c2, n2)
      BY <1>0, <2>2, <2>3, <3>5, <3>6 DEF Agree
    <3> QED
      BY <3>7 DEF t2, c2, n2
  <2> QED
    BY <2>6, <2>7
<1>6. CASE e.type = "tool/call"
  <2>1. e.turn \in Number /\ e.step \in Number /\ e.call \in CallIds
    BY <1>6 DEF LogEvents
  <2>2. /\ t.openTurn = e.turn /\ t.openStep = e.step /\ e.turn = n /\ e.step # None
        /\ e.call = <<n, t.openStep>>
    BY <1>0, <1>6, <2>1 DEF validateEvent, requireOpenStep, Number, Simple
  <2>3. t2 = [t EXCEPT !.pendingCalls = @ \cup {e.call}] /\ n2 = n
    BY <1>6 DEF applyTransition, findLast
  <2>4. c2 = [c EXCEPT !.pendingCalls = [i \in 1..Len(@) |->
            IF @[i].call = e.call THEN [@[i] EXCEPT !.started = TRUE] ELSE @[i]]]
    BY <1>6 DEF scan
  <2> HIDE DEF t2, c2, n2
  <2>5. /\ t2 \in TraceSet /\ t2.openTurn = t.openTurn /\ t2.openStep = t.openStep
        /\ t2.nextTurn = t.nextTurn /\ <<n, t.openStep>> \in t2.pendingCalls
    <3>1. t.pendingCalls \cup {e.call} \in SUBSET CallIds
      BY <1>0, <2>1
    <3> QED
      BY <1>0, <2>2, <2>3, <3>1, EditCalls
  <2>6. CASE c.pendingCalls = <<>>
    <3>1. [i \in 1..Len(c.pendingCalls) |->
            IF c.pendingCalls[i].call = e.call
            THEN [c.pendingCalls[i] EXCEPT !.started = TRUE] ELSE c.pendingCalls[i]]
          = <<>>
      BY <2>6
    <3>2. /\ c2 \in CursorSet /\ c2.openTurn = t.openTurn /\ c2.openStep = t.openStep
          /\ c2.pendingCalls = <<>>
      <4>1. <<>> \in Seq(OpenCalls)
        BY <1>0, OneCall
      <4>2. c2 = [c EXCEPT !.pendingCalls = <<>>]
        BY <2>4, <3>1
      <4> QED
        BY <1>0, <4>1, <4>2, CursorCalls
    <3>3. Agree(t2, c2, n2)
      BY <1>0, <2>3, <2>5, <3>2 DEF Agree
    <3> QED
      BY <3>3 DEF t2, c2, n2
  <2>7. ASSUME NEW b \in BOOLEAN, c.pendingCalls = <<OpenCall(n, t.openStep, b)>>
        PROVE  Agree(applyTransition(t, e), scan(c, e), findLast(n, e))
    <3> DEFINE p == OpenCall(n, t.openStep, b)
               q == OpenCall(n, t.openStep, TRUE)
    <3>1. [p EXCEPT !.started = TRUE] = q /\ p.call = e.call
      <4>1. TRUE \in BOOLEAN
        OBVIOUS
      <4>2. [p EXCEPT !.started = TRUE] = q
        BY <1>0, <4>1, OneCall
      <4>3. p.call = e.call
        BY <2>2 DEF OpenCall
      <4> QED
        BY <4>2, <4>3
    <3>2. Len(c.pendingCalls) = 1 /\ c.pendingCalls[1] = p
      BY <2>7
    <3> HIDE DEF p, q
    <3>3. [i \in 1..Len(c.pendingCalls) |->
            IF c.pendingCalls[i].call = e.call
            THEN [c.pendingCalls[i] EXCEPT !.started = TRUE] ELSE c.pendingCalls[i]]
          = [i \in 1..1 |-> q]
      BY <3>1, <3>2
    <3>4. [i \in 1..1 |-> q] = <<q>>
      OBVIOUS
    <3>5. c2 = [c EXCEPT !.pendingCalls = <<q>>]
      BY <2>4, <3>3, <3>4
    <3>6. /\ c2 \in CursorSet /\ c2.openTurn = t.openTurn /\ c2.openStep = t.openStep
          /\ c2.pendingCalls = <<q>>
      <4>1. <<q>> \in Seq(OpenCalls)
        BY <1>0, OneCall DEF q
      <4> QED
        BY <1>0, <3>5, <4>1, CursorCalls
    <3>7. c2.pendingCalls = <<OpenCall(n, t.openStep, TRUE)>>
      BY <3>6 DEF q
    <3>8. Agree(t2, c2, n2)
      BY <1>0, <2>2, <2>3, <2>5, <3>6, <3>7 DEF Agree
    <3> QED
      BY <3>8 DEF t2, c2, n2
  <2> QED
    BY <1>a, <2>6, <2>7
<1>7. CASE e.type = "tool/result"
  <2>1. e.call \in CallIds
    BY <1>7 DEF LogEvents
  <2>3. t2 = [t EXCEPT !.pendingCalls = @ \ {e.call}] /\ n2 = n
    BY <1>7 DEF applyTransition, findLast
  <2>4. c2 = [c EXCEPT !.pendingCalls = Without(@, e.call)]
    BY <1>7 DEF scan
  <2> HIDE DEF t2, c2, n2
  <2>5. /\ t2 \in TraceSet /\ t2.openTurn = t.openTurn /\ t2.openStep = t.openStep
        /\ t2.nextTurn = t.nextTurn
    <3> DEFINE rest == t.pendingCalls \ {e.call}
    <3>1. rest \in SUBSET CallIds /\ t2 = [t EXCEPT !.pendingCalls = rest]
      BY <1>0, <2>3
    <3> HIDE DEF rest
    <3> QED
      BY <1>b, <3>1, EditCalls
  <2>6. Without(c.pendingCalls, e.call) \in Seq(OpenCalls) =>
          /\ c2 \in CursorSet /\ c2.openTurn = t.openTurn /\ c2.openStep = t.openStep
          /\ c2.pendingCalls = Without(c.pendingCalls, e.call)
    BY <1>0, <2>4, CursorCalls
  <2>7. CASE Without(c.pendingCalls, e.call) = <<>>
    <3>1. <<>> \in Seq(OpenCalls)
      OBVIOUS
    <3>2. Agree(t2, c2, n2)
      BY <1>0, <2>3, <2>5, <2>6, <2>7, <3>1 DEF Agree
    <3> QED
      BY <3>2 DEF t2, c2, n2
  <2>8. ASSUME NEW b \in BOOLEAN, c.pendingCalls = <<OpenCall(n, t.openStep, b)>>,
               t.openStep # None, b => <<n, t.openStep>> \in t.pendingCalls,
               OpenCall(n, t.openStep, b).call # e.call
        PROVE  Agree(applyTransition(t, e), scan(c, e), findLast(n, e))
    <3>1. Without(c.pendingCalls, e.call) = <<OpenCall(n, t.openStep, b)>>
      BY <2>8, AnswerOne
    <3>2. <<n, t.openStep>> # e.call
      BY <2>8 DEF OpenCall
    <3>3. b => <<n, t.openStep>> \in t2.pendingCalls
      BY <1>0, <2>3, <2>8, <3>2 DEF TraceSet
    <3>4. /\ c2 \in CursorSet /\ c2.openTurn = t.openTurn /\ c2.openStep = t.openStep
          /\ c2.pendingCalls = <<OpenCall(n, t.openStep, b)>>
      BY <1>0, <2>6, <3>1, OneCall
    <3>5. Agree(t2, c2, n2)
      BY <1>0, <2>3, <2>5, <2>8, <3>3, <3>4 DEF Agree
    <3> QED
      BY <3>5 DEF t2, c2, n2
  <2>9. \A b \in BOOLEAN : OpenCall(n, t.openStep, b).call = e.call =>
          Without(<<OpenCall(n, t.openStep, b)>>, e.call) = <<>>
    BY AnswerOne
  <2>10. Without(<<>>, e.call) = <<>>
    BY AnswerOne
  <2> QED
    BY <1>a, <2>7, <2>8, <2>9, <2>10
<1>8. CASE e.type \in {"user/message", "agent/inbox/spliced"}
  BY <1>8 DEF applyTransition, scan, findLast
<1> QED
  BY <1>1, <1>2, <1>3, <1>4, <1>5, <1>6, <1>7, <1>8 DEF validateEvent

\* A log of events the rules accept, read in agreement all along.
Boxed    == [Targets -> Seq(Messages)]
Lawful(l) == /\ l \in Seq(LogEvents) /\ AcceptedAfter(0, l)
             /\ \A k \in 0..Len(l) : /\ Reads(Upto(l, k))
                                     /\ ReplayInbox(Upto(l, k)) \in Boxed

\* A splice is placed within the list it edits.
Placed(box, e) ==
  e.type = "agent/inbox/spliced" => e.start + e.removed <= Len(box[e.target])

\* A splice within a list leaves a list.
LEMMA SpliceTyped ==
  ASSUME NEW S, NEW list \in Seq(S), NEW start \in Nat, NEW removed \in Nat,
         NEW inserted \in Seq(S), start + removed <= Len(list)
  PROVE  SpliceAt(list, start, removed, inserted) \in Seq(S)
<1>1. Len(list) \in Nat /\ start + removed + 1 \in Nat
  OBVIOUS
<1>2. SubSeq(list, start + removed + 1, Len(list)) \in Seq(S)
  <2>1. \A i \in (start + removed + 1)..Len(list) : list[i] \in S
    BY <1>1
  <2> QED
    BY <1>1, <2>1
<1>3. SubSeq(list, 1, start) \in Seq(S)
  BY <1>1
<1> QED
  BY <1>2, <1>3 DEF SpliceAt

\* The inbox stays two lists of messages.
LEMMA ApplyTyped ==
  ASSUME NEW box \in Boxed, NEW e \in LogEvents, Placed(box, e)
  PROVE  apply(box, e) \in Boxed
<1>1. CASE e.type # "agent/inbox/spliced"
  BY <1>1 DEF apply
<1>2. CASE e.type = "agent/inbox/spliced"
  <2>1. /\ e.target \in Targets /\ e.start \in Nat /\ e.removed \in Nat
        /\ e.inserted \in Seq(Messages)
    BY <1>2 DEF LogEvents
  <2>2. box[e.target] \in Seq(Messages)
    BY <2>1 DEF Boxed
  <2>3. SpliceAt(box[e.target], e.start, e.removed, e.inserted) \in Seq(Messages)
    BY <1>2, <2>1, <2>2, SpliceTyped DEF Placed
  <2> QED
    BY <1>2, <2>1, <2>3 DEF apply, Boxed
<1> QED
  BY <1>1, <1>2

\* Each reader takes an appended event after everything before it.
LEMMA ReadersAppend ==
  ASSUME NEW l \in Seq(LogEvents), NEW e \in LogEvents
  PROVE  /\ Tr(Append(l, e)) = applyTransition(Tr(l), e)
         /\ Cur(Append(l, e)) = scan(Cur(l), e)
         /\ LastTurn(Append(l, e)) = findLast(LastTurn(l), e)
         /\ ReplayInbox(Append(l, e)) = apply(ReplayInbox(l), e)
<1>1. Len(Append(l, e)) = Len(l) + 1
  BY PrefixAppend
<1>2. Tr(Append(l, e)) = applyTransition(Tr(l), e)
  BY <1>1, TracesAppend DEF Tr
<1>3. Cur(Append(l, e)) = scan(Cur(l), e)
  BY ScanAppend DEF Cur
<1>4. LastTurn(Append(l, e)) = findLast(LastTurn(l), e)
  BY LastAppend DEF LastTurn
<1>5. ReplayInbox(Append(l, e)) = apply(ReplayInbox(l), e)
  BY ReplayAppend DEF ReplayInbox
<1> QED
  BY <1>2, <1>3, <1>4, <1>5

\* A lawful log is read in agreement.
LEMMA LawfulReads ==
  ASSUME NEW l, Lawful(l)
  PROVE  /\ l \in Seq(LogEvents) /\ Len(l) \in Nat /\ Reads(l)
         /\ ReplayInbox(l) \in Boxed
<1>1. l \in Seq(LogEvents) /\ Len(l) \in Nat /\ Len(l) \in 0..Len(l)
  BY DEF Lawful
<1>2. Upto(l, Len(l)) = l
  BY <1>1, PrefixOf
<1> QED
  BY <1>1, <1>2 DEF Lawful

\* An event that the rules accept extends a lawful log.
LEMMA LawfulAppend ==
  ASSUME NEW l, Lawful(l), NEW e \in LogEvents, validateEvent(Tr(l), e),
         Simple(Cur(l), e), Placed(ReplayInbox(l), e)
  PROVE  /\ Lawful(Append(l, e)) /\ Reads(Append(l, e))
         /\ Tr(Append(l, e)) = applyTransition(Tr(l), e)
         /\ Cur(Append(l, e)) = scan(Cur(l), e)
         /\ LastTurn(Append(l, e)) = findLast(LastTurn(l), e)
         /\ ReplayInbox(Append(l, e)) = apply(ReplayInbox(l), e)
<1>1. /\ l \in Seq(LogEvents) /\ Len(l) \in Nat /\ Reads(l)
      /\ ReplayInbox(l) \in Boxed
  BY LawfulReads
<1>2. /\ Tr(Append(l, e)) = applyTransition(Tr(l), e)
      /\ Cur(Append(l, e)) = scan(Cur(l), e)
      /\ LastTurn(Append(l, e)) = findLast(LastTurn(l), e)
      /\ ReplayInbox(Append(l, e)) = apply(ReplayInbox(l), e)
  BY <1>1, ReadersAppend
<1>3. Reads(Append(l, e))
  BY <1>1, <1>2, AgreeStep DEF Reads
<1>4. AcceptedAfter(0, Append(l, e))
  <2>1. 0 \in 0..Len(l) /\ AcceptedAfter(0, l)
    BY <1>1 DEF Lawful
  <2> QED
    BY <1>1, <2>1, AcceptedAppend DEF Tr
<1>5. /\ Append(l, e) \in Seq(LogEvents) /\ Len(Append(l, e)) = Len(l) + 1
      /\ \A k \in 0..Len(l) : Upto(Append(l, e), k) = Upto(l, k)
      /\ Upto(Append(l, e), Len(l) + 1) = Append(l, e)
  BY <1>1, PrefixAppend
<1>6. ASSUME NEW k \in 0..(Len(l) + 1)
      PROVE  Reads(Upto(Append(l, e), k)) /\ ReplayInbox(Upto(Append(l, e), k)) \in Boxed
  <2>1. CASE k \in 0..Len(l)
    BY <1>5, <2>1 DEF Lawful
  <2>2. CASE k = Len(l) + 1
    BY <1>1, <1>2, <1>3, <1>5, <2>2, ApplyTyped
  <2> QED
    BY <1>1, <2>1, <2>2
<1>7. Lawful(Append(l, e))
  BY <1>4, <1>5, <1>6 DEF Lawful
<1> QED
  BY <1>2, <1>3, <1>7

\* What a crash keeps of a lawful log is lawful.
LEMMA LawfulPrefix ==
  ASSUME NEW l, Lawful(l), NEW n \in 0..Len(l)
  PROVE  Lawful(Upto(l, n))
<1>1. l \in Seq(LogEvents) /\ Len(l) \in Nat /\ AcceptedAfter(0, l)
  BY DEF Lawful
<1>2. /\ Upto(l, n) \in Seq(LogEvents) /\ Len(Upto(l, n)) = n
      /\ \A k \in 0..n : Upto(Upto(l, n), k) = Upto(l, k)
  BY <1>1, PrefixOf
<1>3. \A k \in 0..n : k \in 0..Len(l)
  BY <1>1
<1>4. AcceptedAfter(0, Upto(l, n))
  BY <1>1, AcceptedPrefix
<1> QED
  BY <1>2, <1>3, <1>4 DEF Lawful

\* The empty log.
LEMMA LawfulEmpty ==
  /\ Lawful(<<>>) /\ Tr(<<>>) = FreshTrace /\ LastTurn(<<>>) = 0
  /\ Cur(<<>>) = FreshCursor /\ ReplayInbox(<<>>) = EmptyInbox
<1>1. <<>> \in Seq(LogEvents) /\ Len(<<>>) = 0 /\ 0 \in 0..Len(<<>>)
  OBVIOUS
<1>2. Tr(<<>>) = FreshTrace
  <2> DEFINE m == <<>>
  <2>1. Len(m) = 0 /\ Len(m) \in Nat
    OBVIOUS
  <2> HIDE DEF m
  <2>2. Traces(m) = [i \in 0..Len(m) |-> IF i = 0 THEN FreshTrace
                       ELSE applyTransition(Traces(m)[i - 1], m[i])]
    BY <2>1, TracesDef
  <2>3. Traces(m)[0] = FreshTrace
    BY <2>1, <2>2
  <2> QED
    BY <2>1, <2>3 DEF Tr, m
<1>3. LastTurn(<<>>) = 0 /\ Cur(<<>>) = FreshCursor
  BY ScanEmpty, LastEmpty DEF LastTurn, Cur
<1>4. Reads(<<>>)
  <2>1. <<>> \in Seq(OpenCalls) /\ {} \in SUBSET CallIds
    OBVIOUS
  <2>2. FreshTrace \in TraceSet
    BY <2>1 DEF FreshTrace, TraceSet, None, Number
  <2>3. FreshCursor \in CursorSet
    BY <2>1 DEF FreshCursor, CursorSet, None
  <2>4. /\ FreshTrace.openTurn = None /\ FreshTrace.openStep = None
        /\ FreshTrace.nextTurn = 0 + 1
    BY DEF FreshTrace
  <2>5. /\ FreshCursor.openTurn = None /\ FreshCursor.openStep = None
        /\ FreshCursor.pendingCalls = <<>>
    BY DEF FreshCursor
  <2>6. Agree(FreshTrace, FreshCursor, 0)
    BY <2>2, <2>3, <2>4, <2>5 DEF Agree
  <2> QED
    BY <1>2, <1>3, <2>6 DEF Reads
<1>7. ReplayInbox(<<>>) = EmptyInbox /\ EmptyInbox \in Boxed
  <2>1. <<>> \in Seq(Messages)
    OBVIOUS
  <2> QED
    BY <2>1, ReplayEmpty DEF ReplayInbox, EmptyInbox, Boxed
<1>5. Upto(<<>>, 0) = <<>>
  BY <1>1, PrefixOf
<1>6. AcceptedAfter(0, <<>>)
  BY <1>1 DEF AcceptedAfter
<1>8. \A k \in 0..Len(<<>>) : k = 0
  BY <1>1
<1> QED
  BY <1>1, <1>2, <1>3, <1>4, <1>5, <1>6, <1>7, <1>8 DEF Lawful

Neutral(e) == e.type \in {"user/message", "agent/inbox/spliced"}

\* A message or a splice is always accepted, and moves no reader but the inbox.
LEMMA NeutralAppend ==
  ASSUME NEW l, Lawful(l), NEW e \in LogEvents, Neutral(e),
         Placed(ReplayInbox(l), e)
  PROVE  /\ Lawful(Append(l, e)) /\ Tr(Append(l, e)) = Tr(l)
         /\ Cur(Append(l, e)) = Cur(l) /\ LastTurn(Append(l, e)) = LastTurn(l)
         /\ ReplayInbox(Append(l, e)) = apply(ReplayInbox(l), e)
<1>1. validateEvent(Tr(l), e) /\ Simple(Cur(l), e)
  BY DEF Neutral, validateEvent, Simple
<1>2. /\ applyTransition(Tr(l), e) = Tr(l) /\ scan(Cur(l), e) = Cur(l)
      /\ findLast(LastTurn(l), e) = LastTurn(l)
  BY DEF Neutral, applyTransition, scan, findLast
<1> QED
  BY <1>1, <1>2, LawfulAppend
-----------------------------------------------------------------------------
\* The closers of a lawful log, one after the other.
Interrupted(l) == TurnEnd(LastTurn(l), "interrupted")
Ended(l)       == StepEnd(LastTurn(l), Tr(l).openStep)
Answered(l, code) ==
  ToolResult(LastTurn(l), Tr(l).openStep, <<LastTurn(l), Tr(l).openStep>>, code)

Closes(l, m) ==
  /\ Tr(l).openTurn = None => m = l
  /\ Tr(l).openTurn # None =>
       \/ Tr(l).openStep = None /\ m = Append(l, Interrupted(l))
       \/ Tr(l).openStep # None /\ m = Append(Append(l, Ended(l)), Interrupted(l))
       \/ /\ Tr(l).openStep # None
          /\ \E code \in {"TOOL_OUTCOME_UNKNOWN", "TOOL_NOT_STARTED"} :
               /\ code = "TOOL_OUTCOME_UNKNOWN" =>
                    <<LastTurn(l), Tr(l).openStep>> \in Tr(l).pendingCalls
               /\ m = Append(Append(Append(l, Answered(l, code)), Ended(l)),
                             Interrupted(l))

\* interruptedTurnClosers answers the open call, ends the step and the turn.
LEMMA ClosersOf ==
  ASSUME NEW l, Lawful(l)
  PROVE  Closes(l, Recovered(l))
<1> DEFINE t == Tr(l)
           c == Cur(l)
           n == LastTurn(l)
           rest == interruptedTurnClosers(l)
<1>1. l \in Seq(LogEvents) /\ Agree(t, c, n)
  BY LawfulReads DEF Reads
<1>2. c.openTurn = t.openTurn /\ c.openStep = t.openStep
  BY <1>1 DEF Agree
<1>3. \A x, y, z : /\ l \o <<x>> = Append(l, x)
                   /\ l \o <<x, y>> = Append(Append(l, x), y)
                   /\ l \o <<x, y, z>> = Append(Append(Append(l, x), y), z)
  BY <1>1
<1>4. ASSUME NEW x, NEW y, NEW z
      PROVE  /\ (<<>> \o <<>>) \o <<x>> = <<x>>
             /\ (<<>> \o <<x>>) \o <<y>> = <<x, y>>
             /\ (<<x>> \o <<y>>) \o <<z>> = <<x, y, z>>
  <2>1. <<>> \o <<>> = <<>>
    OBVIOUS
  <2>2. <<>> \o <<x>> = <<x>>
    OBVIOUS
  <2> DEFINE S == {x, y, z}
  <2>5. <<x>> \in Seq(S) /\ <<x, y>> \in Seq(S) /\ y \in S /\ z \in S
    OBVIOUS
  <2>6. /\ <<z>> \in Seq(S) /\ <<y>> \in Seq(S) /\ <<x, y, z>> \in Seq(S)
        /\ Len(<<x>>) = 1 /\ Len(<<y>>) = 1 /\ Len(<<z>>) = 1
        /\ Len(<<x, y>>) = 2 /\ Len(<<x, y, z>>) = 3
        /\ <<x>>[1] = x /\ <<y>>[1] = y /\ <<z>>[1] = z
        /\ <<x, y>>[1] = x /\ <<x, y>>[2] = y
        /\ <<x, y, z>>[1] = x /\ <<x, y, z>>[2] = y /\ <<x, y, z>>[3] = z
    OBVIOUS
  <2> HIDE DEF S
  <2>3. <<x>> \o <<y>> = <<x, y>>
    <3> DEFINE a == <<x>>
               b == <<y>>
               c2 == <<x, y>>
    <3>1. /\ a \in Seq(S) /\ b \in Seq(S) /\ c2 \in Seq(S) /\ Len(a) = 1 /\ Len(b) = 1
          /\ Len(c2) = 2 /\ a[1] = c2[1] /\ b[1] = c2[2]
      BY <2>5, <2>6
    <3> HIDE DEF a, b, c2
    <3>2. /\ a \o b \in Seq(S) /\ Len(a \o b) = 2
          /\ (a \o b)[1] = c2[1] /\ (a \o b)[2] = c2[2]
      BY <3>1, ConcatProperties
    <3>3. \A i \in 1..2 : (a \o b)[i] = c2[i]
      BY <3>2
    <3>4. a \o b = c2
      BY <3>1, <3>2, <3>3, SeqEqual
    <3> QED
      BY <3>4 DEF a, b, c2
  <2>4. <<x, y>> \o <<z>> = <<x, y, z>>
    <3> DEFINE a == <<x, y>>
               b == <<z>>
               c2 == <<x, y, z>>
    <3>1. /\ a \in Seq(S) /\ b \in Seq(S) /\ c2 \in Seq(S) /\ Len(a) = 2 /\ Len(b) = 1
          /\ Len(c2) = 3 /\ a[1] = c2[1] /\ a[2] = c2[2] /\ b[1] = c2[3]
      BY <2>5, <2>6
    <3> HIDE DEF a, b, c2
    <3>6. /\ a \o b \in Seq(S) /\ Len(a \o b) = Len(a) + Len(b)
          /\ \A i \in 1..(Len(a) + Len(b)) :
               (a \o b)[i] = IF i <= Len(a) THEN a[i] ELSE b[i - Len(a)]
      <4>1. a \in Seq(S) /\ b \in Seq(S)
        BY <3>1
      <4> QED
        BY <4>1, ConcatProperties
    <3>5. /\ a \o b \in Seq(S) /\ Len(a \o b) = 3
          /\ \A i \in 1..3 : (a \o b)[i] = IF i <= 2 THEN a[i] ELSE b[i - 2]
      BY <3>1, <3>6
    <3>2. /\ a \o b \in Seq(S) /\ Len(a \o b) = 3
          /\ (a \o b)[1] = c2[1] /\ (a \o b)[2] = c2[2] /\ (a \o b)[3] = c2[3]
      BY <3>1, <3>5
    <3>3. \A i \in 1..3 : (a \o b)[i] = c2[i]
      BY <3>2
    <3>4. a \o b = c2
      BY <3>1, <3>2, <3>3, SeqEqual
    <3> QED
      BY <3>4 DEF a, b, c2
  <2> QED
    BY <2>1, <2>2, <2>3, <2>4
<1> DEFINE results == [i \in 1..Len(c.pendingCalls) |->
             ToolResult(c.openTurn, c.pendingCalls[i].step, c.pendingCalls[i].call,
               IF c.pendingCalls[i].started THEN "TOOL_OUTCOME_UNKNOWN"
                                            ELSE "TOOL_NOT_STARTED")]
           ends == IF c.openStep = None THEN <<>> ELSE <<StepEnd(c.openTurn, c.openStep)>>
           last == TurnEnd(c.openTurn, "interrupted")
<1>5. rest = IF c.openTurn = None THEN <<>> ELSE (results \o ends) \o <<last>>
  BY DEF interruptedTurnClosers, Cur
<1>6. CASE t.openTurn = None
  <2>1. rest = <<>>
    BY <1>2, <1>5, <1>6
  <2>2. l \o <<>> = l
    BY <1>1
  <2> QED
    BY <1>6, <2>1, <2>2 DEF Closes, Recovered
<1>7. CASE t.openTurn # None
  <2>1. c.openTurn = n /\ last = Interrupted(l) /\ rest = (results \o ends) \o <<last>>
    BY <1>1, <1>2, <1>5, <1>7 DEF Agree, Interrupted
  <2>2. t.openStep # None => ends = <<Ended(l)>>
    BY <1>2, <2>1 DEF Ended
  <2>3. t.openStep = None => ends = <<>>
    BY <1>2
  <2>4. CASE c.pendingCalls = <<>>
    <3>1. results = <<>>
      BY <2>4
    <3> HIDE DEF results, ends, last, rest
    <3>2. t.openStep = None => rest = <<Interrupted(l)>>
      BY <1>4, <2>1, <2>3, <3>1
    <3>3. t.openStep # None => rest = <<Ended(l), Interrupted(l)>>
      BY <1>4, <2>1, <2>2, <3>1
    <3> QED
      BY <1>3, <1>7, <3>2, <3>3 DEF Closes, Recovered, rest
  <2>5. ASSUME NEW b \in BOOLEAN, t.openStep # None,
               c.pendingCalls = <<OpenCall(n, t.openStep, b)>>,
               b => <<n, t.openStep>> \in t.pendingCalls
        PROVE  Closes(l, Recovered(l))
    <3> DEFINE code == IF b THEN "TOOL_OUTCOME_UNKNOWN" ELSE "TOOL_NOT_STARTED"
    <3>1. Len(c.pendingCalls) = 1 /\ c.pendingCalls[1] = OpenCall(n, t.openStep, b)
      BY <2>5
    <3>2. \A i \in 1..1 : i = 1
      OBVIOUS
    <3>3. results = [i \in 1..1 |-> Answered(l, code)]
      BY <2>1, <3>1, <3>2 DEF OpenCall, Answered
    <3>4. results = <<Answered(l, code)>>
      <4> HIDE DEF results, code
      <4> QED
        BY <3>3
    <3>5. /\ code \in {"TOOL_OUTCOME_UNKNOWN", "TOOL_NOT_STARTED"}
          /\ code = "TOOL_OUTCOME_UNKNOWN" => <<n, t.openStep>> \in t.pendingCalls
      BY <2>5
    <3> HIDE DEF results, ends, last, rest, code
    <3>6. rest = <<Answered(l, code), Ended(l), Interrupted(l)>>
      <4>1. rest = (<<Answered(l, code)>> \o <<Ended(l)>>) \o <<Interrupted(l)>>
        BY <2>1, <2>2, <2>5, <3>4
      <4> QED
        BY <1>4, <4>1
    <3>7. l \o rest = Append(Append(Append(l, Answered(l, code)), Ended(l)), Interrupted(l))
      BY <1>3, <3>6
    <3> QED
      BY <1>7, <2>5, <3>5, <3>7 DEF Closes, Recovered, rest
  <2> QED
    BY <1>1, <2>4, <2>5 DEF Agree
<1> QED
  BY <1>6, <1>7
-----------------------------------------------------------------------------
\* m is l with more events, all of them accepted.
Continues(l, m) == Lawful(m) /\ Len(l) <= Len(m) /\ Upto(m, Len(l)) = l

\* Where a turn n with step s, or with none, is open.
OpenAt(l, n, s) ==
  Lawful(l) /\ LastTurn(l) = n /\ n # None /\ Tr(l).openTurn = n /\ Tr(l).openStep = s

\* A log continues itself.
LEMMA ContinuesSelf ==
  ASSUME NEW l, Lawful(l)
  PROVE  Continues(l, l)
  BY LawfulReads, PrefixOf DEF Continues

\* A continuation continues with each event.
LEMMA ContinuesAppend ==
  ASSUME NEW l, NEW m, NEW e, Lawful(l), Continues(l, m), e \in LogEvents,
         Lawful(Append(m, e))
  PROVE  Continues(l, Append(m, e))
<1>1. /\ Len(l) \in Nat /\ m \in Seq(LogEvents) /\ Len(m) \in Nat
      /\ Len(l) \in 0..Len(m)
  BY LawfulReads DEF Continues
<1>2. Len(Append(m, e)) = Len(m) + 1 /\ Upto(Append(m, e), Len(l)) = Upto(m, Len(l))
  BY <1>1, PrefixAppend
<1> QED
  BY <1>1, <1>2 DEF Continues

\* A lawful log has one trace, cursor and turn, all of their types.
LEMMA LawfulAgrees ==
  ASSUME NEW l, Lawful(l)
  PROVE  /\ l \in Seq(LogEvents) /\ Tr(l) \in TraceSet /\ LastTurn(l) \in Nat
         /\ Tr(l).openTurn \in Nat /\ Tr(l).openStep \in Nat
         /\ Tr(l).nextStep \in Number /\ Tr(l).pendingCalls \in SUBSET CallIds
         /\ Tr(l).openTurn \in {None, LastTurn(l)}
         /\ Tr(l).nextTurn = IF Tr(l).openTurn = None THEN LastTurn(l) + 1
                                                      ELSE LastTurn(l)
         /\ Tr(l).openTurn = None => Tr(l).openStep = None
         /\ Cur(l) \in CursorSet
         /\ Tr(l).openStep = None => Cur(l).pendingCalls = <<>>
<1>1. Agree(Tr(l), Cur(l), LastTurn(l)) /\ l \in Seq(LogEvents)
  BY LawfulReads DEF Reads
<1>2. Tr(l) \in TraceSet
  BY <1>1 DEF Agree
<1>3. /\ Tr(l).openTurn \in Nat /\ Tr(l).openStep \in Nat /\ Tr(l).nextStep \in Number
      /\ Tr(l).pendingCalls \in SUBSET CallIds
  BY <1>2 DEF TraceSet
<1> QED
  BY <1>1, <1>2, <1>3 DEF Agree

\* turn/start opens the next turn.
LEMMA TurnStarts ==
  ASSUME NEW l, NEW m, Lawful(l), Tr(l).openTurn = None,
         m = Append(l, TurnStart(LastTurn(l) + 1))
  PROVE  /\ Continues(l, m) /\ OpenAt(m, LastTurn(l) + 1, None)
         /\ Tr(m).nextStep = 1 /\ ReplayInbox(m) = ReplayInbox(l)
<1> DEFINE e == TurnStart(LastTurn(l) + 1)
<1>1. e.type = "turn/start" /\ e.turn = LastTurn(l) + 1
  BY DEF TurnStart
<1>2. /\ Tr(l) \in TraceSet /\ LastTurn(l) \in Nat /\ Tr(l).openStep = None
      /\ Tr(l).nextTurn = LastTurn(l) + 1
  BY LawfulAgrees
<1>3. e \in LogEvents
  BY <1>2 DEF TurnStart, LogEvents, Number
<1> HIDE DEF e
<1>4. validateEvent(Tr(l), e) /\ Simple(Cur(l), e) /\ Placed(ReplayInbox(l), e)
  BY <1>1, <1>2 DEF validateEvent, Simple, Placed
<1>5. /\ Lawful(m) /\ Tr(m) = applyTransition(Tr(l), e)
      /\ LastTurn(m) = findLast(LastTurn(l), e)
      /\ ReplayInbox(m) = apply(ReplayInbox(l), e)
  BY <1>3, <1>4, LawfulAppend DEF e
<1>6. /\ applyTransition(Tr(l), e) = [Tr(l) EXCEPT !.openTurn = e.turn, !.nextStep = 1]
      /\ findLast(LastTurn(l), e) = e.turn /\ apply(ReplayInbox(l), e) = ReplayInbox(l)
  BY <1>1 DEF applyTransition, findLast, apply
<1>7. /\ Tr(m).openTurn = e.turn /\ Tr(m).openStep = Tr(l).openStep
      /\ Tr(m).nextStep = 1
  BY <1>2, <1>5, <1>6 DEF TraceSet
<1>8. Continues(l, m)
  BY <1>3, <1>5, ContinuesSelf, ContinuesAppend DEF e
<1> QED
  BY <1>1, <1>2, <1>5, <1>6, <1>7, <1>8 DEF OpenAt, None

\* turn/end closes the open turn.
LEMMA TurnEnds ==
  ASSUME NEW l, NEW n, NEW r, NEW m, OpenAt(l, n, None), r \in Reasons,
         m = Append(l, TurnEnd(n, r))
  PROVE  /\ Continues(l, m) /\ Tr(m).openTurn = None /\ LastTurn(m) = n
         /\ ReplayInbox(m) = ReplayInbox(l)
<1> DEFINE e == TurnEnd(n, r)
<1>1. e.type = "turn/end" /\ e.turn = n
  BY DEF TurnEnd
<1>2. /\ Lawful(l) /\ Tr(l) \in TraceSet /\ n \in Number /\ Tr(l).openTurn = n
      /\ Tr(l).openStep = None /\ LastTurn(l) = n
  BY LawfulAgrees DEF OpenAt, None, Number
<1>3. e \in LogEvents
  BY <1>2 DEF TurnEnd, LogEvents
<1> HIDE DEF e
<1>4. validateEvent(Tr(l), e) /\ Simple(Cur(l), e) /\ Placed(ReplayInbox(l), e)
  BY <1>1, <1>2 DEF validateEvent, Simple, Placed
<1>5. /\ Lawful(m) /\ Tr(m) = applyTransition(Tr(l), e)
      /\ LastTurn(m) = findLast(LastTurn(l), e)
      /\ ReplayInbox(m) = apply(ReplayInbox(l), e)
  BY <1>2, <1>3, <1>4, LawfulAppend DEF e
<1>6. /\ applyTransition(Tr(l), e) = [Tr(l) EXCEPT !.openTurn = None, !.nextTurn = @ + 1]
      /\ findLast(LastTurn(l), e) = LastTurn(l) /\ apply(ReplayInbox(l), e) = ReplayInbox(l)
  BY <1>1 DEF applyTransition, findLast, apply
<1>7. Tr(m).openTurn = None
  BY <1>2, <1>5, <1>6 DEF TraceSet
<1>8. Continues(l, m)
  BY <1>2, <1>3, <1>5, ContinuesSelf, ContinuesAppend DEF e
<1> QED
  BY <1>2, <1>5, <1>6, <1>7, <1>8

\* step/start opens the next step, with no call pending.
LEMMA StepStarts ==
  ASSUME NEW l, NEW n, NEW m, OpenAt(l, n, None),
         m = Append(l, StepStart(n, Tr(l).nextStep))
  PROVE  /\ Continues(l, m) /\ OpenAt(m, n, Tr(l).nextStep)
         /\ Tr(m).nextStep = Tr(l).nextStep /\ Cur(m).pendingCalls = <<>>
         /\ ReplayInbox(m) = ReplayInbox(l)
<1> DEFINE s == Tr(l).nextStep
           e == StepStart(n, s)
<1>1. e.type = "step/start" /\ e.turn = n /\ e.step = s
  BY DEF StepStart
<1>2. /\ Lawful(l) /\ Tr(l) \in TraceSet /\ n \in Number /\ Tr(l).openTurn = n
      /\ Tr(l).openStep = None /\ LastTurn(l) = n /\ s \in Number
      /\ Cur(l) \in CursorSet /\ Cur(l).pendingCalls = <<>>
  BY LawfulAgrees DEF OpenAt, None, Number
<1>3. e \in LogEvents
  BY <1>2 DEF StepStart, LogEvents
<1>a. s \in Nat /\ m = Append(l, e)
  BY <1>2 DEF Number
<1>b. s = Tr(l).nextStep
  OBVIOUS
<1> HIDE DEF e, s
<1>4. validateEvent(Tr(l), e) /\ Simple(Cur(l), e) /\ Placed(ReplayInbox(l), e)
  BY <1>1, <1>2, <1>b DEF validateEvent, Simple, Placed
<1>5. /\ Lawful(m) /\ Tr(m) = applyTransition(Tr(l), e)
      /\ Cur(m) = scan(Cur(l), e)
      /\ LastTurn(m) = findLast(LastTurn(l), e)
      /\ ReplayInbox(m) = apply(ReplayInbox(l), e)
  BY <1>2, <1>3, <1>4, <1>a, LawfulAppend
<1>6. /\ applyTransition(Tr(l), e) = [Tr(l) EXCEPT !.openStep = s]
      /\ scan(Cur(l), e) = [Cur(l) EXCEPT !.openStep = s]
      /\ findLast(LastTurn(l), e) = LastTurn(l) /\ apply(ReplayInbox(l), e) = ReplayInbox(l)
  BY <1>1 DEF applyTransition, scan, findLast, apply
<1>7. /\ Tr(m).openTurn = n /\ Tr(m).openStep = s /\ Tr(m).nextStep = s
      /\ Cur(m).pendingCalls = <<>>
  BY <1>2, <1>5, <1>6, <1>a, <1>b, EditStepStart, CursorStepStart
<1>8. Continues(l, m)
  BY <1>2, <1>3, <1>5, <1>a, ContinuesSelf, ContinuesAppend
<1> QED
  BY <1>2, <1>5, <1>6, <1>7, <1>8, <1>b DEF OpenAt

\* step/end closes the open step.
LEMMA StepEndsAt ==
  ASSUME NEW l, NEW n, NEW s, NEW m, OpenAt(l, n, s), s # None,
         m = Append(l, StepEnd(n, s))
  PROVE  /\ Continues(l, m) /\ OpenAt(m, n, None)
         /\ Tr(m).nextStep = Tr(l).nextStep + 1
         /\ ReplayInbox(m) = ReplayInbox(l)
<1> DEFINE e == StepEnd(n, s)
<1>1. e.type = "step/end" /\ e.turn = n /\ e.step = s
  BY DEF StepEnd
<1>2. /\ Lawful(l) /\ Tr(l) \in TraceSet /\ n \in Number /\ Tr(l).openTurn = n
      /\ Tr(l).openStep = s /\ LastTurn(l) = n /\ s \in Number
  BY LawfulAgrees DEF OpenAt, None, Number
<1>3. e \in LogEvents
  BY <1>2 DEF StepEnd, LogEvents
<1> HIDE DEF e
<1>4. validateEvent(Tr(l), e) /\ Simple(Cur(l), e) /\ Placed(ReplayInbox(l), e)
  BY <1>1, <1>2 DEF validateEvent, requireOpenStep, Simple, Placed
<1>5. /\ Lawful(m) /\ Tr(m) = applyTransition(Tr(l), e)
      /\ LastTurn(m) = findLast(LastTurn(l), e)
      /\ ReplayInbox(m) = apply(ReplayInbox(l), e)
  BY <1>2, <1>3, <1>4, LawfulAppend DEF e
<1>6. /\ applyTransition(Tr(l), e)
           = [Tr(l) EXCEPT !.openStep = None, !.nextStep = @ + 1, !.pendingCalls = {}]
      /\ findLast(LastTurn(l), e) = LastTurn(l) /\ apply(ReplayInbox(l), e) = ReplayInbox(l)
  BY <1>1 DEF applyTransition, findLast, apply
<1>7. /\ Tr(m).openTurn = n /\ Tr(m).openStep = None
      /\ Tr(m).nextStep = Tr(l).nextStep + 1
  BY <1>2, <1>5, <1>6 DEF TraceSet
<1>8. Continues(l, m)
  BY <1>2, <1>3, <1>5, ContinuesSelf, ContinuesAppend DEF e
<1> QED
  BY <1>2, <1>5, <1>6, <1>7, <1>8 DEF OpenAt

\* OpenAt, of a log that is already known to be lawful.
StillOpen(l, n, s) == LastTurn(l) = n /\ Tr(l).openTurn = n /\ Tr(l).openStep = s

\* A step's one call is named after it.
CallOf(n, s) == <<n, s>>

\* m is l with one more event.
Adds(l, m, e) == m = Append(l, e)

\* A reply has no call, or the step's one.
CallsOf(n, s, cs) == cs \in {<<>>, <<CallOf(n, s)>>}

\* A reply leaves its step open; its one call is named after the step.
LEMMA StepReplies ==
  ASSUME NEW l, NEW n, NEW s, NEW cs, NEW m, OpenAt(l, n, s), s # None,
         Cur(l).pendingCalls = <<>>, CallsOf(n, s, cs),
         Adds(l, m, Assistant(n, s, cs))
  PROVE  /\ Continues(l, m) /\ StillOpen(m, n, s) /\ Tr(m) = Tr(l)
         /\ ReplayInbox(m) = ReplayInbox(l)
<1> DEFINE e == Assistant(n, s, cs)
<1>0. m = Append(l, e)
  BY DEF Adds
<1>1. e.type = "assistant/message" /\ e.turn = n /\ e.step = s /\ e.calls = cs
  BY DEF Assistant
<1>2. /\ Lawful(l) /\ Tr(l) \in TraceSet /\ n \in Number /\ Tr(l).openTurn = n
      /\ Tr(l).openStep = s /\ LastTurn(l) = n /\ s \in Number
  BY LawfulAgrees DEF OpenAt, None, Number
<1>3. e \in LogEvents
  <2>1. CallOf(n, s) \in CallIds
    BY <1>2 DEF CallIds, Number, CallOf
  <2>2. cs \in {<<>>} \cup {<<c>> : c \in CallIds}
    BY <2>1 DEF CallsOf
  <2> HIDE DEF CallIds
  <2> QED
    BY <1>2, <2>2 DEF Assistant, LogEvents
<1> HIDE DEF e
<1>4. validateEvent(Tr(l), e) /\ Simple(Cur(l), e) /\ Placed(ReplayInbox(l), e)
  BY <1>1, <1>2 DEF CallOf, CallsOf, validateEvent, requireOpenStep, Simple, Placed
<1>5. /\ Lawful(m) /\ Tr(m) = applyTransition(Tr(l), e)
      /\ LastTurn(m) = findLast(LastTurn(l), e)
      /\ ReplayInbox(m) = apply(ReplayInbox(l), e)
  BY <1>0, <1>2, <1>3, <1>4, LawfulAppend
<1>6. /\ applyTransition(Tr(l), e) = Tr(l)
      /\ findLast(LastTurn(l), e) = LastTurn(l) /\ apply(ReplayInbox(l), e) = ReplayInbox(l)
  BY <1>1 DEF applyTransition, findLast, apply
<1>8. Continues(l, m)
  BY <1>0, <1>2, <1>3, <1>5, ContinuesSelf, ContinuesAppend
<1> QED
  BY <1>2, <1>5, <1>6, <1>8 DEF StillOpen

\* A call starts within its step.
LEMMA CallStarts ==
  ASSUME NEW l, NEW n, NEW s, NEW m, OpenAt(l, n, s), s # None,
         Adds(l, m, ToolCall(n, s, CallOf(n, s)))
  PROVE  /\ Continues(l, m) /\ StillOpen(m, n, s) /\ Tr(m).nextStep = Tr(l).nextStep
         /\ CallOf(n, s) \in Tr(m).pendingCalls
         /\ ReplayInbox(m) = ReplayInbox(l)
<1> DEFINE e == ToolCall(n, s, CallOf(n, s))
<1>0. m = Append(l, e)
  BY DEF Adds
<1>1. e.type = "tool/call" /\ e.turn = n /\ e.step = s /\ e.call = CallOf(n, s)
  BY DEF ToolCall
<1>2. /\ Lawful(l) /\ Tr(l) \in TraceSet /\ n \in Number /\ Tr(l).openTurn = n
      /\ Tr(l).openStep = s /\ LastTurn(l) = n /\ s \in Number
      /\ Tr(l).pendingCalls \in SUBSET CallIds
  BY LawfulAgrees DEF OpenAt, None, Number
<1>3. CallOf(n, s) \in CallIds /\ e \in LogEvents
  BY <1>2 DEF CallOf, ToolCall, LogEvents, CallIds, Number
<1> HIDE DEF e
<1>4. validateEvent(Tr(l), e) /\ Simple(Cur(l), e) /\ Placed(ReplayInbox(l), e)
  BY <1>1, <1>2 DEF CallOf, validateEvent, requireOpenStep, Simple, Placed
<1>5. /\ Lawful(m) /\ Tr(m) = applyTransition(Tr(l), e)
      /\ LastTurn(m) = findLast(LastTurn(l), e)
      /\ ReplayInbox(m) = apply(ReplayInbox(l), e)
  BY <1>0, <1>2, <1>3, <1>4, LawfulAppend
<1> DEFINE more == Tr(l).pendingCalls \cup {e.call}
<1>6. /\ applyTransition(Tr(l), e) = [Tr(l) EXCEPT !.pendingCalls = more]
      /\ findLast(LastTurn(l), e) = LastTurn(l) /\ apply(ReplayInbox(l), e) = ReplayInbox(l)
  BY <1>1 DEF applyTransition, findLast, apply
<1>7. more \in SUBSET CallIds /\ CallOf(n, s) \in more
  BY <1>1, <1>2, <1>3
<1> HIDE DEF more
<1>9. /\ Tr(m).openTurn = n /\ Tr(m).openStep = s /\ Tr(m).nextStep = Tr(l).nextStep
      /\ Tr(m).pendingCalls = more
  BY <1>2, <1>5, <1>6, <1>7 DEF TraceSet
<1>8. Continues(l, m)
  BY <1>0, <1>2, <1>3, <1>5, ContinuesSelf, ContinuesAppend
<1> QED
  BY <1>2, <1>5, <1>6, <1>7, <1>8, <1>9 DEF StillOpen

\* The codes a result carries; repair gives the last two.
Codes == {"none", "TOOL_OUTCOME_UNKNOWN", "TOOL_NOT_STARTED"}

CallEndsAt(l, n, s, code) ==
  CallOf(n, s) \in Tr(l).pendingCalls \/ code = "TOOL_NOT_STARTED"

\* A started call, or one known not to have started, gets its result.
LEMMA CallEnds ==
  ASSUME NEW l, NEW n, NEW s, NEW code, NEW m, OpenAt(l, n, s), s # None,
         code \in Codes, CallEndsAt(l, n, s, code),
         Adds(l, m, ToolResult(n, s, CallOf(n, s), code))
  PROVE  /\ Continues(l, m) /\ StillOpen(m, n, s) /\ Tr(m).nextStep = Tr(l).nextStep
         /\ ReplayInbox(m) = ReplayInbox(l)
<1> DEFINE e == ToolResult(n, s, CallOf(n, s), code)
<1>0. m = Append(l, e)
  BY DEF Adds
<1>1. /\ e.type = "tool/result" /\ e.turn = n /\ e.step = s /\ e.call = CallOf(n, s)
      /\ e.error = code
  BY DEF ToolResult
<1>2. /\ Lawful(l) /\ Tr(l) \in TraceSet /\ n \in Number /\ Tr(l).openTurn = n
      /\ Tr(l).openStep = s /\ LastTurn(l) = n /\ s \in Number
      /\ Tr(l).pendingCalls \in SUBSET CallIds
  BY LawfulAgrees DEF OpenAt, None, Number
<1>3. CallOf(n, s) \in CallIds /\ e \in LogEvents
  <2>1. CallOf(n, s) \in CallIds
    BY <1>2 DEF CallIds, Number, CallOf
  <2> HIDE DEF CallIds
  <2>2. e \in LogEvents
    BY <1>2, <2>1 DEF ToolResult, LogEvents, Codes
  <2> QED
    BY <2>1, <2>2
<1> HIDE DEF e
<1>4. validateEvent(Tr(l), e) /\ Simple(Cur(l), e) /\ Placed(ReplayInbox(l), e)
  BY <1>1, <1>2 DEF CallOf, CallEndsAt, validateEvent, requireOpenStep, Simple, Placed
<1>5. /\ Lawful(m) /\ Tr(m) = applyTransition(Tr(l), e)
      /\ LastTurn(m) = findLast(LastTurn(l), e)
      /\ ReplayInbox(m) = apply(ReplayInbox(l), e)
  BY <1>0, <1>2, <1>3, <1>4, LawfulAppend
<1> DEFINE rest == Tr(l).pendingCalls \ {e.call}
<1>6. /\ applyTransition(Tr(l), e) = [Tr(l) EXCEPT !.pendingCalls = rest]
      /\ findLast(LastTurn(l), e) = LastTurn(l) /\ apply(ReplayInbox(l), e) = ReplayInbox(l)
  BY <1>1 DEF applyTransition, findLast, apply
<1>7. rest \in SUBSET CallIds
  BY <1>2
<1> HIDE DEF rest
<1>9. Tr(m).openTurn = n /\ Tr(m).openStep = s /\ Tr(m).nextStep = Tr(l).nextStep
  BY <1>2, <1>5, <1>6, <1>7 DEF TraceSet
<1>8. Continues(l, m)
  BY <1>0, <1>2, <1>3, <1>5, ContinuesSelf, ContinuesAppend
<1> QED
  BY <1>2, <1>5, <1>6, <1>8, <1>9 DEF StillOpen

\* Continuing is transitive.
LEMMA ContinuesOn ==
  ASSUME NEW l, NEW m, NEW k, Lawful(l), Continues(l, m), Continues(m, k)
  PROVE  Continues(l, k)
<1>1. /\ Len(l) \in Nat /\ Len(m) \in Nat /\ Len(l) <= Len(m) /\ Len(m) <= Len(k)
      /\ Lawful(k) /\ Upto(m, Len(l)) = l /\ Upto(k, Len(m)) = m
      /\ k \in Seq(LogEvents) /\ Len(k) \in Nat
  BY LawfulReads DEF Continues
<1>2. Upto(Upto(k, Len(m)), Len(l)) = Upto(k, Len(l))
  <2>1. Len(m) \in 0..Len(k) /\ Len(l) \in 0..Len(m)
    BY <1>1
  <2> QED
    BY <1>1, <2>1, PrefixOf
<1>3. Len(l) <= Len(k)
  BY <1>1
<1> QED
  BY <1>1, <1>2, <1>3 DEF Continues

\* Repair closes a lawful log by accepted events, and opens no turn.
LEMMA RepairLawful ==
  ASSUME NEW l, NEW m, Lawful(l), m = Recovered(l)
  PROVE  /\ Continues(l, m) /\ Tr(m).openTurn = None
         /\ LastTurn(m) = LastTurn(l) /\ ReplayInbox(m) = ReplayInbox(l)
<1> DEFINE n == LastTurn(l)
           s == Tr(l).openStep
<1>1. Closes(l, m) /\ Tr(l).openTurn \in {None, n} /\ "interrupted" \in Reasons
  BY ClosersOf, LawfulAgrees DEF Reasons
<1>2. CASE Tr(l).openTurn = None
  BY <1>1, <1>2, ContinuesSelf DEF Closes
<1>3. CASE Tr(l).openTurn # None
  <2>1. OpenAt(l, n, s) /\ n = LastTurn(l) /\ s = Tr(l).openStep
    BY <1>1, <1>3 DEF OpenAt
  <2> DEFINE cut == "interrupted"
  <2>a. cut \in Reasons
    BY <1>1
  <2> HIDE DEF n, s, cut
  <2>2. \A p : OpenAt(p, n, None) =>
           LET k == Append(p, TurnEnd(n, cut))
           IN  /\ Continues(p, k) /\ Tr(k).openTurn = None /\ LastTurn(k) = n
               /\ ReplayInbox(k) = ReplayInbox(p)
    BY <2>a, TurnEnds
  <2>3. \A p : OpenAt(p, n, s) /\ s # None =>
           LET k == Append(p, StepEnd(n, s))
           IN  /\ Continues(p, k) /\ OpenAt(k, n, None)
               /\ ReplayInbox(k) = ReplayInbox(p)
    BY StepEndsAt
  <2>4. \A p : OpenAt(p, n, None) => Lawful(p)
    BY DEF OpenAt
  <2>5. \A p : OpenAt(p, n, s) /\ s # None =>
           LET k == Append(Append(p, StepEnd(n, s)), TurnEnd(n, cut))
           IN  /\ Continues(p, k) /\ Tr(k).openTurn = None /\ LastTurn(k) = n
               /\ ReplayInbox(k) = ReplayInbox(p)
    <3> SUFFICES ASSUME NEW p, OpenAt(p, n, s), s # None
                 PROVE  LET k == Append(Append(p, StepEnd(n, s)), TurnEnd(n, cut))
                        IN  /\ Continues(p, k) /\ Tr(k).openTurn = None
                            /\ LastTurn(k) = n /\ ReplayInbox(k) = ReplayInbox(p)
      OBVIOUS
    <3> DEFINE q == Append(p, StepEnd(n, s))
               k == Append(q, TurnEnd(n, cut))
    <3>1. /\ Continues(p, q) /\ OpenAt(q, n, None)
          /\ ReplayInbox(q) = ReplayInbox(p)
      BY <2>3
    <3>2. /\ Continues(q, k) /\ Tr(k).openTurn = None /\ LastTurn(k) = n
          /\ ReplayInbox(k) = ReplayInbox(q)
      BY <2>2, <3>1
    <3>3. Lawful(p)
      BY DEF OpenAt
    <3> HIDE DEF k, q
    <3>4. Continues(p, k)
      BY <3>1, <3>2, <3>3, ContinuesOn
    <3> QED
      BY <3>1, <3>2, <3>4 DEF k, q
  <2>6. CASE s = None /\ m = Append(l, Interrupted(l))
    <3>1. m = Append(l, TurnEnd(n, cut)) /\ OpenAt(l, n, None)
      BY <2>1, <2>6 DEF Interrupted, cut
    <3> QED
      BY <2>1, <2>2, <3>1
  <2>7. CASE s # None /\ m = Append(Append(l, Ended(l)), Interrupted(l))
    <3>1. m = Append(Append(l, StepEnd(n, s)), TurnEnd(n, cut))
      BY <2>1, <2>7 DEF Ended, Interrupted, cut
    <3> QED
      BY <2>1, <2>5, <2>7, <3>1
  <2>8. ASSUME s # None, NEW code,
               code \in {"TOOL_OUTCOME_UNKNOWN", "TOOL_NOT_STARTED"},
               code = "TOOL_OUTCOME_UNKNOWN" => <<n, s>> \in Tr(l).pendingCalls,
               m = Append(Append(Append(l, Answered(l, code)), Ended(l)), Interrupted(l))
        PROVE  /\ Continues(l, m) /\ Tr(m).openTurn = None
               /\ LastTurn(m) = LastTurn(l) /\ ReplayInbox(m) = ReplayInbox(l)
    <3> DEFINE p == Append(l, ToolResult(n, s, CallOf(n, s), code))
    <3>0. /\ code \in Codes
          /\ <<n, s>> \in Tr(l).pendingCalls \/ code = "TOOL_NOT_STARTED"
      BY <2>8 DEF Codes
    <3>1. Continues(l, p) /\ OpenAt(p, n, s) /\ ReplayInbox(p) = ReplayInbox(l)
      <4>1. OpenAt(l, n, s) /\ s # None
        BY <2>1, <2>8
      <4>2. code \in Codes /\ CallEndsAt(l, n, s, code)
        BY <3>0 DEF CallEndsAt, CallOf
      <4>0. Adds(l, p, ToolResult(n, s, CallOf(n, s), code))
        BY DEF Adds
      <4>3. Continues(l, p) /\ StillOpen(p, n, s) /\ ReplayInbox(p) = ReplayInbox(l)
        BY <4>0, <4>1, <4>2, CallEnds
      <4> QED
        BY <4>1, <4>3 DEF StillOpen, OpenAt, Continues
    <3>2. m = Append(Append(p, StepEnd(n, s)), TurnEnd(n, cut))
      BY <2>1, <2>8 DEF Ended, Interrupted, Answered, cut, CallOf
    <3> HIDE DEF p
    <3>3. /\ Continues(p, m) /\ Tr(m).openTurn = None /\ LastTurn(m) = n
          /\ ReplayInbox(m) = ReplayInbox(p)
      BY <2>5, <2>8, <3>1, <3>2
    <3> QED
      BY <2>1, <3>1, <3>3, ContinuesOn
  <2> QED
    BY <1>1, <1>3, <2>1, <2>6, <2>7, <2>8 DEF Closes
<1> QED
  BY <1>2, <1>3
-----------------------------------------------------------------------------
\* A splice of nothing changes nothing.
LEMMA SpliceNothing ==
  ASSUME NEW S, NEW list \in Seq(S), NEW start \in Nat, start <= Len(list)
  PROVE  SpliceAt(list, start, 0, <<>>) = list
<1>1. Len(list) \in Nat /\ start + 0 + 1 = start + 1
  OBVIOUS
<1> DEFINE a == SubSeq(list, 1, start)
           b == SubSeq(list, start + 1, Len(list))
<1>2. /\ a \in Seq(S) /\ Len(a) = start /\ \A i \in 1..start : a[i] = list[i]
  BY <1>1
<1>3. /\ b \in Seq(S) /\ Len(b) = Len(list) - start
      /\ \A i \in 1..(Len(list) - start) : b[i] = list[start + i]
  BY <1>1
<1>4. SpliceAt(list, start, 0, <<>>) = a \o <<>> \o b
  BY <1>1 DEF SpliceAt
<1> HIDE DEF a, b
<1>5. a \o <<>> = a
  BY <1>2, ConcatEmptySeq
<1>6. /\ a \o b \in Seq(S) /\ Len(a \o b) = Len(a) + Len(b)
      /\ \A i \in 1..(Len(a) + Len(b)) :
           (a \o b)[i] = IF i <= Len(a) THEN a[i] ELSE b[i - Len(a)]
  BY <1>2, <1>3, ConcatProperties
<1>7. Len(a \o b) = Len(list)
  BY <1>1, <1>2, <1>3, <1>6
<1>8. ASSUME NEW i \in 1..Len(list) PROVE (a \o b)[i] = list[i]
  <2>1. CASE i <= start
    BY <1>1, <1>2, <1>3, <1>6, <2>1
  <2>2. CASE i > start
    <3>1. i - start \in 1..(Len(list) - start) /\ start + (i - start) = i
      BY <1>1, <2>2
    <3>2. (a \o b)[i] = b[i - start]
      BY <1>1, <1>2, <1>3, <1>6, <2>2
    <3> QED
      BY <1>3, <3>1, <3>2
  <2>3. i <= start \/ i > start
    BY <1>1
  <2> QED
    BY <2>1, <2>2, <2>3
<1>9. a \o b = list
  BY <1>6, <1>7, <1>8, SeqEqual
<1> QED
  BY <1>4, <1>5, <1>9

\* The fields of a splice.
LEMMA SplicedFields ==
  ASSUME NEW target \in Targets, NEW start \in Nat, NEW removed \in Nat,
         NEW inserted \in Seq(Messages), NEW canceled \in BOOLEAN,
         NEW e, e = Spliced(target, start, removed, inserted, canceled)
  PROVE  /\ e \in LogEvents /\ e.type = "agent/inbox/spliced"
         /\ e.target = target /\ e.start = start /\ e.removed = removed
         /\ e.inserted = inserted /\ e.canceled = canceled
  BY DEF Spliced, LogEvents

\* The log after a splice, which is left out when it changes nothing.
Edited(l, e) == l \o Logged(e)

\* Logging a splice, or leaving out one that changes nothing, keeps the live
\* projection equal to the one a resumed agent replays.
LEMMA SpliceLogged ==
  ASSUME NEW l, NEW e, Lawful(l), e \in LogEvents,
         e.type = "agent/inbox/spliced", Placed(ReplayInbox(l), e)
  PROVE  /\ Continues(l, Edited(l, e)) /\ Tr(Edited(l, e)) = Tr(l)
         /\ Cur(Edited(l, e)) = Cur(l) /\ LastTurn(Edited(l, e)) = LastTurn(l)
         /\ ReplayInbox(Edited(l, e)) = apply(ReplayInbox(l), e)
<1> DEFINE m == Edited(l, e)
<1>0. m = l \o Logged(e)
  BY DEF Edited
<1> HIDE DEF m
<1> SUFFICES /\ Continues(l, m) /\ Tr(m) = Tr(l) /\ Cur(m) = Cur(l)
             /\ LastTurn(m) = LastTurn(l) /\ ReplayInbox(m) = apply(ReplayInbox(l), e)
  BY DEF m
<1>1. l \in Seq(LogEvents) /\ ReplayInbox(l) \in Boxed
  BY LawfulReads
<1>2. CASE e.removed > 0 \/ e.inserted # <<>>
  <2>1. Logged(e) = <<e>>
    BY <1>2 DEF Logged
  <2>2. m = Append(l, e)
    BY <1>0, <1>1, <2>1, AppendIsConcat
  <2>3. Neutral(e)
    BY DEF Neutral
  <2>4. /\ Lawful(Append(l, e)) /\ Tr(Append(l, e)) = Tr(l)
        /\ Cur(Append(l, e)) = Cur(l) /\ LastTurn(Append(l, e)) = LastTurn(l)
        /\ ReplayInbox(Append(l, e)) = apply(ReplayInbox(l), e)
    BY <2>3, NeutralAppend
  <2>5. Continues(l, Append(l, e))
    BY <2>4, ContinuesSelf, ContinuesAppend
  <2> QED
    BY <2>2, <2>4, <2>5
<1>3. CASE ~(e.removed > 0 \/ e.inserted # <<>>)
  <2>1. Logged(e) = <<>> /\ e.inserted = <<>>
    BY <1>3 DEF Logged
  <2>2. m = l
    BY <1>0, <1>1, <2>1, ConcatEmptySeq
  <2>3. e.target \in Targets /\ e.start \in Nat /\ e.removed \in Nat
    BY DEF LogEvents
  <2>4. e.removed = 0
    BY <1>3, <2>3
  <2> DEFINE box == ReplayInbox(l)
             list == box[e.target]
  <2>5. list \in Seq(Messages) /\ e.start <= Len(list)
    BY <1>1, <2>3, <2>4 DEF Boxed, Placed
  <2>6. SpliceAt(list, e.start, e.removed, e.inserted) = list
    BY <2>1, <2>3, <2>4, <2>5, SpliceNothing
  <2>7. apply(box, e) = [box EXCEPT ![e.target] = list]
    BY <2>6 DEF apply
  <2>8. apply(box, e) = box
    BY <1>1, <2>3, <2>7 DEF Boxed
  <2> QED
    BY <2>1, <2>2, <2>8, ContinuesSelf
<1> QED
  BY <1>2, <1>3

\* A splice leaves the other target alone.
LEMMA OtherTarget ==
  ASSUME NEW box \in Boxed, NEW e, NEW target \in Targets, target # e.target
  PROVE  apply(box, e)[target] = box[target]
  BY DEF apply, Boxed

\* The two splices of one inbox operation, the second of the other target or empty.
Paired(box, e, f) ==
  /\ e \in LogEvents /\ e.type = "agent/inbox/spliced" /\ Placed(box, e)
  /\ f \in LogEvents /\ f.type = "agent/inbox/spliced" /\ Placed(box, f)
  /\ f.target # e.target \/ (f.start = 0 /\ f.removed = 0)

\* The second is placed within the list as the first leaves it.
LEMMA PairedPlaced ==
  ASSUME NEW box \in Boxed, NEW e, NEW f, Paired(box, e, f)
  PROVE  apply(box, e) \in Boxed /\ Placed(apply(box, e), f)
<1> USE DEF Paired
<1>1. apply(box, e) \in Boxed /\ f.target \in Targets
  BY ApplyTyped DEF LogEvents
<1>2. CASE f.target # e.target
  BY <1>1, <1>2, OtherTarget DEF Placed
<1>3. CASE f.start = 0 /\ f.removed = 0
  <2>1. apply(box, e)[f.target] \in Seq(Messages)
    BY <1>1 DEF Boxed
  <2> QED
    BY <1>1, <1>3, <2>1 DEF Placed
<1> QED
  BY <1>2, <1>3

\* Both are accepted, and replayed as they were applied.
LEMMA SpliceTwo ==
  ASSUME NEW l, NEW m, NEW e, NEW f, Lawful(l), Paired(ReplayInbox(l), e, f),
         m = Edited(Edited(l, e), f)
  PROVE  /\ Continues(l, m) /\ Tr(m) = Tr(l) /\ Cur(m) = Cur(l)
         /\ LastTurn(m) = LastTurn(l)
         /\ ReplayInbox(m) = apply(apply(ReplayInbox(l), e), f)
<1> USE DEF Paired
<1> DEFINE k == Edited(l, e)
           box == ReplayInbox(l)
<1>1. /\ Continues(l, k) /\ Tr(k) = Tr(l) /\ Cur(k) = Cur(l)
      /\ LastTurn(k) = LastTurn(l) /\ ReplayInbox(k) = apply(box, e)
  BY SpliceLogged
<1>3. Lawful(k) /\ m = Edited(k, f)
  BY <1>1 DEF Continues
<1>4. Placed(apply(box, e), f)
  BY LawfulReads, PairedPlaced
<1> HIDE DEF k, box
<1>5. /\ Continues(k, m) /\ Tr(m) = Tr(k) /\ Cur(m) = Cur(k)
      /\ LastTurn(m) = LastTurn(k) /\ ReplayInbox(m) = apply(apply(box, e), f)
  BY <1>1, <1>3, <1>4, SpliceLogged
<1>6. Continues(l, m)
  BY <1>1, <1>3, <1>5, ContinuesOn
<1> QED
  BY <1>1, <1>5, <1>6 DEF box

-----------------------------------------------------------------------------
(***************************************************************************)
(* The driver and its log.  Where the driver stands says what the log's    *)
(* readers find open; NowAt is that correspondence, and with the live      *)
(* inbox equal to the replayed one it is preserved by every step.          *)
(***************************************************************************)
Between == {"none", "idled", "boundary", "exiting", "ended"}
InTurn  == {"opened", "claiming", "preparing", "stepped", "stopping", "erring",
            "failed"}
InStep  == {"entered", "requesting", "tools", "replied"}

NowAt(l, place, n, s) ==
  /\ n = LastTurn(l) /\ s \in Nat
  /\ place \in Between => Tr(l).openTurn = None
  /\ place = "boundary" => s = 0
  /\ place \in InTurn \cup InStep => Tr(l).openTurn = n /\ n # None
  /\ place \in InTurn => Tr(l).openStep = None /\ Tr(l).nextStep = s + 1
  /\ place \in InStep => Tr(l).openStep = s /\ Tr(l).nextStep = s /\ s # None
  /\ place \in {"entered", "requesting"} => Cur(l).pendingCalls = <<>>
  /\ place = "tools" => CallOf(n, s) \in Tr(l).pendingCalls

DataOK == /\ batch \in Seq(Messages) /\ turnEnds \in Endings /\ stepEnd \in Endings
          /\ at = "entered" => batch # <<>>

LogInv == /\ Lawful(log) /\ NowAt(log, at, turn, step)
          /\ inbox = ReplayInbox(log) /\ DataOK

Moved == /\ Continues(log, log') /\ NowAt(log', at', turn', step')
         /\ inbox' = ReplayInbox(log')

\* The log grew, and what it says of the driver's place is what it said before.
Stands == /\ Continues(log, log') /\ inbox' = ReplayInbox(log')
          /\ \A place, n, s : NowAt(log, place, n, s) => NowAt(log', place, n, s)

\* What the invariant says of the log and the inbox.
LEMMA LogFacts ==
  ASSUME LogInv
  PROVE  /\ log \in Seq(LogEvents) /\ inbox \in Boxed /\ inbox = ReplayInbox(log)
         /\ inbox["next-step"] \in Seq(Messages) /\ inbox["next-turn"] \in Seq(Messages)
         /\ Len(log) \in Nat /\ turn \in Nat /\ step \in Nat
         /\ batch \in Seq(Messages) /\ turnEnds \in Endings /\ stepEnd \in Endings
<1>1. Lawful(log) /\ inbox = ReplayInbox(log) /\ NowAt(log, at, turn, step)
  BY DEF LogInv
<1>2. log \in Seq(LogEvents) /\ inbox \in Boxed /\ Len(log) \in Nat
  BY <1>1, LawfulReads
<1>3. inbox["next-step"] \in Seq(Messages) /\ inbox["next-turn"] \in Seq(Messages)
  BY <1>2 DEF Boxed, Targets
<1>4. turn \in Nat /\ step \in Nat
  BY <1>1, LawfulAgrees DEF NowAt
<1> QED
  BY <1>1, <1>2, <1>3, <1>4 DEF LogInv, DataOK

\* Between two steps of a turn.
LEMMA FromTurn ==
  ASSUME LogInv, at \in InTurn
  PROVE  OpenAt(log, turn, None) /\ Tr(log).nextStep = step + 1
  BY DEF LogInv, NowAt, OpenAt

\* Within a step.
LEMMA FromStep ==
  ASSUME LogInv, at \in InStep
  PROVE  OpenAt(log, turn, step) /\ Tr(log).nextStep = step /\ step # None
  BY DEF LogInv, NowAt, OpenAt

\* Between two turns.
LEMMA FromBetween ==
  ASSUME LogInv, at \in Between
  PROVE  Lawful(log) /\ Tr(log).openTurn = None /\ turn = LastTurn(log)
  BY DEF LogInv, NowAt

\* One event, or two, at the end of the log.
LEMMA LogsOne ==
  ASSUME NEW l \in Seq(LogEvents), NEW e, NEW f
  PROVE  l \o <<e>> = Append(l, e) /\ l \o <<e, f>> = Append(Append(l, e), f)
  OBVIOUS

\* A step that appends nothing.
LEMMA QuietMove ==
  ASSUME LogInv, UNCHANGED <<log, inbox>>, NowAt(log, at', turn', step')
  PROVE  Moved
  BY ContinuesSelf DEF LogInv, Moved

\* A turn closes.
LEMMA CloseMove ==
  ASSUME LogInv, at \in InTurn, NEW r, r \in Reasons, NEW place,
         place \in {"exiting", "ended"}, Close(r, place), step' \in Nat
  PROVE  Moved
<1>1. OpenAt(log, turn, None) /\ log \in Seq(LogEvents) /\ inbox = ReplayInbox(log)
  BY FromTurn, LogFacts
<1>2. /\ log' = log \o <<TurnEnd(turn, r)>> /\ inbox' = inbox /\ at' = place
      /\ turn' = turn
  BY DEF Close, Logs, Goes
<1>3. log' = Append(log, TurnEnd(turn, r))
  BY <1>1, <1>2, LogsOne
<1>4. /\ Continues(log, log') /\ Tr(log').openTurn = None /\ LastTurn(log') = turn
      /\ ReplayInbox(log') = ReplayInbox(log)
  BY <1>1, <1>3, TurnEnds
<1>5. NowAt(log', at', turn', step')
  BY <1>2, <1>4 DEF NowAt, Between, InTurn, InStep
<1> QED
  BY <1>1, <1>2, <1>4, <1>5 DEF Moved

\* The inbox is edited while the driver stands still.
LEMMA SpliceMove ==
  ASSUME LogInv, NEW e, NEW f, Paired(inbox, e, f),
         log' = log \o Logged(e) \o Logged(f),
         inbox' = apply(apply(inbox, e), f)
  PROVE  Stands
<1>1. Lawful(log) /\ inbox = ReplayInbox(log)
  BY DEF LogInv
<1>2. log' = Edited(Edited(log, e), f)
  BY DEF Edited
<1>3. /\ Continues(log, log') /\ Tr(log') = Tr(log) /\ Cur(log') = Cur(log)
      /\ LastTurn(log') = LastTurn(log)
      /\ ReplayInbox(log') = apply(apply(ReplayInbox(log), e), f)
  BY <1>1, <1>2, SpliceTwo
<1> QED
  BY <1>1, <1>3 DEF NowAt, Stands

\* The splice that stands for none.
LEMMA NothingPlaced ==
  /\ Nothing \in LogEvents /\ Nothing.type = "agent/inbox/spliced"
  /\ Nothing.target = "next-step" /\ Nothing.start = 0 /\ Nothing.removed = 0
  /\ Nothing.inserted = <<>> /\ Nothing.canceled = FALSE
  /\ \A box \in Boxed : Placed(box, Nothing)
<1>1. /\ "next-step" \in Targets /\ 0 \in Nat /\ <<>> \in Seq(Messages)
      /\ FALSE \in BOOLEAN
  BY DEF Targets
<1> DEFINE z == 0
           q == <<>>
           b == FALSE
<1>2. Nothing = Spliced("next-step", z, z, q, b)
  BY DEF Nothing
<1>3. z \in Nat /\ q \in Seq(Messages) /\ b \in BOOLEAN
  BY <1>1
<1> HIDE DEF z, q, b
<1>4. /\ Nothing \in LogEvents /\ Nothing.type = "agent/inbox/spliced"
      /\ Nothing.target = "next-step" /\ Nothing.start = z /\ Nothing.removed = z
      /\ Nothing.inserted = q /\ Nothing.canceled = b
  BY <1>1, <1>2, <1>3, SplicedFields
<1>5. ASSUME NEW box \in Boxed PROVE Placed(box, Nothing)
  <2>1. box["next-step"] \in Seq(Messages)
    BY <1>1 DEF Boxed
  <2> QED
    BY <1>4, <2>1 DEF Placed, z
<1> QED
  BY <1>4, <1>5 DEF z, q, b

\* One splice of the live inbox, by any caller.
LEMMA OneSplice ==
  ASSUME NEW target \in Targets, NEW start \in Nat, NEW removed \in Nat,
         NEW inserted \in Seq(Messages), NEW canceled \in BOOLEAN,
         LogInv, start + removed <= Len(inbox[target]),
         Splice(<<Spliced(target, start, removed, inserted, canceled), Nothing>>)
  PROVE  Stands
<1> DEFINE e == Spliced(target, start, removed, inserted, canceled)
           f == Nothing
<1>1. /\ log' = log \o Logged(e) \o Logged(f)
      /\ inbox' = apply(apply(inbox, e), f)
  BY DEF Splice
<1>2. /\ e \in LogEvents /\ e.type = "agent/inbox/spliced" /\ e.target = target
      /\ e.start = start /\ e.removed = removed
  BY SplicedFields
<1>3. inbox \in Boxed
  BY LogFacts
<1>4. /\ f \in LogEvents /\ f.type = "agent/inbox/spliced" /\ Placed(inbox, f)
      /\ f.start = 0 /\ f.removed = 0
  BY <1>3, NothingPlaced
<1> HIDE DEF e, f
<1>5. Paired(inbox, e, f)
  BY <1>2, <1>4 DEF Paired, Placed
<1> QED
  BY <1>1, <1>5, SpliceMove

\* All of next-step and the first of next-turn are removed: a claim or a clear.
LEMMA TwoSplices ==
  ASSUME NEW k \in Nat, NEW canceled \in BOOLEAN,
         LogInv, k <= Len(inbox["next-turn"]),
         Splice(<<Spliced("next-step", 0, Len(inbox["next-step"]), <<>>, canceled),
                  Spliced("next-turn", 0, k, <<>>, canceled)>>)
  PROVE  Stands
<1> DEFINE j == Len(inbox["next-step"])
           z == 0
           q == <<>>
<1>1. /\ "next-step" \in Targets /\ "next-turn" \in Targets /\ j \in Nat /\ z \in Nat
      /\ q \in Seq(Messages)
  BY LogFacts DEF Targets
<1>2. z + j <= j /\ z + k <= Len(inbox["next-turn"])
  BY <1>1
<1> DEFINE e == Spliced("next-step", z, j, q, canceled)
           f == Spliced("next-turn", z, k, q, canceled)
<1>3. /\ log' = log \o Logged(e) \o Logged(f)
      /\ inbox' = apply(apply(inbox, e), f)
  BY DEF Splice
<1> HIDE DEF z, q
<1>4. /\ e \in LogEvents /\ e.type = "agent/inbox/spliced" /\ e.target = "next-step"
      /\ e.start = z /\ e.removed = j
  BY <1>1, SplicedFields
<1>5. /\ f \in LogEvents /\ f.type = "agent/inbox/spliced" /\ f.target = "next-turn"
      /\ f.start = z /\ f.removed = k
  BY <1>1, SplicedFields
<1> HIDE DEF e, f
<1>6. Paired(inbox, e, f)
  BY <1>2, <1>4, <1>5 DEF Paired, Placed, j
<1> QED
  BY <1>3, <1>6, SpliceMove

\* The driver moves between turns.
LEMMA RestsAt ==
  ASSUME LogInv, at \in Between, at' \in Between, turn' = turn, step' \in Nat,
         at' = "boundary" => step' = 0
  PROVE  NowAt(log, at', turn', step')
  BY DEF LogInv, NowAt, Between, InTurn, InStep

\* The driver moves between two steps of its turn.
LEMMA TurnsAt ==
  ASSUME LogInv, at \in InTurn, at' \in InTurn, turn' = turn, step' = step
  PROVE  NowAt(log, at', turn', step')
  BY DEF LogInv, NowAt, Between, InTurn, InStep

\* The prompt a claim takes.
LEMMA PromptTyped ==
  ASSUME LogInv
  PROVE  Prompt \in Seq(Messages) /\ Len(Prompt) <= Len(inbox["next-turn"])
<1>1. inbox["next-turn"] \in Seq(Messages)
  BY LogFacts
<1>2. CASE inbox["next-turn"] # <<>>
  <2>1. /\ Prompt = <<Head(inbox["next-turn"])>>
        /\ Head(inbox["next-turn"]) \in Messages
        /\ Len(inbox["next-turn"]) \in Nat /\ Len(inbox["next-turn"]) > 0
    BY <1>1, <1>2 DEF Prompt
  <2>2. Prompt \in Seq(Messages) /\ Len(Prompt) = 1
    BY <2>1
  <2> QED
    BY <2>1, <2>2
<1>3. CASE inbox["next-turn"] = <<>>
  <2>1. Prompt = <<>>
    BY <1>3 DEF Prompt
  <2> QED
    BY <1>1, <2>1
<1> QED
  BY <1>2, <1>3

\* One splice of a claim.
LEMMA ClaimMove ==
  ASSUME LogInv, at \in InTurn, NEW target \in Targets, NEW taken \in Seq(Messages),
         Len(taken) <= Len(inbox[target]),
         NEW place \in {"claiming", "preparing"}, Claim(target, taken, place)
  PROVE  Moved /\ DataOK'
<1> DEFINE z == 0
           q == <<>>
           b == FALSE
           k == Len(taken)
<1>1. /\ at' = place /\ turn' = turn /\ step' = step /\ batch' = batch \o taken
      /\ turnEnds' = turnEnds /\ stepEnd' = stepEnd
  BY DEF Claim, Goes
<1>2. Splice(<<Spliced(target, z, k, q, b), Nothing>>)
  BY DEF Claim, ClaimEvent
<1>3. /\ z \in Nat /\ k \in Nat /\ q \in Seq(Messages) /\ b \in BOOLEAN
      /\ z + k <= Len(inbox[target])
  OBVIOUS
<1> HIDE DEF z, q, b, k
<1>4. Stands
  BY <1>2, <1>3, OneSplice
<1>5. NowAt(log, at', turn', step')
  BY <1>1, TurnsAt DEF InTurn
<1>6. DataOK'
  <2>1. batch \o taken \in Seq(Messages)
    BY LogFacts
  <2> QED
    BY <1>1, <2>1, LogFacts DEF DataOK
<1> QED
  BY <1>4, <1>5, <1>6 DEF Stands, Moved

\* turn/start.
LEMMA OpenTurnMove ==
  ASSUME LogInv, OpenTurn
  PROVE  Moved
<1>1. at = "boundary" /\ at' = "opened" /\ turn' = turn + 1 /\ step' = step
      /\ inbox' = inbox /\ log' = log \o <<TurnStart(turn + 1)>>
  BY DEF OpenTurn, Runs, Logs
<1>2. Lawful(log) /\ Tr(log).openTurn = None /\ turn = LastTurn(log) /\ step = 0
  BY <1>1 DEF LogInv, NowAt, Between
<1>3. log' = Append(log, TurnStart(LastTurn(log) + 1))
  BY <1>1, <1>2, LogsOne, LogFacts
<1>4. /\ Continues(log, log') /\ OpenAt(log', LastTurn(log) + 1, None)
      /\ Tr(log').nextStep = 1 /\ ReplayInbox(log') = ReplayInbox(log)
  BY <1>2, <1>3, TurnStarts
<1>5. NowAt(log', at', turn', step')
  BY <1>1, <1>2, <1>4 DEF NowAt, Between, InTurn, InStep, OpenAt
<1> QED
  BY <1>1, <1>4, <1>5, LogFacts DEF Moved

\* step/start.
LEMMA StepStartMove ==
  ASSUME LogInv, at = "preparing", NEW place \in {"requesting", "entered"},
         Logs(<<StepStart(turn, step + 1)>>), step' = step + 1, Goes(place)
  PROVE  Moved
<1>1. OpenAt(log, turn, None) /\ Tr(log).nextStep = step + 1
  BY FromTurn DEF InTurn
<1>2. at' = place /\ turn' = turn /\ inbox' = inbox
  BY DEF Goes, Logs
<1>3. log' = Append(log, StepStart(turn, Tr(log).nextStep))
  BY <1>1, LogFacts, LogsOne DEF Logs
<1>4. /\ Continues(log, log') /\ OpenAt(log', turn, step + 1)
      /\ Tr(log').nextStep = step + 1 /\ Cur(log').pendingCalls = <<>>
      /\ ReplayInbox(log') = ReplayInbox(log)
  BY <1>1, <1>3, StepStarts
<1>5. step \in Nat /\ step + 1 # None
  BY LogFacts DEF None
<1>6. NowAt(log', at', turn', step')
  BY <1>2, <1>4, <1>5 DEF NowAt, Between, InTurn, InStep, OpenAt
<1> QED
  BY <1>2, <1>4, <1>6, LogFacts DEF Moved

\* One of the step's messages.
LEMMA AppendMove ==
  ASSUME LogInv, AppendMessage
  PROVE  Moved /\ DataOK'
<1> DEFINE e == UserMessage(Head(batch))
<1>1. /\ at = "entered" /\ turn' = turn /\ step' = step /\ inbox' = inbox
      /\ log' = log \o <<e>> /\ batch' = Tail(batch)
      /\ at' \in {"requesting", "entered"} /\ (at' = "entered" => batch' # <<>>)
      /\ turnEnds' = turnEnds /\ stepEnd' = stepEnd
  BY DEF AppendMessage, Runs, Logs, Goes
<1>2. batch \in Seq(Messages) /\ batch # <<>>
  BY <1>1 DEF LogInv, DataOK
<1>3. Head(batch) \in Messages /\ Tail(batch) \in Seq(Messages)
  BY <1>2
<1>4. e \in LogEvents /\ e.type = "user/message"
  BY <1>3 DEF UserMessage, LogEvents
<1> HIDE DEF e
<1>5. log' = Append(log, e)
  BY <1>1, LogFacts, LogsOne
<1>6. Lawful(log) /\ Neutral(e) /\ Placed(ReplayInbox(log), e)
  BY <1>4 DEF LogInv, Neutral, Placed
<1>7. /\ Lawful(log') /\ Tr(log') = Tr(log) /\ Cur(log') = Cur(log)
      /\ LastTurn(log') = LastTurn(log)
      /\ ReplayInbox(log') = apply(ReplayInbox(log), e)
  BY <1>4, <1>5, <1>6, NeutralAppend
<1>8. apply(ReplayInbox(log), e) = ReplayInbox(log)
  BY <1>4 DEF apply
<1>9. Continues(log, log')
  BY <1>4, <1>5, <1>6, <1>7, ContinuesSelf, ContinuesAppend
<1>10. NowAt(log, "entered", turn, step)
  BY <1>1 DEF LogInv
<1>11. NowAt(log', at', turn', step')
  BY <1>1, <1>7, <1>10 DEF NowAt, Between, InTurn, InStep
<1>12. DataOK'
  BY <1>1, <1>3, LogFacts DEF DataOK
<1> QED
  BY <1>1, <1>7, <1>8, <1>9, <1>11, <1>12, LogFacts DEF Moved

\* A reply whose calls, if it has any, do not run.
LEMMA ReplyMove ==
  ASSUME LogInv, NEW cs, CallsOf(turn, step, cs), at = "requesting", at' = "replied",
         Logs(<<Assistant(turn, step, cs)>>), UNCHANGED <<turn, step>>
  PROVE  Moved
<1>1. inbox' = inbox /\ log' = log \o <<Assistant(turn, step, cs)>>
  BY DEF Logs
<1>2. OpenAt(log, turn, step) /\ Tr(log).nextStep = step /\ step # None
  BY FromStep DEF InStep
<1>3. Cur(log).pendingCalls = <<>>
  BY DEF LogInv, NowAt
<1>4. Adds(log, log', Assistant(turn, step, cs))
  BY <1>1, LogsOne, LogFacts DEF Adds
<1>5. /\ Continues(log, log') /\ StillOpen(log', turn, step) /\ Tr(log') = Tr(log)
      /\ ReplayInbox(log') = ReplayInbox(log)
  BY <1>2, <1>3, <1>4, StepReplies
<1>6. NowAt(log', at', turn', step')
  BY <1>2, <1>5, LogFacts DEF NowAt, Between, InTurn, InStep, StillOpen, OpenAt
<1> QED
  BY <1>1, <1>5, <1>6, LogFacts DEF Moved

\* A reply with its call, which starts.
LEMMA ReplyWithToolsMove ==
  ASSUME LogInv, ReplyWithTools
  PROVE  Moved
<1> DEFINE id == CallOf(turn, step)
           q == <<id>>
           e == Assistant(turn, step, q)
           f == ToolCall(turn, step, id)
<1>1. /\ at = "requesting" /\ at' = "tools" /\ turn' = turn /\ step' = step
      /\ inbox' = inbox /\ log' = log \o <<e, f>>
  BY DEF ReplyWithTools, Runs, Logs, Goes, CallOf
<1>0. CallsOf(turn, step, q)
  BY DEF CallsOf
<1>a. f = ToolCall(turn, step, CallOf(turn, step)) /\ e = Assistant(turn, step, q)
  OBVIOUS
<1> HIDE DEF id, q, e, f
<1>2. OpenAt(log, turn, step) /\ Tr(log).nextStep = step /\ step # None
  BY <1>1, FromStep DEF InStep
<1>3. Cur(log).pendingCalls = <<>> /\ Lawful(log)
  BY <1>1 DEF LogInv, NowAt
<1> DEFINE l == Append(log, e)
<1>4. Adds(l, log', f) /\ Adds(log, l, e)
  BY <1>1, LogsOne, LogFacts DEF Adds
<1> HIDE DEF l
<1>5. /\ Continues(log, l) /\ StillOpen(l, turn, step) /\ Tr(l) = Tr(log)
      /\ ReplayInbox(l) = ReplayInbox(log)
  BY <1>0, <1>a, <1>2, <1>3, <1>4, StepReplies
<1>6. OpenAt(l, turn, step)
  BY <1>2, <1>5 DEF StillOpen, OpenAt, Continues
<1>7. /\ Continues(l, log') /\ StillOpen(log', turn, step)
      /\ Tr(log').nextStep = Tr(l).nextStep /\ CallOf(turn, step) \in Tr(log').pendingCalls
      /\ ReplayInbox(log') = ReplayInbox(l)
  BY <1>a, <1>2, <1>4, <1>6, CallStarts
<1>8. Continues(log, log')
  BY <1>3, <1>5, <1>7, ContinuesOn
<1>9. NowAt(log', at', turn', step')
  BY <1>1, <1>2, <1>5, <1>7, LogFacts DEF NowAt, Between, InTurn, InStep, StillOpen, OpenAt
<1> QED
  BY <1>1, <1>5, <1>7, <1>8, <1>9, LogFacts DEF Moved

\* The result of the step's call, and the context its tool adds.
LEMMA ToolsMove ==
  ASSUME LogInv, NEW context \in Seq(Messages), NEW concluded \in BOOLEAN,
         ToolSettles(context, concluded)
  PROVE  Moved
<1> DEFINE e == ToolResult(turn, step, CallOf(turn, step), "none")
           start == Len(inbox["next-step"])
           z == 0
           b == FALSE
           f == Spliced("next-step", start, z, context, b)
           l == Append(log, e)
<1>1. /\ at = "tools" /\ at' = "replied" /\ turn' = turn /\ step' = step
      /\ inbox' = apply(inbox, f) /\ log' = log \o <<e>> \o Logged(f)
  BY DEF ToolSettles, Runs, Goes, CallOf
<1>2. OpenAt(log, turn, step) /\ Tr(log).nextStep = step /\ step # None
  BY <1>1, FromStep DEF InStep
<1>3. Lawful(log) /\ CallEndsAt(log, turn, step, "none")
  BY <1>1 DEF LogInv, NowAt, CallEndsAt
<1>4. "none" \in Codes
  BY DEF Codes
<1>5. Adds(log, l, e) /\ l = log \o <<e>>
  BY LogFacts, LogsOne DEF Adds
<1>6. f \in LogEvents /\ f.type = "agent/inbox/spliced" /\ Placed(inbox, f)
  <2>1. /\ "next-step" \in Targets /\ start \in Nat /\ z \in Nat /\ b \in BOOLEAN
        /\ start + z <= start
    BY LogFacts DEF Targets
  <2> HIDE DEF z, b
  <2>2. /\ f \in LogEvents /\ f.type = "agent/inbox/spliced"
        /\ f.target = "next-step" /\ f.start = start /\ f.removed = z
    BY <2>1, SplicedFields
  <2> QED
    BY <2>1, <2>2 DEF Placed
<1>7. log' = Edited(l, f)
  BY <1>1, <1>5 DEF Edited
<1>8. e = ToolResult(turn, step, CallOf(turn, step), "none")
  OBVIOUS
<1> HIDE DEF e, f, l, z, b
<1>9. /\ Continues(log, l) /\ StillOpen(l, turn, step)
      /\ Tr(l).nextStep = Tr(log).nextStep /\ ReplayInbox(l) = ReplayInbox(log)
  BY <1>2, <1>3, <1>4, <1>5, <1>8, CallEnds
<1>10. Lawful(l) /\ Placed(ReplayInbox(l), f)
  BY <1>6, <1>9, LogFacts DEF Continues
<1>11. /\ Continues(l, log') /\ Tr(log') = Tr(l) /\ LastTurn(log') = LastTurn(l)
       /\ ReplayInbox(log') = apply(ReplayInbox(l), f)
  BY <1>6, <1>7, <1>10, SpliceLogged
<1>12. Continues(log, log')
  BY <1>3, <1>9, <1>11, ContinuesOn
<1>13. NowAt(log', at', turn', step')
  BY <1>1, <1>2, <1>9, <1>11, LogFacts DEF NowAt, Between, InTurn, InStep, StillOpen, OpenAt
<1>14. inbox' = ReplayInbox(log')
  BY <1>1, <1>9, <1>11, LogFacts
<1> QED
  BY <1>12, <1>13, <1>14 DEF Moved

\* step/end.
LEMMA StepEndMove ==
  ASSUME LogInv, at \in InStep, NEW place, place \in {"failed", "stepped"},
         Logs(<<StepEnd(turn, step)>>), Goes(place), step' = step
  PROVE  Moved
<1>1. at' = place /\ turn' = turn /\ inbox' = inbox
  BY DEF Goes, Logs
<1>2. OpenAt(log, turn, step) /\ Tr(log).nextStep = step /\ step # None
  BY FromStep
<1>3. log' = Append(log, StepEnd(turn, step))
  BY LogFacts, LogsOne DEF Logs
<1>4. /\ Continues(log, log') /\ OpenAt(log', turn, None)
      /\ Tr(log').nextStep = Tr(log).nextStep + 1
      /\ ReplayInbox(log') = ReplayInbox(log)
  BY <1>2, <1>3, StepEndsAt
<1>5. NowAt(log', at', turn', step')
  BY <1>1, <1>2, <1>4, LogFacts DEF NowAt, Between, InTurn, InStep, OpenAt
<1> QED
  BY <1>1, <1>4, <1>5, LogFacts DEF Moved

\* step/end and turn/end.
LEMMA StepAbortsMove ==
  ASSUME LogInv, StepAborts
  PROVE  Moved
<1> DEFINE e == StepEnd(turn, step)
           f == TurnEnd(turn, "aborted")
           l == Append(log, e)
<1>1. /\ at = "requesting" /\ at' = "exiting" /\ turn' = turn /\ step' = step
      /\ inbox' = inbox /\ log' = log \o <<e, f>>
  BY DEF StepAborts, Runs, Logs, Goes
<1>2. OpenAt(log, turn, step) /\ Tr(log).nextStep = step /\ step # None
  BY <1>1, FromStep DEF InStep
<1>3. e = StepEnd(turn, step) /\ f = TurnEnd(turn, "aborted") /\ "aborted" \in Reasons
  BY DEF Reasons
<1> HIDE DEF e, f
<1>4. log' = Append(l, f) /\ Lawful(log)
  BY <1>1, LogsOne, LogFacts DEF LogInv
<1>5. /\ Continues(log, l) /\ OpenAt(l, turn, None)
      /\ ReplayInbox(l) = ReplayInbox(log)
  BY <1>2, <1>3, StepEndsAt
<1> HIDE DEF l
<1>6. /\ Continues(l, log') /\ Tr(log').openTurn = None /\ LastTurn(log') = turn
      /\ ReplayInbox(log') = ReplayInbox(l)
  BY <1>3, <1>4, <1>5, TurnEnds
<1>7. Continues(log, log')
  BY <1>4, <1>5, <1>6, ContinuesOn
<1>8. NowAt(log', at', turn', step')
  BY <1>1, <1>6, LogFacts DEF NowAt, Between, InTurn, InStep
<1> QED
  BY <1>1, <1>5, <1>6, <1>7, <1>8, LogFacts DEF Moved
-----------------------------------------------------------------------------
Grows == Moved /\ DataOK'

\* Messages sent, edited or cleared leave the driver where it stands.
LEMMA InboxGrows ==
  ASSUME LogInv, Stands \/ UNCHANGED <<log, inbox>>,
         UNCHANGED <<at, turn, step, batch, turnEnds, stepEnd>>
  PROVE  Grows
<1>1. NowAt(log, at', turn', step') /\ DataOK'
  BY DEF LogInv, DataOK
<1>2. CASE Stands
  BY <1>1, <1>2 DEF Grows, Stands, Moved
<1>3. CASE UNCHANGED <<log, inbox>>
  BY <1>1, <1>3, QuietMove DEF Grows
<1> QED
  BY <1>2, <1>3

\* Send, the inbox edits, cancel and dispose.
LEMMA InputGrows ==
  ASSUME LogInv, WakeInv,
         \/ \E m \in Messages, target \in Targets, wakeup \in BOOLEAN :
              Send(m, target, wakeup)
         \/ Edit
         \/ \E keepInbox \in BOOLEAN : Cancel(keepInbox)
         \/ Dispose
  PROVE  Grows
<1>0. /\ "next-step" \in Targets /\ "next-turn" \in Targets
      /\ \A target \in Targets : inbox[target] \in Seq(Messages)
  BY LogFacts DEF Targets, Boxed
<1>1. ASSUME NEW target \in Targets, NEW start \in Nat, NEW removed \in Nat,
             NEW inserted \in Seq(Messages), NEW canceled \in BOOLEAN,
             start + removed <= Len(inbox[target]),
             Splice(<<Spliced(target, start, removed, inserted, canceled), Nothing>>),
             UNCHANGED <<at, turn, step, batch, turnEnds, stepEnd>>
      PROVE  Grows
  BY <1>1, OneSplice, InboxGrows
<1>2. ASSUME NEW m \in Messages, NEW target \in Targets, NEW wakeup \in BOOLEAN,
             Send(m, target, wakeup)
      PROVE  Grows
  <2> DEFINE resolved == IF AfterAbort(wakeup) THEN "next-turn" ELSE target
             start == Len(inbox[resolved])
             z == 0
             q == <<m>>
             b == FALSE
  <2>1. /\ resolved \in Targets /\ start \in Nat /\ z \in Nat /\ q \in Seq(Messages)
        /\ b \in BOOLEAN /\ start + z <= Len(inbox[resolved])
    BY <1>0
  <2>2. Splice(<<Spliced(resolved, start, z, q, b), Nothing>>)
    BY <1>2 DEF Send, Insert
  <2>3. UNCHANGED <<at, turn, step, batch, turnEnds, stepEnd>>
    BY <1>2 DEF Send, control
  <2> HIDE DEF resolved, start, z, q, b
  <2> QED
    BY <1>1, <2>1, <2>2, <2>3
<1>3. ASSUME NEW m, NEW inserted \in Seq(Messages), EditPending(m, inserted)
      PROVE  Grows
  <2>0. PICK target \in Targets : \E i \in 1..Len(inbox[target]) :
          Splice(<<Spliced(target, i - 1, 1, inserted, TRUE), Nothing>>)
    BY <1>3 DEF EditPending
  <2>1. PICK i \in 1..Len(inbox[target]) :
          Splice(<<Spliced(target, i - 1, 1, inserted, TRUE), Nothing>>)
    BY <2>0
  <2> DEFINE start == i - 1
             one == 1
             b == TRUE
  <2>2. /\ start \in Nat /\ one \in Nat /\ b \in BOOLEAN
        /\ start + one <= Len(inbox[target])
    BY <1>0
  <2>3. Splice(<<Spliced(target, start, one, inserted, b), Nothing>>)
    BY <2>1
  <2>4. UNCHANGED <<at, turn, step, batch, turnEnds, stepEnd>>
    BY <1>3 DEF EditPending, control
  <2> HIDE DEF start, one, b
  <2> QED
    BY <1>1, <2>2, <2>3, <2>4
<1>4. ASSUME NEW m \in Messages, NEW target \in Targets, Prepend(target, m)
      PROVE  Grows
  <2> DEFINE z == 0
             q == <<m>>
             b == FALSE
  <2>1. /\ z \in Nat /\ q \in Seq(Messages) /\ b \in BOOLEAN
        /\ z + z <= Len(inbox[target])
    BY <1>0
  <2>2. Splice(<<Spliced(target, z, z, q, b), Nothing>>)
    BY <1>4 DEF Prepend
  <2>3. UNCHANGED <<at, turn, step, batch, turnEnds, stepEnd>>
    BY <1>4 DEF Prepend, control
  <2> HIDE DEF z, q, b
  <2> QED
    BY <1>1, <2>1, <2>2, <2>3
<1>5. CASE Edit
  <2>1. <<>> \in Seq(Messages) /\ \A m \in Messages : <<m>> \in Seq(Messages)
    OBVIOUS
  <2> QED
    BY <1>3, <1>4, <1>5, <2>1 DEF Edit
<1>6. ASSUME NEW cause, NEW keepInbox \in BOOLEAN, CancelWith(cause, keepInbox)
      PROVE  Grows
  <2>1. UNCHANGED <<at, turn, step, batch, turnEnds, stepEnd>>
    BY <1>6 DEF CancelWith
  <2>2. CASE UNCHANGED <<log, inbox>>
    BY <2>1, <2>2, InboxGrows
  <2>3. CASE Splice(ClearEvents)
    <3> DEFINE k == Len(inbox["next-turn"])
               b == TRUE
    <3>1. k \in Nat /\ b \in BOOLEAN /\ k <= Len(inbox["next-turn"])
      BY <1>0
    <3>2. Splice(<<Spliced("next-step", 0, Len(inbox["next-step"]), <<>>, b),
                   Spliced("next-turn", 0, k, <<>>, b)>>)
      BY <2>3 DEF ClearEvents
    <3> HIDE DEF k, b
    <3>3. Stands
      BY <3>1, <3>2, TwoSplices
    <3> QED
      BY <2>1, <3>3, InboxGrows
  <2> QED
    BY <1>6, <2>2, <2>3 DEF CancelWith
<1> QED
  BY <1>2, <1>5, <1>6 DEF Cancel, Dispose

\* The driver's own steps that leave the log alone.
LEMMA QuietGrows ==
  ASSUME LogInv, WakeInv,
         \/ WakeDriver \/ EndMaintenance \/ Drained \/ RunMaintenance \/ SkipTurn
         \/ AskToStop \/ Continue \/ Exit \/ FinishKick
  PROVE  Grows
<1> USE DEF control, data
<1>1. UNCHANGED <<log, inbox>> /\ DataOK'
  <2>1. UNCHANGED <<log, inbox, batch, turnEnds, stepEnd>>
    BY DEF WakeDriver, EndMaintenance, Drained, RunMaintenance, SkipTurn, AskToStop,
           Continue, Exit, FinishKick
  <2>2. at' \in {at, "none", "idled", "boundary", "exiting", "stopping"}
    BY DEF WakeDriver, EndMaintenance, Drained, RunMaintenance, SkipTurn, AskToStop,
           Continue, Exit, FinishKick, StartDriver, LatchWake, Goes
  <2> QED
    BY <2>1, <2>2 DEF LogInv, DataOK
<1> SUFFICES NowAt(log, at', turn', step')
  BY <1>1, QuietMove DEF Grows
<1>2. step \in Nat
  BY LogFacts
<1>3. ASSUME UNCHANGED <<at, turn, step>> PROVE NowAt(log, at', turn', step')
  BY <1>3 DEF LogInv
<1>4. ASSUME phase = "idle" \/ phase = "maintenance", StartDriver
      PROVE  NowAt(log, at', turn', step')
  <2>1. at \in Between
    BY <1>4 DEF WakeInv, ControlOK, Driving, Observers, Between
  <2>2. at' = "boundary" /\ step' = 0 /\ turn' = turn
    BY <1>4 DEF StartDriver
  <2> QED
    BY <2>1, <2>2, RestsAt DEF Between
<1>5. CASE WakeDriver
  <2>1. CASE phase = "idle" /\ StartDriver
    BY <1>4, <2>1
  <2>2. CASE LatchWake(call = "wakeAfterAbort") /\ UNCHANGED <<at, replay>>
    BY <1>3, <2>2 DEF LatchWake
  <2> QED
    BY <1>5, <2>1, <2>2 DEF WakeDriver
<1>6. CASE EndMaintenance
  <2>1. CASE StartDriver
    BY <1>4, <1>6, <2>1 DEF EndMaintenance
  <2>2. CASE UNCHANGED <<at, replay, turn, step>>
    BY <1>3, <2>2
  <2> QED
    BY <1>6, <2>1, <2>2 DEF EndMaintenance
<1>7. CASE Drained \/ RunMaintenance
  BY <1>3, <1>7 DEF Drained, RunMaintenance
<1>8. CASE SkipTurn
  <2>1. at = "boundary" /\ at' = "exiting" /\ turn' = turn /\ step' = step
    BY <1>8 DEF SkipTurn, Runs, Goes
  <2> QED
    BY <1>2, <2>1, RestsAt DEF Between
<1>9. CASE AskToStop
  <2>1. at = "stepped" /\ at' = "stopping" /\ turn' = turn /\ step' = step
    BY <1>9 DEF AskToStop, Runs, Goes
  <2> QED
    BY <2>1, TurnsAt DEF InTurn
<1>10. CASE Continue
  <2>1. at = "ended"
    BY <1>10 DEF Continue, Runs
  <2>2. CASE at' = "boundary" /\ step' = 0 /\ turn' = turn
    BY <2>1, <2>2, RestsAt DEF Between
  <2>3. CASE at' = "exiting" /\ step' = step /\ turn' = turn
    BY <1>2, <2>1, <2>3, RestsAt DEF Between
  <2> QED
    BY <1>10, <2>2, <2>3 DEF Continue, Goes
<1>11. CASE Exit
  <2>1. at = "exiting" /\ at' = "idled" /\ turn' = turn /\ step' = 0
    BY <1>11 DEF Exit, Runs
  <2> QED
    BY <1>2, <2>1, RestsAt DEF Between
<1>12. CASE FinishKick
  <2>1. at = "idled"
    BY <1>12 DEF FinishKick, Runs
  <2>2. CASE phase = "idle" /\ StartDriver
    BY <1>4, <2>2
  <2>3. CASE at' = "none" /\ turn' = turn /\ step' = step
    BY <1>2, <2>1, <2>3, RestsAt DEF Between
  <2> QED
    BY <1>12, <2>2, <2>3 DEF FinishKick, LatchWake
<1> QED
  BY <1>5, <1>6, <1>7, <1>8, <1>9, <1>10, <1>11, <1>12

\* The driver's steps that close a turn.
LEMMA CloseGrows ==
  ASSUME LogInv,
         \/ TurnAborts \/ Reject \/ CloseFailed \/ Stop \/ Catch \/ ListenerFails
  PROVE  Grows
<1>0. /\ <<>> \in Seq(Messages) /\ batch \in Seq(Messages) /\ step \in Nat
      /\ turnEnds \in Reasons /\ turnEnds \in Endings /\ stepEnd \in Endings
  BY LogFacts DEF Reasons
<1>1. /\ step' = step /\ turnEnds' = turnEnds /\ stepEnd' = stepEnd
      /\ batch' \in {<<>>, batch} /\ at \in InTurn /\ at' \in {"exiting", "ended", "erring"}
  BY DEF TurnAborts, Reject, CloseFailed, Stop, Catch, ListenerFails, Prepared, Runs,
         InTurn, Close, Goes
<1>2. DataOK'
  BY <1>0, <1>1 DEF DataOK
<1>3. CASE \/ Close("aborted", "exiting") \/ Close("blocked", "exiting")
           \/ Close("error", "exiting") \/ Close(turnEnds, "ended")
  <2>1. /\ "aborted" \in Reasons /\ "blocked" \in Reasons /\ "error" \in Reasons
        /\ step' \in Nat
    BY <1>0, <1>1 DEF Reasons
  <2>2. Moved
    BY <1>0, <1>1, <1>3, <2>1, CloseMove
  <2> QED
    BY <1>2, <2>2 DEF Grows
<1>4. CASE Goes("erring") /\ UNCHANGED <<log, inbox>>
  <2>1. NowAt(log, at', turn', step')
    BY <1>1, <1>4, TurnsAt DEF Goes, InTurn
  <2> QED
    BY <1>2, <1>4, <2>1, QuietMove DEF Grows
<1> QED
  BY <1>3, <1>4
  DEF TurnAborts, Reject, CloseFailed, Stop, Catch, ListenerFails, Prepared

\* Every other step of the driver.
LEMMA DriverGrows ==
  ASSUME LogInv,
         \/ OpenTurn \/ FirstClaim \/ PromptClaim \/ NextClaim \/ PreStep
         \/ AppendMessage \/ Reply \/ CutReply \/ ReplyWithTools \/ Tools
         \/ StepFails \/ StepAborts \/ StepEnds
  PROVE  Grows
<1>0. /\ <<>> \in Seq(Messages) /\ batch \in Seq(Messages) /\ step \in Nat
      /\ turnEnds \in Reasons /\ turnEnds \in Endings /\ stepEnd \in Endings
      /\ "none" \in Endings /\ "completed" \in Endings /\ "max-tokens" \in Endings
      /\ "completed" \in Reasons
  BY LogFacts DEF Reasons, Endings
<1>1. CASE OpenTurn
  <2>1. DataOK'
    BY <1>0, <1>1 DEF OpenTurn, DataOK
  <2> QED
    BY <1>1, <2>1, OpenTurnMove DEF Grows
<1>2. CASE FirstClaim \/ PromptClaim \/ NextClaim
  <2>1. at \in InTurn
    BY <1>2 DEF FirstClaim, PromptClaim, NextClaim, Runs, InTurn
  <2>2. /\ "next-step" \in Targets /\ "next-turn" \in Targets
        /\ inbox["next-step"] \in Seq(Messages)
        /\ Len(inbox["next-step"]) <= Len(inbox["next-step"])
    BY LogFacts DEF Targets
  <2>3. CASE PromptClaim
    BY <2>1, <2>2, <2>3, PromptTyped, ClaimMove DEF PromptClaim, Grows
  <2>4. CASE FirstClaim \/ NextClaim
    BY <2>1, <2>2, <2>4, ClaimMove DEF FirstClaim, NextClaim, Grows
  <2> QED
    BY <1>2, <2>3, <2>4
<1>3. ASSUME NEW messages \in {<<>>, batch}, NEW context \in BOOLEAN,
             Enter(messages, context)
      PROVE  Grows
  <2>1. /\ at = "preparing" /\ batch' = messages /\ turnEnds' = turnEnds
        /\ stepEnd' = stepEnd
    BY <1>3 DEF Enter, Prepared, Runs
  <2>2. messages \in Seq(Messages)
    BY <1>0
  <2>3. at' = "entered" => messages # <<>>
    BY <1>3 DEF Enter, Close, Goes
  <2>a. DataOK'
    BY <1>0, <2>1, <2>2, <2>3 DEF DataOK
  <2>4. CASE Close(turnEnds, "ended") /\ step' = step
    BY <1>0, <2>1, <2>a, <2>4, CloseMove DEF Grows, InTurn
  <2>5. CASE Close("completed", "exiting") /\ step' = step
    BY <1>0, <2>1, <2>a, <2>5, CloseMove DEF Grows, InTurn
  <2>6. CASE /\ Logs(<<StepStart(turn, step + 1)>>) /\ step' = step + 1
             /\ Goes(IF messages = <<>> THEN "requesting" ELSE "entered")
    <3> DEFINE place == IF messages = <<>> THEN "requesting" ELSE "entered"
    <3>1. place \in {"requesting", "entered"} /\ Goes(place)
      BY <2>6
    <3> HIDE DEF place
    <3> QED
      BY <2>1, <2>a, <2>6, <3>1, StepStartMove DEF Grows
  <2> QED
    BY <1>3, <2>4, <2>5, <2>6 DEF Enter
<1>a. CASE AppendMessage
  BY <1>a, AppendMove DEF Grows
<1>4. CASE Reply \/ CutReply
  <2>1. /\ batch' = batch /\ turnEnds' = turnEnds /\ stepEnd' \in Endings
        /\ at = "requesting" /\ at' = "replied" /\ turn' = turn /\ step' = step
    BY <1>4 DEF Reply, CutReply, Endings, Runs, Goes
  <2>2. PICK cs : CallsOf(turn, step, cs) /\ Logs(<<Assistant(turn, step, cs)>>)
    BY <1>4 DEF Reply, CutReply, CallsOf, CallOf
  <2>3. Moved
    BY <2>1, <2>2, ReplyMove
  <2> QED
    BY <1>0, <2>1, <2>3 DEF Grows, DataOK
<1>5. CASE ReplyWithTools
  <2>1. DataOK'
    BY <1>0, <1>5 DEF ReplyWithTools, DataOK, Goes
  <2> QED
    BY <1>5, <2>1, ReplyWithToolsMove DEF Grows
<1>6. ASSUME NEW context \in Seq(Messages), NEW concluded \in BOOLEAN,
             ToolSettles(context, concluded)
      PROVE  Grows
  <2>1. /\ batch' = batch /\ turnEnds' = turnEnds /\ stepEnd' \in Endings
        /\ at' = "replied"
    BY <1>0, <1>6 DEF ToolSettles, Goes
  <2> QED
    BY <1>0, <1>6, <2>1, ToolsMove DEF Grows, DataOK
<1>7. CASE Tools
  <2>1. \A m \in Messages : <<m>> \in Seq(Messages)
    OBVIOUS
  <2> QED
    BY <1>0, <1>6, <1>7, <2>1 DEF Tools
<1>8. CASE StepFails
  <2>1. /\ at \in InStep /\ Logs(<<StepEnd(turn, step)>>) /\ Goes("failed")
        /\ step' = step /\ UNCHANGED <<batch, turnEnds, stepEnd>>
    BY <1>8 DEF StepFails, Runs, InStep
  <2> QED
    BY <1>0, <2>1, StepEndMove DEF Grows, DataOK, Goes
<1>9. CASE StepAborts
  <2>1. DataOK'
    BY <1>0, <1>9 DEF StepAborts, DataOK, Goes
  <2> QED
    BY <1>9, <2>1, StepAbortsMove DEF Grows
<1>10. CASE StepEnds
  <2>1. /\ at \in InStep /\ Logs(<<StepEnd(turn, step)>>) /\ Goes("stepped")
        /\ step' = step /\ turnEnds' \in {turnEnds, stepEnd}
        /\ UNCHANGED <<batch, stepEnd>>
    BY <1>10 DEF StepEnds, Runs, InStep
  <2> QED
    BY <1>0, <2>1, StepEndMove DEF Grows, DataOK, Goes
<1> QED
  BY <1>1, <1>2, <1>3, <1>a, <1>4, <1>5, <1>7, <1>8, <1>9, <1>10 DEF PreStep

\* A crash keeps a lawful prefix, and repair completes it.
LEMMA CrashRecovers ==
  ASSUME LogInv, CrashAndResume
  PROVE  Recover /\ LogInv'
<1>1. PICK n \in 0..Len(log) : log' = Recovered(SubSeq(log, 1, n))
  BY DEF CrashAndResume
<1> DEFINE p == Upto(log, n)
<1>2. Lawful(log) /\ log \in Seq(LogEvents) /\ Len(log) \in Nat
  BY LogFacts DEF LogInv
<1>3. Lawful(p) /\ Len(p) = n /\ p = SubSeq(log, 1, n)
  BY <1>2, LawfulPrefix, PrefixOf DEF Upto
<1>4. log' = Recovered(p)
  BY <1>1, <1>3
<1> HIDE DEF p
<1>5. /\ Continues(p, log') /\ Tr(log').openTurn = None
      /\ ReplayInbox(log') = ReplayInbox(p)
  BY <1>3, <1>4, RepairLawful
<1>6. Lawful(log') /\ n <= Len(log')
  BY <1>3, <1>5 DEF Continues
<1>7. log' \in Seq(LogEvents) /\ Len(log') \in Nat /\ AcceptedAfter(0, log')
  BY <1>6 DEF Lawful
<1>8. n \in 0..Len(log') /\ Len(log') - n \in 0..Len(log') /\ n <= Len(log)
      /\ Len(log') - (Len(log') - n) = n
  BY <1>1, <1>6, <1>7
<1>9. AcceptedAfter(n, log')
  BY <1>7, <1>8, AcceptedPrefix
<1>10. Recover
  <2>1. \E closers \in 0..Len(log') :
          LET k == Len(log') - closers
          IN  /\ k <= Len(log) /\ log' = Recovered(SubSeq(log, 1, k))
              /\ AcceptedAfter(k, log')
    <3> DEFINE lost == Len(log') - n
    <3>1. lost \in 0..Len(log') /\ Len(log') - lost = n
      BY <1>8
    <3> HIDE DEF lost
    <3> QED
      BY <1>1, <1>8, <1>9, <3>1
  <2> QED
    BY <1>5, <2>1 DEF Recover, Tr
<1>11. /\ at' = "none" /\ turn' = LastTurn(log') /\ step' = 0
       /\ inbox' = ReplayInbox(log') /\ batch' = <<>> /\ turnEnds' = "none"
       /\ stepEnd' = "none"
  BY DEF CrashAndResume
<1>12. NowAt(log', at', turn', step')
  BY <1>5, <1>11 DEF NowAt, Between, InTurn, InStep
<1>13. DataOK'
  <2>1. <<>> \in Seq(Messages) /\ "none" \in Endings
    BY DEF Endings
  <2> QED
    BY <1>11, <2>1 DEF DataOK
<1> QED
  BY <1>6, <1>10, <1>11, <1>12, <1>13 DEF LogInv

\* Every step keeps the log and the driver in step, and is one of a writer.
LEMMA NextLogInv == LogInv /\ WakeInv /\ [AgentNext]_vars => LogInv' /\ [Next]_log
<1> SUFFICES ASSUME LogInv, WakeInv, [AgentNext]_vars PROVE LogInv' /\ [Next]_log
  OBVIOUS
<1>1. CASE CrashAndResume
  BY <1>1, CrashRecovers DEF Next
<1>2. CASE Grows
  <2>1. LogInv'
    BY <1>2 DEF Grows, Moved, LogInv, Continues
  <2>2. /\ Lawful(log') /\ Len(log) <= Len(log') /\ Upto(log', Len(log)) = log
        /\ log \in Seq(LogEvents) /\ Len(log) \in Nat
    BY <1>2, LogFacts DEF Grows, Moved, Continues
  <2>3. log' \in Seq(LogEvents) /\ Len(log') \in Nat /\ AcceptedAfter(0, log')
        /\ Len(log) \in 0..Len(log')
    BY <2>2 DEF Lawful
  <2>4. AcceptedAfter(Len(log), log')
    BY <2>3, AcceptedPrefix
  <2>5. IsPrefix(log, log')
    <3>1. SubSeq(log, 1, Len(log)) = log
      BY <2>2, PrefixOf DEF Upto
    <3> QED
      BY <2>2, <3>1 DEF IsPrefix, Upto
  <2> QED
    BY <2>1, <2>4, <2>5 DEF Next, Extend
<1>3. CASE UNCHANGED vars
  <2>1. UNCHANGED <<log, inbox, at, turn, step, batch, turnEnds, stepEnd>>
    BY <1>3 DEF vars, control, data
  <2>2. Grows
    BY <2>1, InboxGrows
  <2> QED
    BY <1>2, <2>2
<1>4. CASE \/ \E m \in Messages, target \in Targets, wakeup \in BOOLEAN :
                Send(m, target, wakeup)
           \/ Edit \/ (\E keepInbox \in BOOLEAN : Cancel(keepInbox)) \/ Dispose
  BY <1>2, <1>4, InputGrows
<1>5. CASE \/ WakeDriver \/ EndMaintenance \/ Drained \/ RunMaintenance \/ SkipTurn
           \/ AskToStop \/ Continue \/ Exit \/ FinishKick
  BY <1>2, <1>5, QuietGrows
<1>6. CASE TurnAborts \/ Reject \/ CloseFailed \/ Stop \/ Catch \/ ListenerFails
  BY <1>2, <1>6, CloseGrows
<1>7. CASE \/ OpenTurn \/ FirstClaim \/ PromptClaim \/ NextClaim \/ PreStep
           \/ AppendMessage \/ Reply \/ CutReply \/ ReplyWithTools \/ Tools
           \/ StepFails \/ StepAborts \/ StepEnds
  BY <1>2, <1>7, DriverGrows
<1> QED
  BY <1>1, <1>3, <1>4, <1>5, <1>6, <1>7 DEF AgentNext, Input, Driver

\* A new agent has an empty log.
LEMMA InitLogInv == AgentInit => LogInv
<1> SUFFICES ASSUME AgentInit PROVE LogInv
  OBVIOUS
<1>1. /\ log = <<>> /\ at = "none" /\ turn = 0 /\ step = 0 /\ inbox = EmptyInbox
      /\ batch = <<>> /\ turnEnds = "none" /\ stepEnd = "none"
  BY DEF AgentInit, Init
<1>2. /\ Lawful(log) /\ Tr(log) = FreshTrace /\ LastTurn(log) = 0
      /\ ReplayInbox(log) = EmptyInbox
  BY <1>1, LawfulEmpty
<1>3. FreshTrace.openTurn = None
  BY DEF FreshTrace
<1>4. NowAt(log, at, turn, step)
  BY <1>1, <1>2, <1>3 DEF NowAt, Between, InTurn, InStep
<1>5. <<>> \in Seq(Messages) /\ "none" \in Endings
  BY DEF Endings
<1> QED
  BY <1>1, <1>2, <1>4, <1>5 DEF LogInv, DataOK

\* Every event that reaches the log satisfies the relational rules of
\* session/src/invariant.ts, across cancellation, failures, crash and resume:
\* the driver is a writer of session logs, for any messages and bounds.
THEOREM LogCorrect == AgentSpec => ImplementsSessionLog
<1>1. AgentInit => Init
  BY DEF AgentInit
<1>2. AgentSpec => [](LogInv /\ WakeInv)
  BY InitLogInv, InitWakeInv, NextLogInv, NextWakeInv, PTL DEF AgentSpec
<1>3. LogInv /\ WakeInv /\ [AgentNext]_vars => [Next]_log
  BY NextLogInv
<1> QED
  BY <1>1, <1>2, <1>3, PTL DEF AgentSpec, ImplementsSessionLog, Spec
-----------------------------------------------------------------------------
(***************************************************************************)
(* What an aborted driver may still log.                                   *)
(***************************************************************************)
Tame(e)     == e.type \notin Uncancelled \cup {"user/message"} /\ ~IsClaim(e)
Tamed(l, m) == \A i \in (Len(l) + 1)..Len(m) : Tame(m[i])

\* One more such event.
LEMMA TameAppend ==
  ASSUME NEW S, NEW l \in Seq(S), NEW m \in Seq(S), NEW e \in S,
         Len(l) <= Len(m), Tamed(l, m), Tame(e)
  PROVE  /\ Append(m, e) \in Seq(S) /\ Len(l) <= Len(Append(m, e))
         /\ Tamed(l, Append(m, e))
<1>1. /\ Append(m, e) \in Seq(S) /\ Len(Append(m, e)) = Len(m) + 1
      /\ Append(m, e)[Len(m) + 1] = e /\ \A i \in 1..Len(m) : Append(m, e)[i] = m[i]
      /\ Len(l) \in Nat /\ Len(m) \in Nat
  BY PrefixAppend
<1>2. ASSUME NEW i \in (Len(l) + 1)..(Len(m) + 1)
      PROVE  Tame(Append(m, e)[i])
  <2>1. i = Len(m) + 1 \/ (i \in (Len(l) + 1)..Len(m) /\ i \in 1..Len(m))
    BY <1>1
  <2> QED
    BY <1>1, <2>1 DEF Tamed
<1> QED
  BY <1>1, <1>2 DEF Tamed

\* One more splice, if it is logged.
LEMMA TameEdited ==
  ASSUME NEW S, NEW l \in Seq(S), NEW m \in Seq(S), NEW e \in S,
         Len(l) <= Len(m), Tamed(l, m), Tame(e)
  PROVE  /\ Edited(m, e) \in Seq(S) /\ Len(l) <= Len(Edited(m, e))
         /\ Tamed(l, Edited(m, e))
<1>1. CASE e.removed > 0 \/ e.inserted # <<>>
  <2>1. Edited(m, e) = Append(m, e)
    BY <1>1, AppendIsConcat DEF Edited, Logged
  <2> QED
    BY <2>1, TameAppend
<1>2. CASE ~(e.removed > 0 \/ e.inserted # <<>>)
  <2>1. Edited(m, e) = m
    BY <1>2, ConcatEmptySeq DEF Edited, Logged
  <2> QED
    BY <2>1
<1> QED
  BY <1>1, <1>2

\* Up to two such events are appended.
LEMMA TameSteps ==
  ASSUME NEW e, NEW f, LogInv, Tame(e), Tame(f),
         \/ log' = log
         \/ log' = log \o <<e>>
         \/ log' = log \o <<e, f>>
         \/ log' = log \o Logged(e) \o Logged(f)
         \/ log' = log \o <<e>> \o Logged(f)
  PROVE  Tamed(log, log')
<1> DEFINE S == LogEvents \cup {e, f}
<1>1. log \in Seq(S) /\ e \in S /\ f \in S
  BY LogFacts
<1>2. Tamed(log, log) /\ Len(log) <= Len(log) /\ Len(log) \in Nat
  BY <1>1 DEF Tamed
<1> HIDE DEF S
<1>3. CASE log' = log
  BY <1>2, <1>3
<1> DEFINE l == Append(log, e)
<1>4. l \in Seq(S) /\ Len(log) <= Len(l) /\ Tamed(log, l)
  BY <1>1, <1>2, TameAppend
<1>5. log \o <<e>> = l /\ log \o <<e, f>> = Append(l, f)
  BY <1>1
<1> HIDE DEF l
<1>6. CASE log' = log \o <<e>>
  BY <1>4, <1>5, <1>6
<1>7. CASE log' = log \o <<e, f>>
  <2>1. Tamed(log, Append(l, f))
    BY <1>1, <1>4, TameAppend
  <2> QED
    BY <1>5, <1>7, <2>1
<1>8. CASE log' = log \o <<e>> \o Logged(f)
  <2>1. Tamed(log, Edited(l, f))
    BY <1>1, <1>4, TameEdited
  <2> QED
    BY <1>5, <1>8, <2>1 DEF Edited
<1>9. CASE log' = log \o Logged(e) \o Logged(f)
  <2> DEFINE k == Edited(log, e)
  <2>1. k \in Seq(S) /\ Len(log) <= Len(k) /\ Tamed(log, k)
    BY <1>1, <1>2, TameEdited
  <2> HIDE DEF k
  <2>2. Tamed(log, Edited(k, f))
    BY <1>1, <2>1, TameEdited
  <2> QED
    BY <1>9, <2>2 DEF Edited, k
<1> QED
  BY <1>3, <1>6, <1>7, <1>8, <1>9

\* What is tame: endings, results, and splices that insert or cancel.
LEMMA TameEvents ==
  /\ \A t, r : Tame(TurnEnd(t, r))
  /\ \A t, s : Tame(StepEnd(t, s))
  /\ \A t, s, c, x : Tame(ToolResult(t, s, c, x))
  /\ \A target, start, inserted, canceled :
       Tame(Spliced(target, start, 0, inserted, canceled))
  /\ \A target, start, removed, inserted :
       Tame(Spliced(target, start, removed, inserted, TRUE))
  /\ Tame(Nothing)
<1>1. \A t, r : Tame(TurnEnd(t, r))
  BY DEF TurnEnd, Tame, Uncancelled, IsClaim
<1>2. \A t, s : Tame(StepEnd(t, s))
  BY DEF StepEnd, Tame, Uncancelled, IsClaim
<1>3. \A t, s, c, x : Tame(ToolResult(t, s, c, x))
  BY DEF ToolResult, Tame, Uncancelled, IsClaim
<1>4. \A target, start, inserted, canceled :
        Tame(Spliced(target, start, 0, inserted, canceled))
  BY DEF Spliced, Tame, Uncancelled, IsClaim
<1>5. \A target, start, removed, inserted :
        Tame(Spliced(target, start, removed, inserted, TRUE))
  BY DEF Spliced, Tame, Uncancelled, IsClaim
<1> QED
  BY <1>1, <1>2, <1>3, <1>4, <1>5 DEF Nothing

\* What the observers of an append have just seen, where the run of code that
\* appended it still owes an event: the steering of a claim whose prompt comes
\* next, and the start of a step or a message of it, with more of them to come.
Owes(l, place) ==
  /\ l # <<>>
  /\ place = "claiming" => IsClaim(l[Len(l)]) /\ l[Len(l)].target = "next-step"
  /\ place = "entered" => l[Len(l)].type \in {"step/start", "user/message"}
Halfway == {"claiming", "entered"}
TailInv == at \in Halfway => Owes(log, at)

\* The last event of a log is the one just appended.
LEMMA LastEvent ==
  ASSUME NEW e, LogInv, log' = log \o <<e>>
  PROVE  /\ Len(log) \in Nat /\ Len(log') = Len(log) + 1 /\ log' # <<>>
         /\ log'[Len(log) + 1] = e /\ \A i \in 1..Len(log) : log'[i] = log[i]
<1> DEFINE S == LogEvents \cup {e}
<1>1. log \in Seq(S) /\ e \in S
  BY LogFacts
<1> HIDE DEF S
<1> QED
  BY <1>1

\* A claim that takes something logs its one splice; else it logs nothing.
LEMMA ClaimLogged ==
  ASSUME NEW target, NEW taken \in Seq(Messages), LogInv,
         Splice(<<ClaimEvent(target, taken), Nothing>>)
  PROVE  /\ taken # <<>> => log' = log \o <<ClaimEvent(target, taken)>>
         /\ taken = <<>> => log' = log
         /\ ClaimEvent(target, taken).type = "agent/inbox/spliced"
         /\ ClaimEvent(target, taken).target = target
         /\ taken # <<>> => IsClaim(ClaimEvent(target, taken))
<1> DEFINE e == ClaimEvent(target, taken)
<1>1. /\ e.type = "agent/inbox/spliced" /\ e.target = target
      /\ e.removed = Len(taken) /\ e.inserted = <<>> /\ e.canceled = FALSE
  BY DEF ClaimEvent, Spliced
<1>2. Logged(Nothing) = <<>>
  BY NothingPlaced DEF Logged
<1>3. log' = log \o Logged(e) \o <<>>
  BY <1>2 DEF Splice
<1>4. Len(taken) \in Nat /\ (taken # <<>> <=> Len(taken) > 0)
  OBVIOUS
<1> HIDE DEF e
<1>5. CASE taken # <<>>
  <2>1. Logged(e) = <<e>>
    BY <1>1, <1>4, <1>5 DEF Logged
  <2> DEFINE S == LogEvents \cup {e}
  <2>2. log \in Seq(S) /\ <<e>> \in Seq(S)
    BY LogFacts
  <2> HIDE DEF S
  <2>3. log' = log \o <<e>>
    BY <1>3, <2>1, <2>2, ConcatProperties, ConcatEmptySeq
  <2>4. IsClaim(e)
    BY <1>1, <1>4, <1>5 DEF IsClaim
  <2> QED
    BY <1>1, <1>5, <2>3, <2>4 DEF e
<1>6. CASE taken = <<>>
  <2>1. Logged(e) = <<>>
    BY <1>1, <1>6 DEF Logged
  <2>2. log' = log
    BY <1>3, <2>1, LogFacts, ConcatEmptySeq
  <2> QED
    BY <1>1, <1>6, <2>2 DEF e
<1> QED
  BY <1>5, <1>6

\* Nothing is logged before the driver has gone on: no send or edit comes from
\* an observer, and a cancel there finds nothing to clear.
LEMMA NextTailInv ==
  LogInv /\ WakeInv /\ TailInv /\ [AgentNext]_vars => TailInv'
<1> SUFFICES ASSUME LogInv, WakeInv, TailInv, [AgentNext]_vars, at' \in Halfway
             PROVE  Owes(log', at')
  BY DEF TailInv
<1>1. ASSUME UNCHANGED <<log, at>> PROVE Owes(log', at')
  BY <1>1 DEF TailInv
<1>2. CASE UNCHANGED vars \/ Drained \/ RunMaintenance
  BY <1>1, <1>2 DEF vars, control, Drained, RunMaintenance
<1>3. CASE WakeDriver
  BY <1>1, <1>3 DEF WakeDriver, StartDriver, Halfway
<1>4. CASE \/ \E m \in Messages, target \in Targets, wakeup \in BOOLEAN :
                Send(m, target, wakeup)
           \/ Edit \/ Dispose
  <2>1. Open /\ at' = at
    BY <1>4 DEF Send, Edit, EditPending, Prepend, Dispose, CancelWith, control
  <2> QED
    BY <2>1 DEF Open, Observers, Halfway
<1>5. ASSUME NEW keepInbox \in BOOLEAN, Cancel(keepInbox)
      PROVE  Owes(log', at')
  <2>1. at' = at
    BY <1>5 DEF Cancel, CancelWith
  <2>2. at \in Observers
    BY <2>1 DEF Observers, Halfway
  <2>3. CASE keepInbox
    BY <1>1, <1>5, <2>1, <2>3 DEF Cancel, CancelWith
  <2>4. CASE ~keepInbox
    <3>1. ~hasPending /\ Splice(ClearEvents)
      BY <1>5, <2>2, <2>4 DEF Cancel, CancelWith
    <3>2. inbox["next-step"] = <<>> /\ inbox["next-turn"] = <<>>
      BY <3>1 DEF hasPending, Targets
    <3>3. Logged(ClearEvents[1]) = <<>> /\ Logged(ClearEvents[2]) = <<>>
      BY <3>2 DEF Logged, ClearEvents, Spliced
    <3>4. log' = log
      BY <3>1, <3>3, LogFacts, ConcatEmptySeq DEF Splice
    <3> QED
      BY <1>1, <2>1, <3>4
  <2> QED
    BY <2>3, <2>4
<1>6. CASE FirstClaim
  <2> DEFINE taken == inbox["next-step"]
             e == ClaimEvent("next-step", taken)
  <2>1. /\ taken \in Seq(Messages) /\ taken # <<>> /\ at' = "claiming"
        /\ Splice(<<e, Nothing>>)
    BY <1>6, LogFacts DEF FirstClaim, Claim, Goes
  <2>2. log' = log \o <<e>> /\ IsClaim(e) /\ e.target = "next-step"
    BY <2>1, ClaimLogged
  <2> HIDE DEF e, taken
  <2>3. log' # <<>> /\ log'[Len(log')] = e
    BY <2>2, LastEvent
  <2> QED
    BY <2>1, <2>2, <2>3 DEF Owes
<1>7. CASE PreStep
  <2> DEFINE e == StepStart(turn, step + 1)
  <2>1. at' = "entered" /\ log' = log \o <<e>>
    BY <1>7 DEF PreStep, Enter, Close, Logs, Goes, Halfway
  <2>2. e.type = "step/start"
    BY DEF StepStart
  <2> HIDE DEF e
  <2>3. log' # <<>> /\ log'[Len(log')] = e
    BY <2>1, LastEvent
  <2> QED
    BY <2>1, <2>2, <2>3 DEF Owes
<1>8. CASE AppendMessage
  <2> DEFINE e == UserMessage(Head(batch))
  <2>1. at' = "entered" /\ log' = log \o <<e>>
    BY <1>8 DEF AppendMessage, Logs, Goes, Halfway
  <2>2. e.type = "user/message"
    BY DEF UserMessage
  <2> HIDE DEF e
  <2>3. log' # <<>> /\ log'[Len(log')] = e
    BY <2>1, LastEvent
  <2> QED
    BY <2>1, <2>2, <2>3 DEF Owes
<1>9. CASE \/ OpenTurn \/ SkipTurn \/ TurnAborts \/ PromptClaim \/ Reject
           \/ ListenerFails \/ Reply \/ CutReply \/ ReplyWithTools \/ Tools
           \/ StepFails \/ StepAborts \/ StepEnds \/ Catch \/ CloseFailed
           \/ AskToStop \/ NextClaim \/ Stop \/ Continue \/ Exit \/ FinishKick
           \/ CrashAndResume \/ EndMaintenance
  <2>1. at' \notin Halfway
    BY <1>9 DEF OpenTurn, SkipTurn, TurnAborts, PromptClaim, Claim, Reject,
      ListenerFails, Reply, CutReply, ReplyWithTools, Tools, ToolSettles, StepFails,
      StepAborts, StepEnds, Catch, CloseFailed, AskToStop, NextClaim, Stop, Continue,
      Exit, FinishKick, CrashAndResume, EndMaintenance, StartDriver, Close, Goes,
      Halfway
  <2> QED
    BY <2>1
<1> QED
  BY <1>2, <1>3, <1>4, <1>5, <1>6, <1>7, <1>8, <1>9 DEF AgentNext, Input, Driver

\* What AbortStopsWork says of the event at position i of a log.
Excused(l, i) ==
  /\ l[i].type \notin Uncancelled
  /\ IsClaim(l[i]) =>
       /\ l[i].target = "next-turn" /\ i > 1
       /\ IsClaim(l[i - 1]) /\ l[i - 1].target = "next-step"
  /\ l[i].type = "user/message" =>
       i > 1 /\ l[i - 1].type \in {"step/start", "user/message"}
Stopped(l, m) == \A i \in (Len(l) + 1)..Len(m) : Excused(m, i)

\* The one event that the code behind an observer still owes.
LEMMA OwedEvent ==
  ASSUME LogInv, TailInv, at \in Halfway, NEW e, log' = log \o <<e>>,
         \/ at = "claiming" /\ e.type = "agent/inbox/spliced" /\ e.target = "next-turn"
         \/ at = "entered" /\ e.type = "user/message"
  PROVE  Stopped(log, log')
<1>1. /\ Len(log) \in Nat /\ Len(log') = Len(log) + 1
      /\ log'[Len(log) + 1] = e /\ \A i \in 1..Len(log) : log'[i] = log[i]
  BY LastEvent
<1>2. Owes(log, at) /\ Len(log) > 0
  BY <1>1, LogFacts DEF TailInv, Owes
<1>3. ASSUME NEW i \in (Len(log) + 1)..Len(log') PROVE Excused(log', i)
  <2>1. i = Len(log) + 1 /\ i > 1 /\ i - 1 = Len(log) /\ i - 1 \in 1..Len(log)
    BY <1>1, <1>2
  <2>2. log'[i] = e /\ log'[i - 1] = log[Len(log)]
    BY <1>1, <2>1
  <2>3. e.type \notin Uncancelled
    BY DEF Uncancelled
  <2>4. CASE at = "claiming"
    BY <1>2, <2>1, <2>2, <2>3, <2>4 DEF Owes, Excused
  <2>5. CASE at = "entered"
    BY <1>2, <2>1, <2>2, <2>3, <2>5 DEF Owes, Excused, IsClaim
  <2> QED
    BY <2>4, <2>5 DEF Halfway
<1> QED
  BY <1>3 DEF Stopped

\* Only the steps that look at the signal first, and find it live, do more; but
\* for what the code behind an observer still owes.
LEMMA AbortedSteps ==
  ASSUME LogInv, WakeInv, TailInv, [AgentNext]_vars, abort # "none", abort' = abort
  PROVE  Stopped(log, log')
<1> SUFFICES ASSUME ~Stopped(log, log') PROVE Tamed(log, log')
  <2>1. \A i : Tame(log'[i]) => Excused(log', i)
    BY DEF Tame, Excused
  <2> QED
    BY <2>1 DEF Tamed, Stopped
<1>0. /\ \A e : Tame(e) /\ log' = log \o <<e>> => Tamed(log, log')
      /\ log' = log => Tamed(log, log')
  <2>1. log' = log => Tamed(log, log')
    BY TameEvents, TameSteps
  <2> QED
    BY <2>1, TameSteps
<1>1. ASSUME NEW e, NEW f, Tame(e), Tame(f), Splice(<<e, f>>)
      PROVE  Tamed(log, log')
  <2>1. log' = log \o Logged(e) \o Logged(f)
    BY <1>1 DEF Splice
  <2> QED
    BY <1>1, <2>1, TameSteps
<1>2. CASE UNCHANGED vars \/ WakeDriver \/ EndMaintenance \/ Drained
           \/ RunMaintenance \/ SkipTurn \/ AskToStop \/ Continue \/ Exit
           \/ FinishKick \/ ListenerFails
  <2>1. log' = log
    BY <1>2 DEF vars, WakeDriver, EndMaintenance, Drained, RunMaintenance, SkipTurn,
                AskToStop, Continue, Exit, FinishKick, ListenerFails
  <2> QED
    BY <1>0, <2>1
<1>3. CASE \/ OpenTurn \/ FirstClaim \/ NextClaim \/ PreStep \/ Reply \/ CutReply
           \/ ReplyWithTools \/ Reject \/ Stop \/ CrashAndResume
  BY <1>3 DEF OpenTurn, FirstClaim, NextClaim, PreStep, Enter, Prepared, Reply,
              CutReply, ReplyWithTools, Reject, Stop, CrashAndResume
<1>a. CASE PromptClaim
  <2> DEFINE e == ClaimEvent("next-turn", Prompt)
  <2>1. at = "claiming" /\ Splice(<<e, Nothing>>) /\ Prompt \in Seq(Messages)
    BY <1>a, PromptTyped DEF PromptClaim, Runs, Claim
  <2>2. /\ log' = log \/ log' = log \o <<e>>
        /\ e.type = "agent/inbox/spliced" /\ e.target = "next-turn"
    BY <2>1, ClaimLogged
  <2> HIDE DEF e
  <2> QED
    BY <1>0, <2>1, <2>2, OwedEvent DEF Halfway
<1>b. CASE AppendMessage
  <2> DEFINE e == UserMessage(Head(batch))
  <2>1. at = "entered" /\ log' = log \o <<e>>
    BY <1>b DEF AppendMessage, Runs, Logs
  <2>2. e.type = "user/message"
    BY DEF UserMessage
  <2> HIDE DEF e
  <2> QED
    BY <2>1, <2>2, OwedEvent DEF Halfway
<1>4. CASE TurnAborts \/ CloseFailed \/ Catch
  <2>1. \A r, place : Close(r, place) => log' = log \o <<TurnEnd(turn, r)>>
    BY DEF Close, Logs
  <2>2. log' = log \/ \E r : log' = log \o <<TurnEnd(turn, r)>>
    BY <1>4, <2>1 DEF TurnAborts, CloseFailed, Catch
  <2> QED
    BY <1>0, <2>2, TameEvents
<1>5. CASE StepFails \/ StepEnds
  <2>1. log' = log \o <<StepEnd(turn, step)>>
    BY <1>5 DEF StepFails, StepEnds, Logs
  <2> QED
    BY <1>0, <2>1, TameEvents
<1>6. CASE StepAborts
  <2> DEFINE e == StepEnd(turn, step)
             f == TurnEnd(turn, "aborted")
  <2>1. log' = log \o <<e, f>>
    BY <1>6 DEF StepAborts, Logs
  <2>2. Tame(e) /\ Tame(f)
    BY TameEvents
  <2> HIDE DEF e, f
  <2> QED
    BY <2>1, <2>2, TameSteps
<1>7. CASE Tools
  <2>1. PICK context, concluded : ToolSettles(context, concluded)
    BY <1>7 DEF Tools
  <2> DEFINE e == ToolResult(turn, step, <<turn, step>>, "none")
             f == Spliced("next-step", Len(inbox["next-step"]), 0, context, FALSE)
  <2>2. log' = log \o <<e>> \o Logged(f)
    BY <2>1 DEF ToolSettles
  <2>3. Tame(e) /\ Tame(f)
    BY TameEvents
  <2> HIDE DEF e, f
  <2> QED
    BY <2>2, <2>3, TameSteps
<1>8. CASE \E m \in Messages, target \in Targets, wakeup \in BOOLEAN :
             Send(m, target, wakeup)
  BY <1>1, <1>8, TameEvents DEF Send, Insert
<1>9. CASE Edit
  BY <1>1, <1>9, TameEvents DEF Edit, EditPending, Prepend
<1>10. CASE (\E keepInbox \in BOOLEAN : Cancel(keepInbox)) \/ Dispose
  <2>1. log' = log \/ Splice(ClearEvents)
    BY <1>10 DEF Cancel, Dispose, CancelWith
  <2> QED
    BY <1>0, <1>1, <2>1, TameEvents DEF ClearEvents
<1> QED
  BY <1>2, <1>3, <1>a, <1>b, <1>4, <1>5, <1>6, <1>7, <1>8, <1>9, <1>10
  DEF AgentNext, Input, Driver

\* throwIfAborted at every await: once its controller is aborted a driver opens
\* no turn or step and commits no reply, and takes or delivers no message but the
\* prompt behind the steering of one claim and the messages behind the start of
\* their step, which follow without a look at the signal.
THEOREM AbortCorrect == AgentSpec => AbortStopsWork
<1>1. AgentInit => TailInv
  BY DEF AgentInit, TailInv, Halfway
<1>2. AgentSpec => [](LogInv /\ WakeInv /\ TailInv)
  BY <1>1, InitLogInv, InitWakeInv, NextLogInv, NextWakeInv, NextTailInv, PTL
     DEF AgentSpec
<1>3. LogInv /\ WakeInv /\ TailInv /\ [AgentNext]_vars =>
        [abort # "none" /\ abort' = abort =>
           \A i \in (Len(log) + 1)..Len(log') :
             /\ log'[i].type \notin Uncancelled
             /\ IsClaim(log'[i]) =>
                  /\ log'[i].target = "next-turn" /\ i > 1
                  /\ IsClaim(log'[i - 1]) /\ log'[i - 1].target = "next-step"
             /\ log'[i].type = "user/message" =>
                  i > 1 /\ log'[i - 1].type \in {"step/start", "user/message"}]_vars
  BY AbortedSteps DEF Stopped, Excused
<1> QED
  BY <1>2, <1>3, PTL DEF AgentSpec, AbortStopsWork
-----------------------------------------------------------------------------
(***************************************************************************)
(* The messages.  What the log says of a message: that it was given to the *)
(* inbox, shown to the model, taken by a turn; and of a turn: that it took *)
(* a prompt, that it settled with work done.  Each event adds to these.    *)
(***************************************************************************)
Has(s, m) == \E k \in 1..Len(s) : s[k] = m
Pends(box, m) == \E target \in Targets : Has(box[target], m)
ClaimedBy(box, e) == SubSeq(box[e.target], 1, e.removed)

Claimed(l, i) == ClaimedBy(ReplayInbox(Upto(l, i - 1)), l[i])
TurnOf(l, i)  == LastTurn(Upto(l, i))
Gives(e)      == e.type = "agent/inbox/spliced"

Given(l, m) == \E i \in 1..Len(l) : Gives(l[i]) /\ Has(l[i].inserted, m)
Shown(l, m) == \E i \in 1..Len(l) : l[i].type = "user/message" /\ l[i].id = m
Taken(l, t, m) ==
  \E i \in 1..Len(l) : IsClaim(l[i]) /\ TurnOf(l, i) = t /\ Has(Claimed(l, i), m)
Prompted(l, t) ==
  \E i \in 1..Len(l) : IsClaim(l[i]) /\ l[i].target = "next-turn" /\ TurnOf(l, i) = t
Settled(l, t) ==
  \E i \in 1..Len(l) : /\ l[i].type = "turn/end" /\ l[i].turn = t
                       /\ l[i].reason \in Endings

\* The positions of a longer log.
LEMMA LongerLog ==
  ASSUME NEW l \in Seq(LogEvents), NEW e \in LogEvents, NEW k, Adds(l, k, e)
  PROVE  /\ k \in Seq(LogEvents) /\ Len(k) = Len(l) + 1 /\ k[Len(l) + 1] = e
         /\ Len(l) \in Nat /\ Upto(k, Len(l)) = l /\ Upto(k, Len(l) + 1) = k
         /\ \A i \in 1..Len(l) : /\ k[i] = l[i] /\ TurnOf(k, i) = TurnOf(l, i)
                                 /\ Claimed(k, i) = Claimed(l, i)
         /\ TurnOf(k, Len(l) + 1) = LastTurn(k)
         /\ Claimed(k, Len(l) + 1) = ClaimedBy(ReplayInbox(l), e)
         /\ \A i : i \in 1..Len(k) <=> i \in 1..Len(l) \/ i = Len(l) + 1
<1>1. /\ k \in Seq(LogEvents) /\ Len(k) = Len(l) + 1 /\ k[Len(l) + 1] = e
      /\ \A i \in 1..Len(l) : k[i] = l[i]
      /\ \A i \in 0..Len(l) : Upto(k, i) = Upto(l, i)
      /\ Upto(k, Len(l) + 1) = k
  BY PrefixAppend DEF Adds
<1>2. Len(l) \in Nat /\ Upto(l, Len(l)) = l
  BY PrefixOf
<1>3. Len(l) \in 0..Len(l) /\ (Len(l) + 1) - 1 = Len(l)
  BY <1>2
<1>4. Upto(k, Len(l)) = l
  BY <1>1, <1>2, <1>3
<1>5. ASSUME NEW i \in 1..Len(l)
      PROVE  TurnOf(k, i) = TurnOf(l, i) /\ Claimed(k, i) = Claimed(l, i)
  <2>1. i \in 0..Len(l) /\ i - 1 \in 0..Len(l)
    BY <1>2
  <2>2. Upto(k, i) = Upto(l, i) /\ Upto(k, i - 1) = Upto(l, i - 1) /\ k[i] = l[i]
    BY <1>1, <2>1
  <2> QED
    BY <2>2 DEF TurnOf, Claimed
<1>6. TurnOf(k, Len(l) + 1) = LastTurn(k)
  BY <1>1 DEF TurnOf
<1>7. Claimed(k, Len(l) + 1) = ClaimedBy(ReplayInbox(l), e)
  BY <1>1, <1>3, <1>4 DEF Claimed
<1>8. \A i : i \in 1..Len(k) <=> i \in 1..Len(l) \/ i = Len(l) + 1
  BY <1>1, <1>2
<1> QED
  BY <1>1, <1>2, <1>4, <1>5, <1>6, <1>7, <1>8

\* What an event adds to what the log says.
LEMMA FactsAppend ==
  ASSUME NEW l \in Seq(LogEvents), NEW e \in LogEvents, NEW k, Adds(l, k, e)
  PROVE  /\ \A m : Given(k, m) <=> Given(l, m) \/ (Gives(e) /\ Has(e.inserted, m))
         /\ \A m : Shown(k, m) <=> Shown(l, m) \/ (e.type = "user/message" /\ e.id = m)
         /\ \A t, m : Taken(k, t, m) <=>
              \/ Taken(l, t, m)
              \/ /\ IsClaim(e) /\ LastTurn(k) = t
                 /\ Has(ClaimedBy(ReplayInbox(l), e), m)
         /\ \A t : Prompted(k, t) <=>
              \/ Prompted(l, t)
              \/ IsClaim(e) /\ e.target = "next-turn" /\ LastTurn(k) = t
         /\ \A t : Settled(k, t) <=>
              \/ Settled(l, t)
              \/ e.type = "turn/end" /\ e.turn = t /\ e.reason \in Endings
<1> DEFINE n == Len(l) + 1
<1>1. /\ k[n] = e /\ TurnOf(k, n) = LastTurn(k)
      /\ Claimed(k, n) = ClaimedBy(ReplayInbox(l), e)
      /\ \A i \in 1..Len(l) : /\ k[i] = l[i] /\ TurnOf(k, i) = TurnOf(l, i)
                              /\ Claimed(k, i) = Claimed(l, i)
      /\ \A i : i \in 1..Len(k) <=> i \in 1..Len(l) \/ i = n
  BY LongerLog
<1> HIDE DEF n
<1>2. ASSUME NEW m
      PROVE  Given(k, m) <=> Given(l, m) \/ (Gives(e) /\ Has(e.inserted, m))
  BY <1>1 DEF Given
<1>3. ASSUME NEW m
      PROVE  Shown(k, m) <=> Shown(l, m) \/ (e.type = "user/message" /\ e.id = m)
  BY <1>1 DEF Shown
<1>4. ASSUME NEW t, NEW m
      PROVE  Taken(k, t, m) <=>
               \/ Taken(l, t, m)
               \/ /\ IsClaim(e) /\ LastTurn(k) = t
                  /\ Has(ClaimedBy(ReplayInbox(l), e), m)
  BY <1>1 DEF Taken
<1>5. ASSUME NEW t
      PROVE  Prompted(k, t) <=>
               \/ Prompted(l, t)
               \/ IsClaim(e) /\ e.target = "next-turn" /\ LastTurn(k) = t
  BY <1>1 DEF Prompted
<1>6. ASSUME NEW t
      PROVE  Settled(k, t) <=>
               \/ Settled(l, t)
               \/ e.type = "turn/end" /\ e.turn = t /\ e.reason \in Endings
  BY <1>1 DEF Settled
<1> QED
  BY <1>2, <1>3, <1>4, <1>5, <1>6

SplicedTo(list, start, removed, inserted, out) ==
  out = SpliceAt(list, start, removed, inserted)

Pieces(list, start, removed, inserted, out) ==
  /\ Len(out) = Len(list) - removed + Len(inserted)
  /\ \A k \in 1..Len(out) :
       out[k] = IF k <= start THEN list[k]
                ELSE IF k <= start + Len(inserted) THEN inserted[k - start]
                ELSE list[k - Len(inserted) + removed]

\* What a splice makes of a list: what was in front, what it inserts, the rest.
LEMMA SpliceElements ==
  ASSUME NEW S, NEW list \in Seq(S), NEW start \in Nat, NEW removed \in Nat,
         NEW inserted \in Seq(S), NEW out, start + removed <= Len(list),
         SplicedTo(list, start, removed, inserted, out)
  PROVE  /\ out \in Seq(S) /\ Len(inserted) \in Nat /\ Len(list) \in Nat
         /\ Pieces(list, start, removed, inserted, out)
<1>1. /\ Len(list) \in Nat /\ Len(inserted) \in Nat
      /\ start + removed + 1 = (start + removed) + 1
  OBVIOUS
<1> DEFINE a == SubSeq(list, 1, start)
           b == SubSeq(list, start + removed + 1, Len(list))
           more == Len(inserted)
           rest == Len(list) - (start + removed)
<1>2. /\ a \in Seq(S) /\ Len(a) = start /\ \A i \in 1..start : a[i] = list[i]
  BY <1>1
<1>3. /\ b \in Seq(S) /\ Len(b) = rest /\ rest \in Nat
      /\ \A i \in 1..rest : b[i] = list[start + removed + i]
  BY <1>1
<1>4. SpliceAt(list, start, removed, inserted) = (a \o inserted) \o b
  BY DEF SpliceAt
<1>0. start + more \in Nat /\ more \in Nat
  BY <1>1
<1> HIDE DEF a, b, rest
<1> DEFINE c == a \o inserted
<1>5. /\ c \in Seq(S) /\ Len(c) = start + more
      /\ \A i \in 1..(start + more) :
           c[i] = IF i <= start THEN a[i] ELSE inserted[i - start]
  BY <1>2, ConcatProperties
<1> HIDE DEF c
<1> DEFINE new == c \o b
<1>6. /\ new \in Seq(S) /\ Len(new) = start + more + rest
      /\ \A i \in 1..(start + more + rest) :
           new[i] = IF i <= start + more THEN c[i] ELSE b[i - (start + more)]
  <2>1. /\ new \in Seq(S) /\ Len(new) = Len(c) + Len(b)
        /\ \A i \in 1..(Len(c) + Len(b)) :
             new[i] = IF i <= Len(c) THEN c[i] ELSE b[i - Len(c)]
    BY <1>3, <1>5, ConcatProperties
  <2> QED
    BY <1>3, <1>5, <2>1
<1> HIDE DEF new
<1>7. ASSUME NEW i \in 1..Len(new)
      PROVE  new[i] = IF i <= start THEN list[i]
                      ELSE IF i <= start + more THEN inserted[i - start]
                      ELSE list[i - more + removed]
  <2>1. i \in 1..(start + more + rest)
    BY <1>6
  <2>2. CASE i <= start
    <3>1. i <= start + more /\ i \in 1..(start + more) /\ i \in 1..start
      BY <1>0, <1>3, <2>1, <2>2
    <3> QED
      BY <1>2, <1>5, <1>6, <2>1, <2>2, <3>1
  <2>3. CASE ~(i <= start) /\ i <= start + more
    <3>1. i \in 1..(start + more)
      BY <1>0, <1>3, <2>1, <2>3
    <3> QED
      BY <1>5, <1>6, <2>1, <2>3, <3>1
  <2>4. CASE ~(i <= start) /\ ~(i <= start + more)
    <3>1. /\ i - (start + more) \in 1..rest
          /\ start + removed + (i - (start + more)) = i - more + removed
      BY <1>0, <1>3, <2>1, <2>4
    <3> QED
      BY <1>3, <1>6, <2>1, <2>4, <3>1
  <2> QED
    BY <2>2, <2>3, <2>4
<1>8. Len(new) = Len(list) - removed + more
  BY <1>0, <1>1, <1>6 DEF rest
<1>9. out = new
  BY <1>4 DEF new, c, SplicedTo
<1> QED
  BY <1>0, <1>1, <1>6, <1>7, <1>8, <1>9 DEF more, Pieces

Distinct(s) == \A i, j \in 1..Len(s) : s[i] = s[j] => i = j

\* A message is pending in one place only.
OnceEach(box) ==
  \A t, u \in Targets : \A i \in 1..Len(box[t]), j \in 1..Len(box[u]) :
    box[t][i] = box[u][j] => t = u /\ i = j

\* A list of messages none of which is pending, each named once.
Fresh(box, list) ==
  /\ \A m : Has(list, m) => ~Pends(box, m)
  /\ Distinct(list)

Apart(s, u) ==
  /\ Distinct(s) /\ Distinct(u)
  /\ \A i \in 1..Len(s), j \in 1..Len(u) : s[i] # u[j]

Sourced(list, start, removed, inserted, new) ==
  /\ \A k \in 1..Len(new) :
       \/ \E a \in 1..Len(list) : new[k] = list[a] /\ (a > removed \/ k <= start)
       \/ \E b \in 1..Len(inserted) : new[k] = inserted[b]
  /\ \A b \in 1..Len(inserted) : \E k \in 1..Len(new) : new[k] = inserted[b]

\* Where the elements of a spliced list come from; none comes twice.
LEMMA SpliceSources ==
  ASSUME NEW S, NEW list \in Seq(S), NEW start \in Nat, NEW removed \in Nat,
         NEW inserted \in Seq(S), NEW new, start + removed <= Len(list),
         SplicedTo(list, start, removed, inserted, new)
  PROVE  /\ new \in Seq(S)
         /\ Sourced(list, start, removed, inserted, new)
         /\ Apart(list, inserted) => Distinct(new)
<1> DEFINE more == Len(inserted)
           n == Len(list)
<1>1. /\ new \in Seq(S) /\ more \in Nat /\ n \in Nat
      /\ Len(new) = n - removed + more
      /\ \A k \in 1..Len(new) :
           new[k] = IF k <= start THEN list[k]
                    ELSE IF k <= start + more THEN inserted[k - start]
                    ELSE list[k - more + removed]
  <2>1. /\ new \in Seq(S) /\ Len(inserted) \in Nat /\ Len(list) \in Nat
        /\ Pieces(list, start, removed, inserted, new)
    BY SpliceElements
  <2> QED
    BY <2>1 DEF Pieces
<1>2. start + removed <= n
  OBVIOUS
<1> HIDE DEF more, n
<1> DEFINE Ahead(k) == k <= start /\ k \in 1..n /\ new[k] = list[k]
           Within(k) == k > start /\ k - start \in 1..more /\ new[k] = inserted[k - start]
           Behind(k) == /\ k > start + more /\ k - more + removed \in 1..n
                      /\ k - more + removed > start + removed
                      /\ new[k] = list[k - more + removed]
<1>3. ASSUME NEW k \in 1..Len(new) PROVE Ahead(k) \/ Within(k) \/ Behind(k)
  <2>1. CASE k <= start
    <3>1. k \in 1..n
      BY <1>1, <1>2, <2>1
    <3> QED
      BY <1>1, <2>1, <3>1
  <2>2. CASE k > start /\ k <= start + more
    <3>1. k - start \in 1..more
      BY <1>1, <2>2
    <3> QED
      BY <1>1, <2>2, <3>1
  <2>3. CASE k > start /\ k > start + more
    <3>1. k - more + removed \in 1..n /\ k - more + removed > start + removed
      BY <1>1, <1>2, <2>3
    <3> QED
      BY <1>1, <2>3, <3>1
  <2> QED
    BY <1>1, <2>1, <2>2, <2>3
<1>4. ASSUME NEW k \in 1..Len(new)
      PROVE  \/ \E a \in 1..n : new[k] = list[a] /\ (a > removed \/ k <= start)
             \/ \E b \in 1..more : new[k] = inserted[b]
  <2>1. Behind(k) => k - more + removed > removed
    BY <1>1
  <2> QED
    BY <1>3, <2>1
<1>5. ASSUME NEW b \in 1..more PROVE \E k \in 1..Len(new) : new[k] = inserted[b]
  <2>1. start + b \in 1..Len(new) /\ ~(start + b <= start) /\ start + b <= start + more
        /\ (start + b) - start = b
    BY <1>1, <1>2
  <2> QED
    BY <1>1, <2>1
<1>6. ASSUME Apart(list, inserted),
             NEW i \in 1..Len(new), NEW j \in 1..Len(new), new[i] = new[j]
      PROVE  i = j
  <2>0. /\ \A a, b \in 1..n : list[a] = list[b] => a = b
        /\ \A a, b \in 1..more : inserted[a] = inserted[b] => a = b
        /\ \A a \in 1..n, b \in 1..more : list[a] # inserted[b]
    BY <1>6 DEF Apart, Distinct, n, more
  <2>1. Ahead(i) \/ Within(i) \/ Behind(i)
    BY <1>3
  <2>2. Ahead(j) \/ Within(j) \/ Behind(j)
    BY <1>3
  <2>3. CASE Ahead(i) /\ Ahead(j)
    BY <1>6, <2>0, <2>3
  <2>4. CASE Within(i) /\ Within(j)
    <3>1. i - start = j - start
      BY <1>6, <2>0, <2>4
    <3> QED
      BY <1>1, <3>1
  <2>5. CASE Behind(i) /\ Behind(j)
    <3>1. i - more + removed = j - more + removed
      BY <1>6, <2>0, <2>5
    <3> QED
      BY <1>1, <3>1
  <2>6. CASE Ahead(i) /\ Behind(j)
    <3>1. i = j - more + removed
      BY <1>6, <2>0, <2>6
    <3> QED
      BY <1>1, <2>6, <3>1
  <2>7. CASE Behind(i) /\ Ahead(j)
    <3>1. j = i - more + removed
      BY <1>6, <2>0, <2>7
    <3> QED
      BY <1>1, <2>7, <3>1
  <2>8. CASE (Ahead(i) \/ Behind(i)) /\ Within(j)
    BY <1>6, <2>0, <2>8
  <2>9. CASE Within(i) /\ (Ahead(j) \/ Behind(j))
    BY <1>6, <2>0, <2>9
  <2> QED
    BY <2>1, <2>2, <2>3, <2>4, <2>5, <2>6, <2>7, <2>8, <2>9
<1> QED
  BY <1>1, <1>4, <1>5, <1>6 DEF more, n, Distinct, Sourced

\* A splice that inserts fresh messages leaves each message pending once; what
\* is claimed, from the front, is pending no more.
LEMMA SpliceOnce ==
  ASSUME NEW box \in Boxed, NEW e \in LogEvents, Gives(e), Placed(box, e),
         OnceEach(box), Fresh(box, e.inserted)
  PROVE  /\ OnceEach(apply(box, e))
         /\ \A m : Pends(apply(box, e), m) => Pends(box, m) \/ Has(e.inserted, m)
         /\ \A m : Has(e.inserted, m) => Pends(apply(box, e), m)
         /\ \A m : e.start = 0 /\ Has(ClaimedBy(box, e), m) =>
              /\ Pends(box, m)
              /\ e.inserted = <<>> => ~Pends(apply(box, e), m)
<1> DEFINE u == e.target
           start == e.start
           removed == e.removed
           inserted == e.inserted
           list == box[u]
           new == SpliceAt(list, start, removed, inserted)
           after == apply(box, e)
<1>1. /\ u \in Targets /\ start \in Nat /\ removed \in Nat
      /\ inserted \in Seq(Messages)
  BY DEF Gives, LogEvents
<1>2. list \in Seq(Messages) /\ start + removed <= Len(list)
  BY <1>1 DEF Boxed, Placed, Gives
<1>4. /\ after[u] = new /\ \A t \in Targets : t # u => after[t] = box[t]
      /\ \A t \in Targets : box[t] \in Seq(Messages)
  BY <1>1 DEF apply, Boxed, Gives
<1>a. /\ list = box[u] /\ SplicedTo(list, start, removed, inserted, new)
      /\ ClaimedBy(box, e) = SubSeq(list, 1, removed)
      /\ Fresh(box, inserted)
  BY DEF ClaimedBy, SplicedTo
<1> SUFFICES /\ OnceEach(after)
             /\ \A m : Pends(after, m) => Pends(box, m) \/ Has(inserted, m)
             /\ \A m : Has(inserted, m) => Pends(after, m)
             /\ \A m : start = 0 /\ Has(ClaimedBy(box, e), m) =>
                  /\ Pends(box, m)
                  /\ inserted = <<>> => ~Pends(after, m)
  OBVIOUS
<1> HIDE DEF u, start, removed, inserted, list, new, after
<1>b. /\ \A a, b \in 1..Len(list) : list[a] = list[b] => a = b
      /\ \A a, b \in 1..Len(inserted) : inserted[a] = inserted[b] => a = b
      /\ \A a \in 1..Len(list), b \in 1..Len(inserted) : list[a] # inserted[b]
  <2>1. \A a, b \in 1..Len(list) : list[a] = list[b] => a = b
    BY <1>1, <1>a DEF OnceEach
  <2>2. \A a \in 1..Len(list), b \in 1..Len(inserted) : list[a] # inserted[b]
    BY <1>1, <1>a DEF Fresh, Pends, Has
  <2> QED
    BY <1>a, <2>1, <2>2 DEF Fresh, Distinct
<1>3. /\ new \in Seq(Messages)
      /\ \A k \in 1..Len(new) :
           \/ \E a \in 1..Len(list) : new[k] = list[a] /\ (a > removed \/ k <= start)
           \/ \E b \in 1..Len(inserted) : new[k] = inserted[b]
      /\ \A b \in 1..Len(inserted) : \E k \in 1..Len(new) : new[k] = inserted[b]
  <2>1. new \in Seq(Messages) /\ Sourced(list, start, removed, inserted, new)
    BY <1>1, <1>2, <1>a, SpliceSources
  <2> QED
    BY <2>1 DEF Sourced
<1>5. \A i, j \in 1..Len(new) : new[i] = new[j] => i = j
  <2>1. Apart(list, inserted)
    BY <1>b DEF Apart, Distinct
  <2>2. Distinct(new)
    BY <1>1, <1>2, <1>a, <2>1, SpliceSources
  <2> QED
    BY <2>2 DEF Distinct
<1>6. ASSUME NEW t \in Targets, NEW k \in 1..Len(after[t])
      PROVE  \/ \E j \in 1..Len(box[t]) : after[t][k] = box[t][j]
             \/ Has(inserted, after[t][k])
  <2>1. CASE t # u
    BY <1>4, <2>1
  <2>2. CASE t = u
    BY <1>3, <1>4, <1>a, <2>2 DEF Has
  <2> QED
    BY <2>1, <2>2
<1>7. ASSUME NEW m, Pends(after, m) PROVE Pends(box, m) \/ Has(inserted, m)
  <2>1. PICK t \in Targets : \E k \in 1..Len(after[t]) : after[t][k] = m
    BY <1>7 DEF Pends, Has
  <2> QED
    BY <1>6, <2>1 DEF Pends, Has
<1>8. ASSUME NEW m, Has(inserted, m) PROVE Pends(after, m)
  BY <1>1, <1>3, <1>4, <1>8 DEF Pends, Has
<1>10. ASSUME NEW t \in Targets, t # u, NEW i \in 1..Len(new),
              NEW j \in 1..Len(box[t])
       PROVE  new[i] # box[t][j]
  <2>1. \A a \in 1..Len(list) : list[a] # box[t][j]
    BY <1>1, <1>10, <1>a DEF OnceEach
  <2>2. \A b \in 1..Len(inserted) : inserted[b] # box[t][j]
    BY <1>10, <1>a DEF Fresh, Pends, Has
  <2> QED
    BY <1>3, <2>1, <2>2
<1>11. OnceEach(after)
  <2> SUFFICES ASSUME NEW t \in Targets, NEW w \in Targets,
                      NEW i \in 1..Len(after[t]), NEW j \in 1..Len(after[w]),
                      after[t][i] = after[w][j]
               PROVE  t = w /\ i = j
    BY DEF OnceEach
  <2>1. CASE t = u /\ w = u
    BY <1>4, <1>5, <2>1
  <2>2. CASE t = u /\ w # u
    BY <1>4, <1>10, <2>2
  <2>3. CASE t # u /\ w = u
    BY <1>4, <1>10, <2>3
  <2>4. CASE t # u /\ w # u
    BY <1>4, <2>4 DEF OnceEach
  <2> QED
    BY <2>1, <2>2, <2>3, <2>4
<1>12. ASSUME NEW m, start = 0, Has(ClaimedBy(box, e), m)
       PROVE  Pends(box, m) /\ (inserted = <<>> => ~Pends(after, m))
  <2>0. Len(list) \in Nat /\ removed <= Len(list)
    BY <1>1, <1>2, <1>12
  <2>1. /\ Len(SubSeq(list, 1, removed)) = removed
        /\ \A k \in 1..removed : SubSeq(list, 1, removed)[k] = list[k]
    BY <1>1, <1>2, <2>0
  <2>2. PICK k \in 1..removed : list[k] = m
    BY <1>12, <1>a, <2>1 DEF Has
  <2>3. k \in 1..Len(list) /\ k <= removed /\ k \in Nat
    BY <1>1, <2>0, <2>2
  <2>4. Pends(box, m)
    BY <1>1, <1>a, <2>2, <2>3 DEF Pends, Has
  <2>5. ASSUME inserted = <<>>, Pends(after, m) PROVE FALSE
    <3>1. PICK t \in Targets : \E i \in 1..Len(after[t]) : after[t][i] = m
      BY <2>5 DEF Pends, Has
    <3>2. PICK i \in 1..Len(after[t]) : after[t][i] = m
      BY <3>1
    <3>4. CASE t = u
      <4>0. Len(inserted) = 0 /\ i \in 1..Len(new) /\ new[i] = m /\ ~(i <= start)
        BY <1>3, <1>4, <1>12, <2>5, <3>2, <3>4
      <4>1. PICK a \in 1..Len(list) : new[i] = list[a] /\ a > removed
        BY <1>3, <4>0
      <4>2. a = k
        BY <1>b, <2>2, <2>3, <4>0, <4>1
      <4> QED
        BY <1>1, <2>3, <4>1, <4>2
    <3>5. CASE t # u
      BY <1>1, <1>4, <1>a, <2>2, <2>3, <3>2, <3>5 DEF OnceEach
    <3> QED
      BY <3>4, <3>5
  <2> QED
    BY <2>4, <2>5
<1> QED
  BY <1>7, <1>8, <1>11, <1>12

-----------------------------------------------------------------------------
(***************************************************************************)
(* What a log says of its messages, when every writer of it kept to its    *)
(* part: Fine.  Like the rules it is said of every prefix, and Proper is   *)
(* what an event must satisfy, of the log it is appended to, to keep it.   *)
(***************************************************************************)
IsPrompt(e)  == IsClaim(e) /\ e.target = "next-turn"
IsMessage(e) == e.type = "user/message"

\* The inbox: a message pends once, was given to it, and is not yet shown.
Owned(l) ==
  /\ OnceEach(ReplayInbox(l))
  /\ \A m : Pends(ReplayInbox(l), m) => Given(l, m) /\ ~Shown(l, m)
  /\ \A m : Shown(l, m) => Given(l, m)
  /\ \A t, m : Taken(l, t, m) => Given(l, m)

\* Turns: what is said of one is said of a turn that has begun, and a turn
\* that has ended is not the one that is open.
Past(l) ==
  /\ \A t, m : Taken(l, t, m) => t \in 0..LastTurn(l)
  /\ \A t : Prompted(l, t) => t \in 0..LastTurn(l)
  /\ \A t : Settled(l, t) => /\ t \in 0..LastTurn(l)
                             /\ Tr(l).openTurn # None => t # LastTurn(l)

\* A turn that has settled accounts for what it took.
Account(l, r) ==
  \A t, m : Settled(l, t) /\ Taken(l, t, m) => m \in r \/ Shown(l, m)

\* A turn takes one prompt.
Prompts(l) ==
  \A i, j \in 1..Len(l) :
    IsPrompt(l[i]) /\ IsPrompt(l[j]) =>
      l[i].removed = 1 /\ (TurnOf(l, i) = TurnOf(l, j) => i = j)

\* A message is shown once, by the turn that took it, and after it did.
Delivery(l) ==
  /\ \A i, j \in 1..Len(l) :
       IsMessage(l[i]) /\ IsMessage(l[j]) /\ l[i].id = l[j].id => i = j
  /\ \A i \in 1..Len(l) : IsMessage(l[i]) =>
       \E j \in 1..Len(l) : /\ j < i /\ IsClaim(l[j])
                            /\ Has(Claimed(l, j), l[i].id)
                            /\ TurnOf(l, j) = TurnOf(l, i)
  /\ \A i, j \in 1..Len(l) :
       IsClaim(l[i]) /\ IsMessage(l[j]) /\ Has(Claimed(l, i), l[j].id) => i < j

\* Each splice was placed within the list it edited, each claim in a turn.
Fits(l, e) == Placed(ReplayInbox(l), e) /\ (IsClaim(e) => Tr(l).openTurn # None)
Placing(l) == \A i \in 1..Len(l) : Fits(Upto(l, i - 1), l[i])

Fine(l, r) == /\ Owned(l) /\ Past(l) /\ Account(l, r) /\ Prompts(l)
              /\ Delivery(l) /\ Placing(l)

Told(l, r) == \A k \in 0..Len(l) : Fine(Upto(l, k), r)

\* What an event must be, after l, for Fine to be kept.
Accounted(l, r, e) ==
  e.type = "turn/end" /\ e.reason \in Endings =>
    \A m : Taken(l, e.turn, m) => m \in r \/ Shown(l, m)
Delivered(l, e) ==
  IsMessage(e) => /\ ~Shown(l, e.id) /\ ~Pends(ReplayInbox(l), e.id)
                  /\ Taken(l, LastTurn(l), e.id)
FreshlyGiven(l, e) ==
  Gives(e) => Distinct(e.inserted) /\ \A m : Has(e.inserted, m) => ~Given(l, m)
ClaimedInTurn(l, e) ==
  /\ IsClaim(e) => e.start = 0 /\ e.inserted = <<>> /\ Tr(l).openTurn # None
  /\ IsPrompt(e) => e.removed = 1 /\ ~Prompted(l, LastTurn(l))

Proper(l, r, e) ==
  /\ Accounted(l, r, e) /\ Delivered(l, e) /\ FreshlyGiven(l, e)
  /\ ClaimedInTurn(l, e) /\ Placed(ReplayInbox(l), e)

\* k is the lawful log l with one more event.
Grown(l, k, e) == Adds(l, k, e) /\ e \in LogEvents /\ Lawful(l) /\ Lawful(k)

\* The event of a lawful log was accepted, and its readers took it.
LEMMA GrownReads ==
  ASSUME NEW l, NEW k, NEW e, Grown(l, k, e)
  PROVE  /\ l \in Seq(LogEvents) /\ e \in LogEvents /\ Adds(l, k, e)
         /\ validateEvent(Tr(l), e) /\ Tr(k) = applyTransition(Tr(l), e)
         /\ LastTurn(k) = findLast(LastTurn(l), e)
         /\ ReplayInbox(l) \in Boxed /\ ReplayInbox(k) = apply(ReplayInbox(l), e)
<1>1. /\ l \in Seq(LogEvents) /\ e \in LogEvents /\ ReplayInbox(l) \in Boxed
      /\ AcceptedAfter(0, k) /\ Adds(l, k, e) /\ k = Append(l, e)
  BY LawfulReads DEF Grown, Lawful, Adds
<1>2. /\ Len(l) \in Nat /\ Len(k) = Len(l) + 1 /\ k[Len(l) + 1] = e
  BY <1>1, LongerLog
<1>3. Traces(k)[Len(l)] = Traces(l)[Len(l)]
  <2>1. Len(l) \in 0..Len(l)
    BY <1>2
  <2> QED
    BY <1>1, <2>1, TracesAppend
<1>4. validateEvent(Tr(l), e)
  <2>1. Len(l) + 1 \in (0 + 1)..Len(k) /\ (Len(l) + 1) - 1 = Len(l)
    BY <1>2
  <2>2. validateEvent(Traces(k)[(Len(l) + 1) - 1], k[Len(l) + 1])
    BY <1>1, <2>1 DEF AcceptedAfter
  <2> QED
    BY <1>2, <1>3, <2>1, <2>2 DEF Tr
<1> QED
  BY <1>1, <1>4, ReadersAppend

\* How an event moves the turn.
LEMMA GrownTurn ==
  ASSUME NEW l, NEW k, NEW e, Grown(l, k, e)
  PROVE  /\ LastTurn(l) \in Nat /\ LastTurn(k) \in Nat
         /\ e.type = "turn/start" => /\ Tr(l).openTurn = None
                                     /\ LastTurn(k) = LastTurn(l) + 1
                                     /\ Tr(k).openTurn = LastTurn(k)
         /\ e.type # "turn/start" => LastTurn(k) = LastTurn(l)
         /\ e.type = "turn/end" => /\ e.turn = LastTurn(l) /\ Tr(l).openTurn # None
                                   /\ Tr(k).openTurn = None
         /\ e.type \notin {"turn/start", "turn/end"} =>
              Tr(k).openTurn = Tr(l).openTurn
<1>1. /\ validateEvent(Tr(l), e) /\ Tr(k) = applyTransition(Tr(l), e)
      /\ LastTurn(k) = findLast(LastTurn(l), e) /\ e \in LogEvents
      /\ Lawful(l) /\ Lawful(k)
  BY GrownReads DEF Grown
<1>2. /\ Tr(l) \in TraceSet /\ LastTurn(l) \in Nat /\ LastTurn(k) \in Nat
      /\ Tr(l).openTurn \in {None, LastTurn(l)}
      /\ Tr(l).nextTurn = IF Tr(l).openTurn = None THEN LastTurn(l) + 1 ELSE LastTurn(l)
  BY <1>1, LawfulAgrees
<1>3. CASE e.type = "turn/start"
  <2>1. Tr(l).openTurn = None /\ e.turn = Tr(l).nextTurn
    BY <1>1, <1>3 DEF validateEvent
  <2>2. Tr(k) = [Tr(l) EXCEPT !.openTurn = e.turn, !.nextStep = 1]
    BY <1>1, <1>3 DEF applyTransition
  <2>3. LastTurn(k) = e.turn
    BY <1>1, <1>3 DEF findLast
  <2>4. Tr(k).openTurn = e.turn
    BY <1>2, <2>2 DEF TraceSet
  <2> QED
    BY <1>2, <1>3, <2>1, <2>3, <2>4
<1>4. CASE e.type = "turn/end"
  <2>1. Tr(l).openTurn = e.turn /\ e.turn \in Number
    BY <1>1, <1>4 DEF validateEvent, LogEvents
  <2>2. Tr(k) = [Tr(l) EXCEPT !.openTurn = None, !.nextTurn = @ + 1]
    BY <1>1, <1>4 DEF applyTransition
  <2>3. Tr(k).openTurn = None
    BY <1>2, <2>2 DEF TraceSet
  <2>4. LastTurn(k) = LastTurn(l)
    BY <1>1, <1>4 DEF findLast
  <2> QED
    BY <1>2, <1>4, <2>1, <2>3, <2>4 DEF Number, None
<1>5. CASE e.type \notin {"turn/start", "turn/end"}
  <2>1. LastTurn(k) = LastTurn(l)
    BY <1>1, <1>5 DEF findLast
  <2>2. Tr(k).openTurn = Tr(l).openTurn
    BY <1>1, <1>2, <1>5 DEF applyTransition, TraceSet
  <2> QED
    BY <1>2, <1>5, <2>1, <2>2
<1> QED
  BY <1>3, <1>4, <1>5

\* The inbox of a log with one more event: what pends after it, and what a
\* claim takes.
LEMMA GrownBox ==
  ASSUME NEW l, NEW k, NEW e, NEW r, Grown(l, k, e), Owned(l), Proper(l, r, e)
  PROVE  /\ OnceEach(ReplayInbox(k))
         /\ \A m : Pends(ReplayInbox(k), m) =>
              Pends(ReplayInbox(l), m) \/ (Gives(e) /\ Has(e.inserted, m))
         /\ \A m : IsClaim(e) /\ Has(ClaimedBy(ReplayInbox(l), e), m) =>
              Pends(ReplayInbox(l), m) /\ ~Pends(ReplayInbox(k), m)
<1> DEFINE box == ReplayInbox(l)
<1>1. /\ box \in Boxed /\ ReplayInbox(k) = apply(box, e) /\ e \in LogEvents
      /\ OnceEach(box) /\ Placed(box, e)
  BY GrownReads DEF Owned, Proper
<1> HIDE DEF box
<1>2. CASE ~Gives(e)
  <2>1. ReplayInbox(k) = box /\ ~IsClaim(e)
    BY <1>1, <1>2 DEF apply, Gives, IsClaim
  <2> QED
    BY <1>1, <2>1 DEF box
<1>3. CASE Gives(e)
  <2>1. Distinct(e.inserted) /\ \A m : Has(e.inserted, m) => ~Given(l, m)
    BY <1>3 DEF Proper, FreshlyGiven
  <2>2. Fresh(box, e.inserted)
    BY <2>1 DEF Fresh, Owned, box
  <2>3. /\ OnceEach(apply(box, e))
        /\ \A m : Pends(apply(box, e), m) => Pends(box, m) \/ Has(e.inserted, m)
        /\ \A m : e.start = 0 /\ Has(ClaimedBy(box, e), m) =>
             /\ Pends(box, m)
             /\ e.inserted = <<>> => ~Pends(apply(box, e), m)
    BY <1>1, <1>3, <2>2, SpliceOnce
  <2>4. IsClaim(e) => e.start = 0 /\ e.inserted = <<>>
    BY DEF Proper, ClaimedInTurn
  <2> QED
    BY <1>1, <1>3, <2>3, <2>4 DEF box
<1> QED
  BY <1>2, <1>3

\* Every event a writer may append keeps the inbox's part.
LEMMA OwnedAppend ==
  ASSUME NEW l, NEW k, NEW e, NEW r, Grown(l, k, e), Owned(l), Proper(l, r, e)
  PROVE  Owned(k)
<1>1. /\ l \in Seq(LogEvents) /\ e \in LogEvents /\ Adds(l, k, e)
  BY GrownReads
<1>2. /\ \A m : Given(k, m) <=> Given(l, m) \/ (Gives(e) /\ Has(e.inserted, m))
      /\ \A m : Shown(k, m) <=> Shown(l, m) \/ (e.type = "user/message" /\ e.id = m)
      /\ \A t, m : Taken(k, t, m) <=>
           \/ Taken(l, t, m)
           \/ /\ IsClaim(e) /\ LastTurn(k) = t
              /\ Has(ClaimedBy(ReplayInbox(l), e), m)
  BY <1>1, FactsAppend
<1>3. /\ OnceEach(ReplayInbox(k))
      /\ \A m : Pends(ReplayInbox(k), m) =>
           Pends(ReplayInbox(l), m) \/ (Gives(e) /\ Has(e.inserted, m))
      /\ \A m : IsClaim(e) /\ Has(ClaimedBy(ReplayInbox(l), e), m) =>
           Pends(ReplayInbox(l), m)
  BY GrownBox
<1>4. /\ \A m : Pends(ReplayInbox(l), m) => Given(l, m) /\ ~Shown(l, m)
      /\ \A m : Shown(l, m) => Given(l, m)
      /\ \A t, m : Taken(l, t, m) => Given(l, m)
  BY DEF Owned
<1>5. IsMessage(e) => /\ ~Pends(ReplayInbox(l), e.id) /\ Given(l, e.id)
  BY <1>4 DEF Proper, Delivered
<1>6. /\ Gives(e) => \A m : Has(e.inserted, m) => ~Given(l, m)
      /\ ~(Gives(e) /\ IsMessage(e))
  BY DEF Proper, FreshlyGiven, Gives, IsMessage
<1>7. \A m : Shown(k, m) => Given(k, m)
  BY <1>2, <1>4, <1>5 DEF IsMessage
<1>8. \A m : Pends(ReplayInbox(k), m) => Given(k, m)
  BY <1>2, <1>3, <1>4
<1>9. \A m : Pends(ReplayInbox(k), m) => ~Shown(k, m)
  BY <1>2, <1>3, <1>4, <1>5, <1>6 DEF IsMessage
<1>10. \A t, m : Taken(k, t, m) => Given(k, m)
  BY <1>2, <1>3, <1>4
<1> QED
  BY <1>3, <1>7, <1>8, <1>9, <1>10 DEF Owned

\* ... and the turns'.
LEMMA PastAppend ==
  ASSUME NEW l, NEW k, NEW e, NEW r, Grown(l, k, e), Past(l), Proper(l, r, e)
  PROVE  Past(k)
<1>1. /\ l \in Seq(LogEvents) /\ e \in LogEvents /\ Adds(l, k, e)
  BY GrownReads
<1>2. /\ \A t, m : Taken(k, t, m) <=>
           \/ Taken(l, t, m)
           \/ /\ IsClaim(e) /\ LastTurn(k) = t
              /\ Has(ClaimedBy(ReplayInbox(l), e), m)
      /\ \A t : Prompted(k, t) <=>
           \/ Prompted(l, t)
           \/ IsClaim(e) /\ e.target = "next-turn" /\ LastTurn(k) = t
      /\ \A t : Settled(k, t) <=>
           \/ Settled(l, t)
           \/ e.type = "turn/end" /\ e.turn = t /\ e.reason \in Endings
  BY <1>1, FactsAppend
<1>3. /\ LastTurn(l) \in Nat /\ LastTurn(k) \in Nat
      /\ e.type = "turn/start" => /\ Tr(l).openTurn = None
                                  /\ LastTurn(k) = LastTurn(l) + 1
      /\ e.type # "turn/start" => LastTurn(k) = LastTurn(l)
      /\ e.type = "turn/end" => e.turn = LastTurn(l) /\ Tr(k).openTurn = None
      /\ e.type \notin {"turn/start", "turn/end"} =>
           Tr(k).openTurn = Tr(l).openTurn
  BY GrownTurn
<1>4. /\ \A t, m : Taken(l, t, m) => t \in 0..LastTurn(l)
      /\ \A t : Prompted(l, t) => t \in 0..LastTurn(l)
      /\ \A t : Settled(l, t) => /\ t \in 0..LastTurn(l)
                                 /\ Tr(l).openTurn # None => t # LastTurn(l)
  BY DEF Past
<1>5. /\ LastTurn(k) \in 0..LastTurn(k)
      /\ \A t : t \in 0..LastTurn(l) => t \in 0..LastTurn(k)
      /\ e.type = "turn/start" => \A t : t \in 0..LastTurn(l) => t # LastTurn(k)
  BY <1>3
<1>6. \A t, m : Taken(k, t, m) => t \in 0..LastTurn(k)
  BY <1>2, <1>4, <1>5
<1>7. \A t : Prompted(k, t) => t \in 0..LastTurn(k)
  BY <1>2, <1>4, <1>5
<1>8. ASSUME NEW t, Settled(k, t)
      PROVE  t \in 0..LastTurn(k) /\ (Tr(k).openTurn # None => t # LastTurn(k))
  <2>1. CASE e.type = "turn/end"
    BY <1>2, <1>3, <1>4, <1>5, <1>8, <2>1
  <2>2. CASE e.type = "turn/start"
    BY <1>2, <1>3, <1>4, <1>5, <1>8, <2>2
  <2>3. CASE e.type \notin {"turn/start", "turn/end"}
    BY <1>2, <1>3, <1>4, <1>5, <1>8, <2>3
  <2> QED
    BY <2>1, <2>2, <2>3
<1> QED
  BY <1>6, <1>7, <1>8 DEF Past

\* ... and the accounts of the turns that settled.
LEMMA AccountAppend ==
  ASSUME NEW l, NEW k, NEW e, NEW r, Grown(l, k, e), Past(l), Account(l, r),
         Proper(l, r, e)
  PROVE  Account(k, r)
<1>1. /\ l \in Seq(LogEvents) /\ e \in LogEvents /\ Adds(l, k, e)
  BY GrownReads
<1>2. /\ \A m : Shown(k, m) <=> Shown(l, m) \/ (e.type = "user/message" /\ e.id = m)
      /\ \A t, m : Taken(k, t, m) <=>
           \/ Taken(l, t, m)
           \/ /\ IsClaim(e) /\ LastTurn(k) = t
              /\ Has(ClaimedBy(ReplayInbox(l), e), m)
      /\ \A t : Settled(k, t) <=>
           \/ Settled(l, t)
           \/ e.type = "turn/end" /\ e.turn = t /\ e.reason \in Endings
  BY <1>1, FactsAppend
<1> SUFFICES ASSUME NEW t, NEW m, Settled(k, t), Taken(k, t, m)
             PROVE  m \in r \/ Shown(k, m)
  BY DEF Account
<1>3. CASE ~Settled(l, t)
  <2>1. e.type = "turn/end" /\ e.turn = t /\ e.reason \in Endings /\ Taken(l, t, m)
    BY <1>2, <1>3 DEF IsClaim
  <2> QED
    BY <1>2, <2>1 DEF Proper, Accounted
<1>4. CASE Settled(l, t) /\ Taken(l, t, m)
  BY <1>2, <1>4 DEF Account
<1>5. CASE Settled(l, t) /\ ~Taken(l, t, m)
  <2>1. IsClaim(e) /\ LastTurn(k) = t
    BY <1>2, <1>5
  <2>2. LastTurn(k) = LastTurn(l) /\ Tr(l).openTurn # None
    BY <2>1, GrownTurn DEF IsClaim, Proper, ClaimedInTurn
  <2> QED
    BY <1>5, <2>1, <2>2 DEF Past
<1> QED
  BY <1>3, <1>4, <1>5

\* ... and the one prompt of a turn.
LEMMA PromptsAppend ==
  ASSUME NEW l, NEW k, NEW e, NEW r, Grown(l, k, e), Prompts(l), Proper(l, r, e)
  PROVE  Prompts(k)
<1> DEFINE n == Len(l) + 1
<1>1. /\ l \in Seq(LogEvents) /\ e \in LogEvents /\ Adds(l, k, e)
  BY GrownReads
<1>2. /\ k[n] = e /\ TurnOf(k, n) = LastTurn(k)
      /\ \A i \in 1..Len(l) : k[i] = l[i] /\ TurnOf(k, i) = TurnOf(l, i)
      /\ \A i : i \in 1..Len(k) <=> i \in 1..Len(l) \/ i = n
  BY <1>1, LongerLog
<1> HIDE DEF n
<1>3. ASSUME IsPrompt(e), NEW i \in 1..Len(l), IsPrompt(l[i]), TurnOf(l, i) = LastTurn(k)
      PROVE  FALSE
  <2>1. LastTurn(k) = LastTurn(l)
    BY <1>3, GrownTurn DEF IsPrompt, IsClaim
  <2>2. Prompted(l, LastTurn(l))
    BY <1>3, <2>1 DEF Prompted, IsPrompt
  <2> QED
    BY <1>3, <2>2 DEF Proper, ClaimedInTurn
<1>4. IsPrompt(e) => e.removed = 1
  BY DEF Proper, ClaimedInTurn
<1> SUFFICES ASSUME NEW i, i \in 1..Len(k), NEW j, j \in 1..Len(k),
                    IsPrompt(k[i]), IsPrompt(k[j])
             PROVE  k[i].removed = 1 /\ (TurnOf(k, i) = TurnOf(k, j) => i = j)
  BY DEF Prompts
<1>5. CASE i \in 1..Len(l) /\ j \in 1..Len(l)
  BY <1>2, <1>5 DEF Prompts
<1>6. CASE i \in 1..Len(l) /\ j = n
  <2>1. l[i].removed = 1
    BY <1>2, <1>6 DEF Prompts
  <2> QED
    BY <1>2, <1>3, <1>6, <2>1
<1>7. CASE i = n /\ j \in 1..Len(l)
  BY <1>2, <1>3, <1>4, <1>7
<1>8. CASE i = n /\ j = n
  BY <1>2, <1>4, <1>8
<1> QED
  BY <1>2, <1>5, <1>6, <1>7, <1>8

\* ... and the delivery of messages.
LEMMA DeliveryAppend ==
  ASSUME NEW l, NEW k, NEW e, NEW r, Grown(l, k, e), Owned(l), Delivery(l),
         Proper(l, r, e)
  PROVE  Delivery(k)
<1> DEFINE n == Len(l) + 1
<1>1. /\ l \in Seq(LogEvents) /\ e \in LogEvents /\ Adds(l, k, e)
  BY GrownReads
<1>2. /\ k[n] = e /\ TurnOf(k, n) = LastTurn(k)
      /\ Claimed(k, n) = ClaimedBy(ReplayInbox(l), e)
      /\ \A i \in 1..Len(l) : /\ k[i] = l[i] /\ TurnOf(k, i) = TurnOf(l, i)
                              /\ Claimed(k, i) = Claimed(l, i)
      /\ \A i : i \in 1..Len(k) <=> i \in 1..Len(l) \/ i = n
      /\ Len(l) \in Nat
  BY <1>1, LongerLog
<1>3. \A i \in 1..Len(l) : i < n
  BY <1>2
<1> HIDE DEF n
<1>4. ASSUME IsMessage(e), NEW i \in 1..Len(l), IsMessage(l[i]) PROVE l[i].id # e.id
  BY <1>4 DEF Proper, Delivered, Shown, IsMessage
<1>5. ASSUME NEW i, i \in 1..Len(k), NEW j, j \in 1..Len(k), IsMessage(k[i]),
             IsMessage(k[j]), k[i].id = k[j].id
      PROVE  i = j
  <2>1. CASE i \in 1..Len(l) /\ j \in 1..Len(l)
    BY <1>2, <1>5, <2>1 DEF Delivery
  <2>2. CASE i = n \/ j = n
    BY <1>2, <1>4, <1>5, <2>2
  <2> QED
    BY <1>2, <1>5, <2>1, <2>2
<1>6. ASSUME NEW i, i \in 1..Len(k), IsMessage(k[i])
      PROVE  \E j \in 1..Len(k) : /\ j < i /\ IsClaim(k[j])
                                  /\ Has(Claimed(k, j), k[i].id)
                                  /\ TurnOf(k, j) = TurnOf(k, i)
  <2>1. CASE i \in 1..Len(l)
    <3>1. PICK j \in 1..Len(l) : /\ j < i /\ IsClaim(l[j])
                                 /\ Has(Claimed(l, j), l[i].id)
                                 /\ TurnOf(l, j) = TurnOf(l, i)
      BY <1>2, <1>6, <2>1 DEF Delivery
    <3> QED
      BY <1>2, <2>1, <3>1
  <2>2. CASE i = n
    <3>1. IsMessage(e) /\ Taken(l, LastTurn(l), e.id)
      BY <1>2, <1>6, <2>2 DEF Proper, Delivered
    <3>2. LastTurn(k) = LastTurn(l)
      BY <3>1, GrownTurn DEF IsMessage
    <3>3. PICK j \in 1..Len(l) : IsClaim(l[j]) /\ TurnOf(l, j) = LastTurn(l)
                                 /\ Has(Claimed(l, j), e.id)
      BY <3>1 DEF Taken
    <3> QED
      BY <1>2, <1>3, <2>2, <3>2, <3>3
  <2> QED
    BY <1>2, <1>6, <2>1, <2>2
<1>7. ASSUME NEW i, i \in 1..Len(k), NEW j, j \in 1..Len(k), IsClaim(k[i]),
             IsMessage(k[j]), Has(Claimed(k, i), k[j].id)
      PROVE  i < j
  <2>1. CASE i \in 1..Len(l) /\ j \in 1..Len(l)
    BY <1>2, <1>7, <2>1 DEF Delivery
  <2>2. CASE i \in 1..Len(l) /\ j = n
    BY <1>3, <2>2
  <2>3. CASE i = n /\ j \in 1..Len(l)
    <3>1. IsClaim(e) /\ Has(ClaimedBy(ReplayInbox(l), e), l[j].id) /\ IsMessage(l[j])
      BY <1>2, <1>7, <2>3
    <3>2. Pends(ReplayInbox(l), l[j].id)
      BY <3>1, GrownBox
    <3>3. Shown(l, l[j].id)
      BY <2>3, <3>1 DEF Shown, IsMessage
    <3> QED
      BY <3>2, <3>3 DEF Owned
  <2>4. CASE i = n /\ j = n
    BY <1>2, <1>7, <2>4 DEF IsClaim, IsMessage
  <2> QED
    BY <1>2, <1>7, <2>1, <2>2, <2>3, <2>4
<1> QED
  BY <1>5, <1>6, <1>7 DEF Delivery

\* ... and the places of the splices.
LEMMA PlacingAppend ==
  ASSUME NEW l, NEW k, NEW e, NEW r, Grown(l, k, e), Placing(l), Proper(l, r, e)
  PROVE  Placing(k)
<1> DEFINE n == Len(l) + 1
<1>1. /\ l \in Seq(LogEvents) /\ e \in LogEvents /\ Adds(l, k, e) /\ k = Append(l, e)
  BY GrownReads DEF Adds
<1>2. /\ k[n] = e /\ Upto(k, Len(l)) = l /\ Len(l) \in Nat
      /\ \A i \in 1..Len(l) : k[i] = l[i]
      /\ \A i : i \in 1..Len(k) <=> i \in 1..Len(l) \/ i = n
  BY <1>1, LongerLog
<1>3. \A i \in 0..Len(l) : Upto(k, i) = Upto(l, i)
  BY <1>1, PrefixAppend
<1>4. n - 1 = Len(l) /\ \A i \in 1..Len(l) : i - 1 \in 0..Len(l)
  BY <1>2
<1> HIDE DEF n
<1> SUFFICES ASSUME NEW i, i \in 1..Len(k)
             PROVE  Fits(Upto(k, i - 1), k[i])
  BY DEF Placing
<1>5. CASE i \in 1..Len(l)
  BY <1>2, <1>3, <1>4, <1>5 DEF Placing
<1>6. CASE i = n
  BY <1>2, <1>4, <1>6 DEF Proper, ClaimedInTurn, Fits
<1> QED
  BY <1>2, <1>5, <1>6

\* An event that does its part keeps the log fine.
LEMMA ToldAppend ==
  ASSUME NEW l, NEW k, NEW e, NEW r, Grown(l, k, e), Told(l, r), Proper(l, r, e)
  PROVE  Told(k, r) /\ Fine(l, r) /\ Fine(k, r)
<1>1. /\ l \in Seq(LogEvents) /\ e \in LogEvents /\ Adds(l, k, e) /\ k = Append(l, e)
  BY GrownReads DEF Adds
<1>2. /\ Len(l) \in Nat /\ Len(k) = Len(l) + 1
      /\ \A i \in 0..Len(l) : Upto(k, i) = Upto(l, i)
      /\ Upto(k, Len(l) + 1) = k /\ Upto(k, Len(l)) = l
  BY <1>1, LongerLog, PrefixAppend
<1>3. Len(l) \in 0..Len(l)
  BY <1>2
<1>4. Fine(l, r)
  BY <1>2, <1>3 DEF Told
<1>5. Fine(k, r)
  <2>1. /\ Owned(l) /\ Past(l) /\ Account(l, r) /\ Prompts(l) /\ Delivery(l) /\ Placing(l)
    BY <1>4 DEF Fine
  <2>2. Owned(k)
    BY <2>1, OwnedAppend
  <2>3. Past(k)
    BY <2>1, PastAppend
  <2>4. Account(k, r)
    BY <2>1, AccountAppend
  <2>5. Prompts(k)
    BY <2>1, PromptsAppend
  <2>6. Delivery(k)
    BY <2>1, DeliveryAppend
  <2>7. Placing(k)
    BY <2>1, PlacingAppend
  <2> QED
    BY <2>2, <2>3, <2>4, <2>5, <2>6, <2>7 DEF Fine
<1>6. ASSUME NEW i \in 0..Len(k) PROVE Fine(Upto(k, i), r)
  <2>1. CASE i \in 0..Len(l)
    BY <1>2, <2>1 DEF Told
  <2>2. CASE i = Len(l) + 1
    BY <1>2, <1>5, <2>2
  <2> QED
    BY <1>2, <2>1, <2>2
<1> QED
  BY <1>4, <1>5, <1>6 DEF Told

\* A fine log has fine prefixes.
LEMMA ToldPrefix ==
  ASSUME NEW l, NEW r, NEW n \in 0..Len(l), Lawful(l), Told(l, r)
  PROVE  Told(Upto(l, n), r) /\ Fine(Upto(l, n), r) /\ Fine(l, r)
<1>1. /\ l \in Seq(LogEvents) /\ Len(l) \in Nat
  BY LawfulReads
<1>2. /\ Len(Upto(l, n)) = n /\ \A k \in 0..n : Upto(Upto(l, n), k) = Upto(l, k)
      /\ Upto(l, Len(l)) = l
  BY <1>1, PrefixOf
<1>3. Len(l) \in 0..Len(l) /\ \A k \in 0..n : k \in 0..Len(l)
  BY <1>1
<1> QED
  BY <1>2, <1>3 DEF Told

\* What is accounted for stays so when more was rewritten.
LEMMA ToldMore ==
  ASSUME NEW l, NEW r, NEW more, r \subseteq more, Told(l, r)
  PROVE  Told(l, more)
<1>1. \A k : Account(k, r) => Account(k, more)
  BY DEF Account
<1> QED
  BY <1>1 DEF Told, Fine

\* The events that give, take and show no message and settle no turn.
Mute(e) == /\ e.type \notin {"user/message", "agent/inbox/spliced"}
           /\ e.type = "turn/end" => e.reason \notin Endings

\* k says of messages what l says.
Silent(l, k) ==
  /\ \A m : (Given(k, m) <=> Given(l, m)) /\ (Shown(k, m) <=> Shown(l, m))
  /\ \A t, m : Taken(k, t, m) <=> Taken(l, t, m)
  /\ \A t : Prompted(k, t) <=> Prompted(l, t)
  /\ ReplayInbox(k) = ReplayInbox(l)

\* An event of the turn and step protocol says nothing of messages.
LEMMA ProtocolAppend ==
  ASSUME NEW l, NEW k, NEW e, NEW r, Grown(l, k, e), Told(l, r),
         e.type \notin {"user/message", "agent/inbox/spliced"}, Accounted(l, r, e)
  PROVE  Told(k, r) /\ Silent(l, k)
<1>1. ~Gives(e) /\ ~IsClaim(e) /\ ~IsPrompt(e) /\ ~IsMessage(e)
  BY DEF Gives, IsClaim, IsPrompt, IsMessage
<1>2. Proper(l, r, e)
  BY <1>1 DEF Proper, Delivered, FreshlyGiven, ClaimedInTurn, Placed, Gives
<1>3. Told(k, r)
  BY <1>2, ToldAppend
<1>4. /\ l \in Seq(LogEvents) /\ e \in LogEvents /\ Adds(l, k, e)
      /\ ReplayInbox(k) = apply(ReplayInbox(l), e)
  BY GrownReads
<1>5. ReplayInbox(k) = ReplayInbox(l)
  BY <1>1, <1>4 DEF apply, Gives
<1>6. Silent(l, k)
  <2>1. \A m : Given(k, m) <=> Given(l, m) \/ (Gives(e) /\ Has(e.inserted, m))
    BY <1>4, FactsAppend
  <2>2. \A m : Shown(k, m) <=> Shown(l, m) \/ (e.type = "user/message" /\ e.id = m)
    BY <1>4, FactsAppend
  <2>3. \A t, m : Taken(k, t, m) <=>
           \/ Taken(l, t, m)
           \/ /\ IsClaim(e) /\ LastTurn(k) = t
              /\ Has(ClaimedBy(ReplayInbox(l), e), m)
    BY <1>4, FactsAppend
  <2>4. \A t : Prompted(k, t) <=>
           \/ Prompted(l, t)
           \/ IsClaim(e) /\ e.target = "next-turn" /\ LastTurn(k) = t
    BY <1>4, FactsAppend
  <2> QED
    BY <1>1, <1>5, <2>1, <2>2, <2>3, <2>4 DEF Silent, IsMessage
<1> QED
  BY <1>3, <1>6

\* What precedes the last event of a lawful log is lawful.
LEMMA LawfulFront ==
  ASSUME NEW S, NEW l \in Seq(S), NEW e \in S, Lawful(Append(l, e))
  PROVE  Lawful(l) /\ Grown(l, Append(l, e), e)
<1> DEFINE m == Append(l, e)
<1>1. /\ Len(l) \in Nat /\ Len(m) = Len(l) + 1 /\ m[Len(l) + 1] = e
      /\ Upto(m, Len(l)) = Upto(l, Len(l))
  <2>1. Len(l) \in Nat /\ Len(l) \in 0..Len(l)
    OBVIOUS
  <2> QED
    BY <2>1, PrefixAppend
<1>2. Upto(l, Len(l)) = l
  <2>1. Len(l) \in 0..Len(l)
    BY <1>1
  <2> QED
    BY <2>1, PrefixOf
<1> HIDE DEF m
<1>3. Lawful(m) /\ m \in Seq(LogEvents)
  BY LawfulReads DEF m
<1>4. e \in LogEvents
  <2>1. Len(l) + 1 \in 1..Len(m)
    BY <1>1
  <2>2. m[Len(l) + 1] \in LogEvents
    BY <1>3, <2>1
  <2> QED
    BY <1>1, <2>2
<1>5. Lawful(l)
  <2>1. Len(l) \in 0..Len(m)
    BY <1>1
  <2>2. Lawful(Upto(m, Len(l)))
    BY <1>3, <2>1, LawfulPrefix
  <2> QED
    BY <1>1, <1>2, <2>2
<1> QED
  BY <1>3, <1>4, <1>5 DEF Grown, Adds, m

\* A mute event at the end of a lawful log.
LEMMA MuteAppend ==
  ASSUME NEW S, NEW l \in Seq(S), NEW e \in S, Lawful(Append(l, e)), Mute(e)
  PROVE  /\ Lawful(l) /\ e \in LogEvents
         /\ \A r : Told(l, r) => Told(Append(l, e), r) /\ Silent(l, Append(l, e))
<1>1. Lawful(l) /\ Grown(l, Append(l, e), e)
  BY LawfulFront
<1> DEFINE k == Append(l, e)
<1> HIDE DEF k
<1>2. Grown(l, k, e)
  BY <1>1 DEF k
<1>3. ASSUME NEW r, Told(l, r) PROVE Told(k, r) /\ Silent(l, k)
  <2>1. Accounted(l, r, e) /\ e.type \notin {"user/message", "agent/inbox/spliced"}
    BY DEF Mute, Accounted
  <2> QED
    BY <1>2, <1>3, <2>1, ProtocolAppend
<1> QED
  BY <1>1, <1>3 DEF k, Grown

\* One mute event, or two.
LEMMA MuteTwo ==
  ASSUME NEW l \in Seq(LogEvents), NEW e, NEW f, Mute(e), Mute(f)
  PROVE  /\ Lawful(l \o <<e>>) => \A r : Told(l, r) =>
              Told(l \o <<e>>, r) /\ Silent(l, l \o <<e>>)
         /\ Lawful(l \o <<e, f>>) => \A r : Told(l, r) =>
              Told(l \o <<e, f>>, r) /\ Silent(l, l \o <<e, f>>)
<1> DEFINE S == LogEvents \cup {e, f}
<1>1. l \in Seq(S) /\ e \in S /\ f \in S
  OBVIOUS
<1>2. l \o <<e>> = Append(l, e) /\ l \o <<e, f>> = Append(Append(l, e), f)
  BY LogsOne
<1>3. Append(l, e) \in Seq(S)
  BY <1>1
<1> HIDE DEF S
<1>4. Lawful(Append(l, e)) => \A r : Told(l, r) =>
        Told(Append(l, e), r) /\ Silent(l, Append(l, e))
  BY <1>1, MuteAppend
<1> DEFINE k == Append(l, e)
           m == Append(k, f)
<1>5. ASSUME Lawful(m), NEW r, Told(l, r) PROVE Told(m, r) /\ Silent(l, m)
  <2>1. Lawful(k) /\ (Told(k, r) => Told(m, r) /\ Silent(k, m))
    BY <1>1, <1>3, <1>5, MuteAppend
  <2>2. Told(k, r) /\ Silent(l, k)
    BY <1>4, <1>5, <2>1
  <2> HIDE DEF k, m
  <2> QED
    BY <2>1, <2>2 DEF Silent
<1> QED
  BY <1>2, <1>4, <1>5

\* The closers are mute.
LEMMA RepairTold ==
  ASSUME NEW l, NEW r, Lawful(l), Told(l, r)
  PROVE  Told(Recovered(l), r) /\ Silent(l, Recovered(l))
<1> DEFINE m == Recovered(l)
<1>1. Closes(l, m) /\ Lawful(m) /\ l \in Seq(LogEvents)
  BY ClosersOf, RepairLawful, LawfulReads DEF Continues
<1>2. Mute(Interrupted(l)) /\ Mute(Ended(l)) /\ \A code : Mute(Answered(l, code))
  BY DEF Mute, Interrupted, Ended, Answered, TurnEnd, StepEnd, ToolResult, Endings
<1> HIDE DEF m
<1>3. CASE Tr(l).openTurn = None
  <2>1. m = l
    BY <1>1, <1>3 DEF Closes
  <2> QED
    BY <2>1 DEF Silent, m
<1>4. CASE m = Append(l, Interrupted(l))
  <2> DEFINE a == Interrupted(l)
             S == LogEvents \cup {a}
  <2>1. l \in Seq(S) /\ a \in S /\ Mute(a)
    BY <1>1, <1>2
  <2>2. m = Append(l, a)
    BY <1>4
  <2> HIDE DEF a, S
  <2>3. Told(Append(l, a), r) /\ Silent(l, Append(l, a))
    BY <1>1, <2>1, <2>2, MuteAppend
  <2> QED
    BY <2>2, <2>3 DEF m
<1>5. CASE m = Append(Append(l, Ended(l)), Interrupted(l))
  <2>1. l \o <<Ended(l), Interrupted(l)>> = m
    BY <1>1, <1>5, LogsOne
  <2>2. Told(m, r) /\ Silent(l, m)
    BY <1>1, <1>2, <2>1, MuteTwo
  <2> QED
    BY <2>2 DEF m
<1>6. ASSUME NEW code,
             m = Append(Append(Append(l, Answered(l, code)), Ended(l)), Interrupted(l))
      PROVE  Told(m, r) /\ Silent(l, m)
  <2> DEFINE a == Answered(l, code)
             b == Ended(l)
             c == Interrupted(l)
             S == LogEvents \cup {a, b, c}
             k == Append(l, a)
             q == Append(k, b)
  <2>1. l \in Seq(S) /\ a \in S /\ b \in S /\ c \in S /\ Mute(a) /\ Mute(b) /\ Mute(c)
    BY <1>1, <1>2
  <2>2. k \in Seq(S) /\ q \in Seq(S)
    BY <2>1
  <2>3. m = Append(q, c)
    BY <1>6
  <2> HIDE DEF a, b, c, S, q
  <2>4. Lawful(q) /\ (Told(q, r) => Told(m, r) /\ Silent(q, m))
    BY <1>1, <2>1, <2>2, <2>3, MuteAppend
  <2>5. q = Append(k, b)
    BY DEF q
  <2> HIDE DEF k
  <2>6. Lawful(k) /\ (Told(k, r) => Told(q, r) /\ Silent(k, q))
    BY <2>1, <2>2, <2>4, <2>5, MuteAppend
  <2>7. k = Append(l, a)
    BY DEF k
  <2>8. Told(k, r) /\ Silent(l, k)
    BY <2>1, <2>6, <2>7, MuteAppend
  <2> QED
    BY <2>4, <2>6, <2>8 DEF Silent
<1> QED
  BY <1>1, <1>3, <1>4, <1>5, <1>6 DEF Closes, m

\* What an inbox edit adds to what the log says.
EditsTo(l, k, e) ==
  /\ \A m : Given(k, m) <=> Given(l, m) \/ Has(e.inserted, m)
  /\ \A m : Shown(k, m) <=> Shown(l, m)
  /\ \A t, m : Taken(k, t, m) <=>
       \/ Taken(l, t, m)
       \/ IsClaim(e) /\ LastTurn(l) = t /\ Has(ClaimedBy(ReplayInbox(l), e), m)
  /\ \A t : Prompted(k, t) <=> Prompted(l, t) \/ (IsPrompt(e) /\ LastTurn(l) = t)
  /\ \A m : Pends(ReplayInbox(k), m) =>
       Pends(ReplayInbox(l), m) \/ Has(e.inserted, m)
  /\ \A m : IsClaim(e) /\ Has(ClaimedBy(ReplayInbox(l), e), m) =>
       Pends(ReplayInbox(l), m) /\ ~Pends(ReplayInbox(k), m)

\* An edit is logged, or left out as it changes nothing: either way it is told.
LEMMA EditTold ==
  ASSUME NEW l, NEW e, NEW r, Lawful(l), e \in LogEvents, Gives(e), Told(l, r),
         Proper(l, r, e)
  PROVE  /\ Lawful(Edited(l, e)) /\ Told(Edited(l, e), r) /\ EditsTo(l, Edited(l, e), e)
         /\ Tr(Edited(l, e)) = Tr(l) /\ LastTurn(Edited(l, e)) = LastTurn(l)
         /\ ReplayInbox(Edited(l, e)) = apply(ReplayInbox(l), e)
<1> DEFINE k == Edited(l, e)
<1>1. /\ Lawful(k) /\ Tr(k) = Tr(l) /\ LastTurn(k) = LastTurn(l)
      /\ ReplayInbox(k) = apply(ReplayInbox(l), e) /\ l \in Seq(LogEvents)
  <2>1. Placed(ReplayInbox(l), e) /\ e.type = "agent/inbox/spliced"
    BY DEF Proper, Gives
  <2> QED
    BY <2>1, SpliceLogged, LawfulReads DEF Continues
<1> SUFFICES Told(k, r) /\ EditsTo(l, k, e)
  BY <1>1
<1>a. k = l \o Logged(e)
  BY DEF Edited
<1> HIDE DEF k
<1>2. CASE e.removed > 0 \/ e.inserted # <<>>
  <2>1. k = l \o <<e>>
    BY <1>2, <1>a DEF Logged
  <2>2. k = Append(l, e)
    BY <1>1, <2>1, AppendIsConcat
  <2>3. Grown(l, k, e) /\ Adds(l, k, e)
    BY <1>1, <2>2 DEF Grown, Adds
  <2>4. Told(k, r) /\ Fine(l, r)
    BY <2>3, ToldAppend
  <2>5. /\ \A m : Given(k, m) <=> Given(l, m) \/ (Gives(e) /\ Has(e.inserted, m))
        /\ \A m : Shown(k, m) <=> Shown(l, m) \/ (e.type = "user/message" /\ e.id = m)
        /\ \A t, m : Taken(k, t, m) <=>
             \/ Taken(l, t, m)
             \/ /\ IsClaim(e) /\ LastTurn(k) = t
                /\ Has(ClaimedBy(ReplayInbox(l), e), m)
        /\ \A t : Prompted(k, t) <=>
             \/ Prompted(l, t)
             \/ IsClaim(e) /\ e.target = "next-turn" /\ LastTurn(k) = t
    BY <1>1, <2>3, FactsAppend
  <2>6. /\ \A m : Pends(ReplayInbox(k), m) =>
             Pends(ReplayInbox(l), m) \/ (Gives(e) /\ Has(e.inserted, m))
        /\ \A m : IsClaim(e) /\ Has(ClaimedBy(ReplayInbox(l), e), m) =>
             Pends(ReplayInbox(l), m) /\ ~Pends(ReplayInbox(k), m)
    BY <2>3, <2>4, GrownBox DEF Fine
  <2>7. EditsTo(l, k, e)
    <3>1. e.type # "user/message"
      BY DEF Gives
    <3> QED
      BY <1>1, <2>5, <2>6, <3>1 DEF EditsTo, IsPrompt
  <2> QED
    BY <2>4, <2>7
<1>3. CASE ~(e.removed > 0 \/ e.inserted # <<>>)
  <2>1. k = l \o <<>>
    BY <1>3, <1>a DEF Logged
  <2>2. k = l
    BY <1>1, <2>1, ConcatEmptySeq
  <2>3. ~IsClaim(e) /\ ~IsPrompt(e) /\ e.inserted = <<>>
    BY <1>3 DEF IsClaim, IsPrompt
  <2>4. \A m : ~Has(e.inserted, m)
    <3>1. Len(e.inserted) = 0
      BY <2>3
    <3> QED
      BY <3>1 DEF Has
  <2> QED
    BY <2>2, <2>3, <2>4 DEF EditsTo
<1> QED
  BY <1>2, <1>3
-----------------------------------------------------------------------------
(***************************************************************************)
(* The driver and its messages: what it holds in hand, between a claim and *)
(* the step that presents it, and what its open turn still owes.           *)
(***************************************************************************)
Holding == {"opened", "claiming", "preparing", "stepped", "stopping"} \cup InStep
InHand  == {"claiming", "preparing", "entered"}
Unprompted == {"opened", "claiming"}

WorkOK ==
  /\ \A m : Given(log, m) => m \in sent
  /\ Distinct(batch)
  /\ \A m : Has(batch, m) =>
       ~Pends(inbox, m) /\ ~Shown(log, m) /\ Taken(log, turn, m)
  /\ at \notin InHand => batch = <<>>
  /\ at \in Unprompted => ~Prompted(log, turn)
  /\ at \in Holding => \A m : Taken(log, turn, m) =>
       m \in rewritten \/ Shown(log, m) \/ Has(batch, m)

WorkInv == Told(log, rewritten) /\ WorkOK

\* A list of no messages has none.
LEMMA NoneHas == Distinct(<<>>) /\ \A m : ~Has(<<>>, m)
<1>1. Len(<<>>) = 0
  OBVIOUS
<1> QED
  BY <1>1 DEF Distinct, Has

\* A log that grew by mute events leaves the messages where they were.
LEMMA MuteWork ==
  ASSUME LogInv, WorkInv, Told(log', rewritten), Silent(log, log'),
         inbox' = inbox, turn' = turn, rewritten' = rewritten, sent' = sent,
         \/ batch' = batch /\ (at' \notin InHand => batch = <<>>)
         \/ batch' = <<>> /\ at' \notin Holding,
         at' \in Unprompted => at \in Unprompted,
         at' \in Holding => at \in Holding
  PROVE  WorkInv'
<1>1. Told(log, rewritten)'
  OBVIOUS
<1>2. CASE batch' = batch /\ (at' \notin InHand => batch = <<>>)
  BY <1>1, <1>2 DEF WorkInv, WorkOK, Silent
<1>3. CASE batch' = <<>> /\ at' \notin Holding
  <2>1. at' \notin InHand /\ at' \notin Unprompted
    BY <1>3 DEF Holding, InStep, InHand, Unprompted
  <2>2. Distinct(batch') /\ \A m : ~Has(batch', m)
    BY <1>3, NoneHas
  <2> QED
    BY <1>1, <1>3, <2>1, <2>2 DEF WorkInv, WorkOK, Silent
<1> QED
  BY <1>2, <1>3

\* A log is silent about itself, and told.
LEMMA SilentSelf ==
  ASSUME LogInv, WorkInv, UNCHANGED log
  PROVE  Told(log', rewritten) /\ Silent(log, log')
<1>1. Told(log', rewritten)
  BY DEF WorkInv
<1> QED
  BY <1>1 DEF Silent

\* The steps that append nothing.
LEMMA QuietWork ==
  ASSUME LogInv, WakeInv, WorkInv,
         \/ WakeDriver \/ EndMaintenance \/ Drained \/ RunMaintenance \/ SkipTurn
         \/ AskToStop \/ Continue \/ Exit \/ FinishKick
  PROVE  WorkInv'
<1> USE DEF control, data, history
<1>1. UNCHANGED <<log, inbox, batch, sent, rewritten>>
  BY DEF WakeDriver, EndMaintenance, Drained, RunMaintenance, SkipTurn, AskToStop,
         Continue, Exit, FinishKick
<1>2. Told(log', rewritten) /\ Silent(log, log')
  BY <1>1, SilentSelf
<1>3. at \notin InHand => batch = <<>>
  BY DEF WorkInv, WorkOK
<1>4. ASSUME UNCHANGED <<at, turn>> PROVE WorkInv'
  BY <1>1, <1>2, <1>3, <1>4, MuteWork
<1>5. ASSUME at \notin InHand, at' \notin Holding, turn' = turn PROVE WorkInv'
  <2>1. at' \notin Unprompted
    BY <1>5 DEF Holding, Unprompted
  <2> QED
    BY <1>1, <1>2, <1>3, <1>5, <2>1, MuteWork
<1>6. ASSUME phase = "idle" \/ phase = "maintenance", StartDriver PROVE WorkInv'
  <2>1. at \notin InHand
    BY <1>6 DEF WakeInv, ControlOK, Driving, Observers, InHand
  <2>2. at' \notin Holding /\ turn' = turn
    BY <1>6 DEF StartDriver, Holding, InStep
  <2> QED
    BY <1>5, <2>1, <2>2
<1>7. CASE WakeDriver
  <2>1. CASE phase = "idle" /\ StartDriver
    BY <1>6, <2>1
  <2>2. CASE LatchWake(call = "wakeAfterAbort") /\ UNCHANGED <<at, replay>>
    BY <1>4, <2>2 DEF LatchWake
  <2> QED
    BY <1>7, <2>1, <2>2 DEF WakeDriver
<1>8. CASE EndMaintenance
  <2>1. CASE StartDriver
    BY <1>6, <1>8, <2>1 DEF EndMaintenance
  <2>2. CASE UNCHANGED <<at, replay, turn, step>>
    BY <1>4, <2>2
  <2> QED
    BY <1>8, <2>1, <2>2 DEF EndMaintenance
<1>9. CASE Drained \/ RunMaintenance
  BY <1>4, <1>9 DEF Drained, RunMaintenance
<1>10. CASE AskToStop
  <2>1. at = "stepped" /\ at' = "stopping" /\ turn' = turn
    BY <1>10 DEF AskToStop, Runs, Goes
  <2>2. /\ at \notin InHand /\ at' \notin Unprompted
        /\ at \in Holding /\ batch' = batch
    BY <1>1, <2>1 DEF Holding, InHand, Unprompted
  <2> QED
    BY <1>1, <1>2, <1>3, <2>1, <2>2, MuteWork
<1>11. CASE SkipTurn \/ Continue \/ Exit
  <2>1. at \notin InHand /\ at' \in {"exiting", "boundary", "idled"} /\ turn' = turn
    BY <1>11 DEF SkipTurn, Continue, Exit, Runs, Goes, InHand
  <2> QED
    BY <1>5, <2>1 DEF Holding, InStep
<1>12. CASE FinishKick
  <2>1. at = "idled"
    BY <1>12 DEF FinishKick, Runs
  <2>2. CASE phase = "idle" /\ StartDriver
    BY <1>6, <2>2
  <2>3. CASE at' = "none" /\ turn' = turn
    BY <1>5, <2>1, <2>3 DEF Holding, InStep, InHand
  <2> QED
    BY <1>12, <2>2, <2>3 DEF FinishKick, LatchWake
<1> QED
  BY <1>7, <1>8, <1>9, <1>10, <1>11, <1>12

\* A turn ends; one that settles has accounted for its messages.
LEMMA CloseWork ==
  ASSUME LogInv, WorkInv, Lawful(log'), NEW r, NEW place, NEW more,
         Close(r, place), place \in {"exiting", "ended"},
         rewritten' = rewritten \cup more, sent' = sent,
         batch' = <<>> \/ (batch' = batch /\ at \notin InHand),
         r \in Endings => \A m : Taken(log, turn, m) =>
                            m \in rewritten \cup more \/ Shown(log, m)
  PROVE  WorkInv'
<1> DEFINE e == TurnEnd(turn, r)
           s == rewritten \cup more
           S == LogEvents \cup {e}
<1>1. /\ log' = log \o <<e>> /\ log \in Seq(LogEvents) /\ at' = place /\ turn' = turn
      /\ inbox' = inbox /\ inbox = ReplayInbox(log)
  BY LogFacts DEF Close, Logs, Goes
<1>2. log' = Append(log, e) /\ e \in S /\ log \in Seq(S)
  BY <1>1, LogsOne
<1>3. /\ e.type \notin {"user/message", "agent/inbox/spliced"}
      /\ e.type = "turn/end" /\ e.reason = r /\ e.turn = turn
  BY DEF TurnEnd
<1> HIDE DEF e, S
<1>4. Grown(log, log', e)
  BY <1>2, LawfulFront
<1>5. Accounted(log, s, e)
  BY <1>3 DEF Accounted
<1>6. Told(log, s)
  <2>1. rewritten \subseteq s
    OBVIOUS
  <2> HIDE DEF s
  <2> QED
    BY <2>1, ToldMore DEF WorkInv
<1> HIDE DEF s
<1>7. Told(log', s) /\ Silent(log, log')
  BY <1>3, <1>4, <1>5, <1>6, ProtocolAppend
<1>8. at' \notin InHand /\ at' \notin Unprompted /\ at' \notin Holding
  BY <1>1 DEF Holding, InStep, InHand, Unprompted
<1>9. batch' = <<>>
  BY DEF WorkInv, WorkOK
<1>10. Distinct(batch') /\ \A m : ~Has(batch', m)
  BY <1>9, NoneHas
<1>11. Told(log, rewritten)'
  BY <1>7 DEF s
<1> QED
  BY <1>7, <1>8, <1>9, <1>10, <1>11 DEF WorkInv, WorkOK, Silent

\* The driver's steps that close a turn.
LEMMA ClosingWork ==
  ASSUME LogInv, WorkInv, Lawful(log'),
         \/ TurnAborts \/ Reject \/ CloseFailed \/ Stop \/ Catch \/ ListenerFails
  PROVE  WorkInv'
<1> USE DEF history
<1>1. /\ sent' = sent /\ rewritten' = rewritten
      /\ batch' = <<>> \/ (batch' = batch /\ at \notin InHand)
  BY DEF TurnAborts, Reject, CloseFailed, Stop, Catch, ListenerFails, Prepared, Runs,
         InHand
<1>2. rewritten' = rewritten \cup {}
  BY <1>1
<1>3. CASE Close("aborted", "exiting") \/ Close("blocked", "exiting")
           \/ Close("error", "exiting")
  <2>1. "aborted" \notin Endings /\ "blocked" \notin Endings /\ "error" \notin Endings
    BY DEF Endings
  <2>2. ASSUME NEW r, r \in {"aborted", "blocked", "error"}, Close(r, "exiting")
        PROVE  WorkInv'
    <3>1. r \notin Endings
      BY <2>1, <2>2
    <3> QED
      BY <1>1, <1>2, <2>2, <3>1, CloseWork
  <2> QED
    BY <1>3, <2>2
<1>4. CASE Stop
  <2>1. at = "stopping" /\ Close(turnEnds, "ended")
    BY <1>4 DEF Stop, Runs
  <2>2. batch = <<>>
    BY <2>1 DEF WorkInv, WorkOK, InHand
  <2>3. \A m : Taken(log, turn, m) => m \in rewritten \cup {} \/ Shown(log, m)
    BY <2>1, <2>2, NoneHas DEF WorkInv, WorkOK, Holding
  <2> QED
    BY <1>1, <1>2, <2>1, <2>3, CloseWork
<1>5. CASE Goes("erring") /\ UNCHANGED <<log, inbox>>
  <2>1. Told(log', rewritten) /\ Silent(log, log')
    BY <1>5, SilentSelf
  <2>2. at' = "erring" /\ at' \notin Holding /\ turn' = turn
    BY <1>5 DEF Goes, Holding, InStep
  <2>3. at \notin InHand => batch = <<>>
    BY DEF WorkInv, WorkOK
  <2>4. batch' = <<>> /\ at' \notin Unprompted
    BY <1>1, <2>2, <2>3 DEF Unprompted
  <2> QED
    BY <1>1, <1>5, <2>1, <2>2, <2>4, MuteWork
<1> QED
  BY <1>3, <1>4, <1>5
  DEF TurnAborts, Reject, CloseFailed, Stop, Catch, ListenerFails, Prepared

\* The steps that append events of a step: replies, calls and endings.
LEMMA SteppingWork ==
  ASSUME LogInv, WorkInv, Lawful(log'),
         Reply \/ CutReply \/ ReplyWithTools \/ StepFails \/ StepAborts \/ StepEnds
  PROVE  WorkInv'
<1> USE DEF history
<1>1. /\ UNCHANGED <<inbox, batch, sent, rewritten, turn>>
      /\ at \in {"requesting", "tools", "replied"}
      /\ at' \in {"requesting", "tools", "replied", "stepped", "failed", "exiting"}
  BY DEF Reply, CutReply, ReplyWithTools, StepFails, StepAborts, StepEnds, Logs, Goes,
         Runs
<1>2. \/ \E e : Mute(e) /\ log' = log \o <<e>>
      \/ \E e, f : Mute(e) /\ Mute(f) /\ log' = log \o <<e, f>>
  <2>1. CASE Reply
    <3>1. Mute(Assistant(turn, step, <<>>))
      BY DEF Mute, Assistant
    <3> QED
      BY <2>1, <3>1 DEF Reply, Logs
  <2>6. CASE CutReply
    <3>1. Mute(Assistant(turn, step, <<<<turn, step>>>>))
      BY DEF Mute, Assistant
    <3> QED
      BY <2>6, <3>1 DEF CutReply, Logs
  <2>2. CASE ReplyWithTools
    <3>1. /\ Mute(Assistant(turn, step, <<<<turn, step>>>>))
          /\ Mute(ToolCall(turn, step, <<turn, step>>))
      BY DEF Mute, Assistant, ToolCall
    <3> QED
      BY <2>2, <3>1 DEF ReplyWithTools, Logs
  <2>3. Mute(StepEnd(turn, step)) /\ Mute(TurnEnd(turn, "aborted"))
    BY DEF Mute, StepEnd, TurnEnd, Endings
  <2>4. CASE StepFails \/ StepEnds
    BY <2>3, <2>4 DEF StepFails, StepEnds, Logs
  <2>5. CASE StepAborts
    BY <2>3, <2>5 DEF StepAborts, Logs
  <2> QED
    BY <2>1, <2>2, <2>4, <2>5, <2>6
<1>3. Told(log', rewritten) /\ Silent(log, log')
  <2>1. Told(log, rewritten) /\ log \in Seq(LogEvents)
    BY LogFacts DEF WorkInv
  <2>2. CASE \E e : Mute(e) /\ log' = log \o <<e>>
    BY <2>1, <2>2, MuteTwo
  <2>3. CASE \E e, f : Mute(e) /\ Mute(f) /\ log' = log \o <<e, f>>
    BY <2>1, <2>3, MuteTwo
  <2> QED
    BY <1>2, <2>2, <2>3
<1>4. batch = <<>> /\ at \in Holding /\ at' \notin Unprompted
  BY <1>1 DEF WorkInv, WorkOK, Holding, InStep, InHand, Unprompted
<1> QED
  BY <1>1, <1>3, <1>4, MuteWork

\* A new turn has taken nothing yet.
LEMMA OpenTurnWork ==
  ASSUME LogInv, WorkInv, Lawful(log'), OpenTurn
  PROVE  WorkInv'
<1> USE DEF history
<1>1. /\ UNCHANGED <<inbox, batch, sent, rewritten>> /\ turn' = turn + 1
      /\ at = "boundary" /\ at' = "opened" /\ log' = log \o <<TurnStart(turn + 1)>>
  BY DEF OpenTurn, Runs, Logs
<1>2. Mute(TurnStart(turn + 1)) /\ log \in Seq(LogEvents)
  BY LogFacts DEF Mute, TurnStart
<1>3. Told(log', rewritten) /\ Silent(log, log')
  BY <1>1, <1>2, MuteTwo DEF WorkInv
<1>4. Fine(log, rewritten) /\ turn = LastTurn(log) /\ turn \in Nat
  <2>1. Len(log) \in 0..Len(log) /\ Lawful(log)
    BY LogFacts DEF LogInv
  <2> QED
    BY <2>1, ToldPrefix, LogFacts DEF WorkInv, LogInv, NowAt
<1>5. turn + 1 \notin 0..LastTurn(log)
  BY <1>4
<1>6. ~Prompted(log, turn + 1) /\ \A m : ~Taken(log, turn + 1, m)
  BY <1>4, <1>5 DEF Fine, Past
<1>7. batch' = <<>> /\ Distinct(batch') /\ \A m : ~Has(batch', m)
  <2>1. batch' = <<>>
    BY <1>1 DEF WorkInv, WorkOK, InHand
  <2> QED
    BY <2>1, NoneHas
<1>8. Told(log, rewritten)'
  BY <1>1, <1>3
<1> QED
  BY <1>1, <1>3, <1>6, <1>7, <1>8 DEF WorkInv, WorkOK, Silent

\* A splice that claims nothing, or a claim, does its part.
LEMMA SpliceProper ==
  ASSUME NEW l, NEW r, NEW e, Gives(e), Placed(ReplayInbox(l), e),
         Distinct(e.inserted), \A m : Has(e.inserted, m) => ~Given(l, m),
         ClaimedInTurn(l, e)
  PROVE  Proper(l, r, e)
<1>1. e.type # "turn/end" /\ ~IsMessage(e)
  BY DEF Gives, IsMessage
<1> QED
  BY <1>1 DEF Proper, Accounted, Delivered, FreshlyGiven

\* The inbox is edited while the driver stands still: what is given is new.
LEMMA EditsWork ==
  ASSUME NEW e, NEW f, LogInv, WorkInv, inbox' = ReplayInbox(log'),
         Paired(inbox, e, f), log' = log \o Logged(e) \o Logged(f),
         ~IsClaim(e), ~IsClaim(f), f.inserted = <<>>, Distinct(e.inserted),
         \A m : Has(e.inserted, m) => m \notin sent /\ m \in sent',
         sent \subseteq sent', UNCHANGED <<at, turn, batch, rewritten>>
  PROVE  WorkInv'
<1> DEFINE k == Edited(log, e)
           m2 == Edited(k, f)
<1>1. /\ Lawful(log) /\ inbox = ReplayInbox(log) /\ inbox \in Boxed /\ log' = m2
      /\ \A m : Given(log, m) => m \in sent
      /\ Told(log, rewritten)
  BY LogFacts DEF LogInv, WorkInv, WorkOK, Edited
<1>2. /\ Gives(e) /\ e \in LogEvents /\ Placed(inbox, e) /\ Gives(f) /\ f \in LogEvents
      /\ ~IsPrompt(e) /\ ~IsPrompt(f)
  BY DEF Paired, Gives, IsPrompt
<1>3. Proper(log, rewritten, e)
  BY <1>1, <1>2, SpliceProper DEF ClaimedInTurn
<1> HIDE DEF k, m2
<1>4. /\ Lawful(k) /\ Told(k, rewritten) /\ EditsTo(log, k, e)
      /\ ReplayInbox(k) = apply(inbox, e)
  BY <1>1, <1>2, <1>3, EditTold DEF k
<1>5. Placed(ReplayInbox(k), f)
  BY <1>1, <1>4, PairedPlaced
<1>6. Distinct(f.inserted) /\ \A m : ~Has(f.inserted, m)
  BY NoneHas
<1>7. Proper(k, rewritten, f)
  BY <1>2, <1>5, <1>6, SpliceProper DEF ClaimedInTurn
<1>8. Told(m2, rewritten) /\ EditsTo(k, m2, f)
  BY <1>2, <1>4, <1>7, EditTold DEF m2
<1>9. /\ \A m : Given(m2, m) <=> Given(log, m) \/ Has(e.inserted, m)
      /\ \A m : Shown(m2, m) <=> Shown(log, m)
      /\ \A t, m : Taken(m2, t, m) <=> Taken(log, t, m)
      /\ \A t : Prompted(m2, t) <=> Prompted(log, t)
      /\ \A m : Pends(ReplayInbox(m2), m) => Pends(inbox, m) \/ Has(e.inserted, m)
  <2>1. \A m : Given(m2, m) <=> Given(log, m) \/ Has(e.inserted, m)
    BY <1>4, <1>6, <1>8 DEF EditsTo
  <2>2. \A m : Shown(m2, m) <=> Shown(log, m)
    BY <1>4, <1>8 DEF EditsTo
  <2>3. \A t, m : Taken(m2, t, m) <=> Taken(log, t, m)
    BY <1>4, <1>8 DEF EditsTo
  <2>4. \A t : Prompted(m2, t) <=> Prompted(log, t)
    BY <1>2, <1>4, <1>8 DEF EditsTo
  <2>5. \A m : Pends(ReplayInbox(m2), m) => Pends(inbox, m) \/ Has(e.inserted, m)
    BY <1>1, <1>4, <1>6, <1>8 DEF EditsTo
  <2> QED
    BY <2>1, <2>2, <2>3, <2>4, <2>5
<1>10. \A m : Taken(log, turn, m) => Given(log, m)
  <2>1. Fine(log, rewritten)
    <3>1. Len(log) \in 0..Len(log)
      BY LogFacts
    <3> QED
      BY <1>1, <3>1, ToldPrefix
  <2> QED
    BY <2>1 DEF Fine, Owned
<1>11. ASSUME NEW m, Has(batch, m)
       PROVE  ~Pends(inbox', m) /\ ~Shown(m2, m) /\ Taken(m2, turn, m)
  <2>1. ~Pends(inbox, m) /\ ~Shown(log, m) /\ Taken(log, turn, m)
    BY <1>11 DEF WorkInv, WorkOK
  <2>2. m \in sent
    BY <1>1, <1>10, <2>1
  <2>3. ~Has(e.inserted, m)
    BY <2>2
  <2> QED
    BY <1>1, <1>9, <2>1, <2>3
<1>12. \A m : Given(m2, m) => m \in sent'
  BY <1>1, <1>9
<1> QED
  BY <1>1, <1>8, <1>9, <1>11, <1>12 DEF WorkInv, WorkOK

\* One splice.
LEMMA OneEdit ==
  ASSUME NEW target \in Targets, NEW start \in Nat, NEW removed \in Nat,
         NEW inserted \in Seq(Messages), NEW canceled \in BOOLEAN,
         LogInv, WorkInv, inbox' = ReplayInbox(log'),
         start + removed <= Len(inbox[target]), removed = 0 \/ canceled = TRUE,
         Splice(<<Spliced(target, start, removed, inserted, canceled), Nothing>>),
         Distinct(inserted), \A m : Has(inserted, m) => m \notin sent /\ m \in sent',
         sent \subseteq sent', UNCHANGED <<at, turn, batch, rewritten>>
  PROVE  WorkInv'
<1> DEFINE e == Spliced(target, start, removed, inserted, canceled)
           f == Nothing
<1>1. log' = log \o Logged(e) \o Logged(f)
  BY DEF Splice
<1>2. /\ e \in LogEvents /\ e.type = "agent/inbox/spliced" /\ e.target = target
      /\ e.start = start /\ e.removed = removed /\ e.inserted = inserted
      /\ e.canceled = canceled
  BY SplicedFields
<1>3. inbox \in Boxed
  BY LogFacts
<1>4. /\ f \in LogEvents /\ f.type = "agent/inbox/spliced" /\ Placed(inbox, f)
      /\ f.start = 0 /\ f.removed = 0 /\ f.inserted = <<>>
  BY <1>3, NothingPlaced
<1> HIDE DEF e, f
<1>5. Paired(inbox, e, f)
  BY <1>2, <1>4 DEF Paired, Placed
<1>6. ~IsClaim(e) /\ ~IsClaim(f)
  BY <1>2, <1>4 DEF IsClaim
<1> QED
  BY <1>1, <1>2, <1>4, <1>5, <1>6, EditsWork

\* Both lists are cleared.
LEMMA ClearWork ==
  ASSUME LogInv, WorkInv, inbox' = ReplayInbox(log'), Splice(ClearEvents),
         sent' = sent, UNCHANGED <<at, turn, batch, rewritten>>
  PROVE  WorkInv'
<1> DEFINE j == Len(inbox["next-step"])
           k == Len(inbox["next-turn"])
           z == 0
           q == <<>>
           c == TRUE
<1>1. /\ "next-step" \in Targets /\ "next-turn" \in Targets /\ j \in Nat /\ k \in Nat
      /\ z \in Nat /\ q \in Seq(Messages) /\ c \in BOOLEAN
  BY LogFacts DEF Targets
<1>2. z + j <= j /\ z + k <= k
  BY <1>1
<1> DEFINE e == Spliced("next-step", z, j, q, c)
           f == Spliced("next-turn", z, k, q, c)
<1>3. log' = log \o Logged(e) \o Logged(f)
  BY DEF Splice, ClearEvents
<1>0. Distinct(q) /\ (\A m : ~Has(q, m)) /\ q = <<>>
  BY NoneHas
<1>a. c = TRUE
  OBVIOUS
<1> HIDE DEF z, q, c
<1>4. /\ e \in LogEvents /\ e.type = "agent/inbox/spliced" /\ e.target = "next-step"
      /\ e.start = z /\ e.removed = j /\ e.inserted = q /\ e.canceled = c
  BY <1>1, SplicedFields
<1>5. /\ f \in LogEvents /\ f.type = "agent/inbox/spliced" /\ f.target = "next-turn"
      /\ f.start = z /\ f.removed = k /\ f.inserted = q /\ f.canceled = c
  BY <1>1, SplicedFields
<1> HIDE DEF e, f
<1>6. Paired(inbox, e, f)
  BY <1>2, <1>4, <1>5 DEF Paired, Placed, j, k
<1>7. ~IsClaim(e) /\ ~IsClaim(f)
  BY <1>4, <1>5, <1>a DEF IsClaim
<1> QED
  BY <1>0, <1>3, <1>4, <1>5, <1>6, <1>7, EditsWork

\* One message is a list of distinct messages.
LEMMA OneHas ==
  ASSUME NEW m
  PROVE  Distinct(<<m>>) /\ (\A x : Has(<<m>>, x) <=> x = m) /\ ToSet(<<m>>) = {m}
<1>1. Len(<<m>>) = 1 /\ <<m>>[1] = m
  OBVIOUS
<1>2. 1..1 = {1}
  OBVIOUS
<1>3. Distinct(<<m>>)
  BY <1>1, <1>2 DEF Distinct
<1>4. \A x : Has(<<m>>, x) <=> x = m
  BY <1>1, <1>2 DEF Has
<1>5. ToSet(<<m>>) = {m}
  BY DEF ToSet
<1> QED
  BY <1>3, <1>4, <1>5

\* Send, the inbox edits, cancel and dispose.
LEMMA InputWork ==
  ASSUME LogInv, WorkInv, inbox' = ReplayInbox(log'),
         \/ \E m \in Messages, target \in Targets, wakeup \in BOOLEAN :
              Send(m, target, wakeup)
         \/ Edit
         \/ \E keepInbox \in BOOLEAN : Cancel(keepInbox)
         \/ Dispose
  PROVE  WorkInv'
<1>0. /\ "next-step" \in Targets /\ "next-turn" \in Targets
      /\ \A target \in Targets : inbox[target] \in Seq(Messages)
  BY LogFacts DEF Targets, Boxed
<1>1. ASSUME NEW target \in Targets, NEW start \in Nat, NEW removed \in Nat,
             NEW inserted \in Seq(Messages), NEW canceled \in BOOLEAN,
             start + removed <= Len(inbox[target]), removed = 0 \/ canceled = TRUE,
             Splice(<<Spliced(target, start, removed, inserted, canceled), Nothing>>),
             \/ inserted = <<>> /\ sent' = sent
             \/ \E m : inserted = <<m>> /\ m \notin sent /\ sent' = sent \cup {m},
             UNCHANGED <<at, turn, batch, rewritten>>
      PROVE  WorkInv'
  <2>1. /\ Distinct(inserted) /\ sent \subseteq sent'
        /\ \A m : Has(inserted, m) => m \notin sent /\ m \in sent'
    <3>1. CASE inserted = <<>> /\ sent' = sent
      BY <3>1, NoneHas
    <3>2. CASE \E m : inserted = <<m>> /\ m \notin sent /\ sent' = sent \cup {m}
      <4>1. PICK m : inserted = <<m>> /\ m \notin sent /\ sent' = sent \cup {m}
        BY <3>2
      <4>2. Distinct(inserted) /\ \A x : Has(inserted, x) <=> x = m
        BY <4>1, OneHas
      <4> QED
        BY <4>1, <4>2
    <3> QED
      BY <1>1, <3>1, <3>2
  <2> QED
    BY <1>1, <2>1, OneEdit
<1>2. ASSUME NEW m \in Messages, NEW target \in Targets, NEW wakeup \in BOOLEAN,
             Send(m, target, wakeup)
      PROVE  WorkInv'
  <2> DEFINE resolved == IF AfterAbort(wakeup) THEN "next-turn" ELSE target
             start == Len(inbox[resolved])
             z == 0
             q == <<m>>
             b == FALSE
  <2>1. /\ resolved \in Targets /\ start \in Nat /\ z \in Nat /\ q \in Seq(Messages)
        /\ b \in BOOLEAN /\ start + z <= Len(inbox[resolved]) /\ z = 0
    BY <1>0
  <2>2. Splice(<<Spliced(resolved, start, z, q, b), Nothing>>)
    BY <1>2 DEF Send, Insert
  <2>3. UNCHANGED <<at, turn, batch, rewritten>>
    BY <1>2 DEF Send, control
  <2>4. q = <<m>> /\ m \notin sent /\ sent' = sent \cup {m}
    BY <1>2 DEF Send
  <2>5. \E x : q = <<x>> /\ x \notin sent /\ sent' = sent \cup {x}
    BY <2>4
  <2> HIDE DEF resolved, start, z, q, b
  <2> QED
    BY <1>1, <2>1, <2>2, <2>3, <2>5
<1>3. ASSUME NEW m, NEW inserted \in Seq(Messages), EditPending(m, inserted),
             \/ inserted = <<>>
             \/ \E x : inserted = <<x>> /\ x \notin sent
      PROVE  WorkInv'
  <2>0. PICK target \in Targets : \E i \in 1..Len(inbox[target]) :
          Splice(<<Spliced(target, i - 1, 1, inserted, TRUE), Nothing>>)
    BY <1>3 DEF EditPending
  <2>1. PICK i \in 1..Len(inbox[target]) :
          Splice(<<Spliced(target, i - 1, 1, inserted, TRUE), Nothing>>)
    BY <2>0
  <2> DEFINE start == i - 1
             one == 1
             b == TRUE
  <2>2. /\ start \in Nat /\ one \in Nat /\ b \in BOOLEAN /\ b = TRUE
        /\ start + one <= Len(inbox[target])
    BY <1>0
  <2>3. Splice(<<Spliced(target, start, one, inserted, b), Nothing>>)
    BY <2>1
  <2>4. UNCHANGED <<at, turn, batch, rewritten>> /\ sent' = sent \cup ToSet(inserted)
    BY <1>3 DEF EditPending, control
  <2>5. \/ inserted = <<>> /\ sent' = sent
        \/ \E x : inserted = <<x>> /\ x \notin sent /\ sent' = sent \cup {x}
    <3>1. CASE inserted = <<>>
      <4>1. ToSet(<<>>) = {}
        BY DEF ToSet
      <4> QED
        BY <2>4, <3>1, <4>1
    <3>2. CASE \E x : inserted = <<x>> /\ x \notin sent
      <4>1. PICK x : inserted = <<x>> /\ x \notin sent
        BY <3>2
      <4>2. ToSet(inserted) = {x}
        BY <4>1, OneHas
      <4> QED
        BY <2>4, <4>1, <4>2
    <3> QED
      BY <1>3, <3>1, <3>2
  <2> HIDE DEF start, one, b
  <2> QED
    BY <1>1, <2>2, <2>3, <2>4, <2>5
<1>4. ASSUME NEW m \in Messages, NEW target \in Targets, m \notin sent,
             Prepend(target, m)
      PROVE  WorkInv'
  <2> DEFINE z == 0
             q == <<m>>
             b == FALSE
  <2>1. /\ z \in Nat /\ q \in Seq(Messages) /\ b \in BOOLEAN /\ z = 0
        /\ z + z <= Len(inbox[target])
    BY <1>0
  <2>2. Splice(<<Spliced(target, z, z, q, b), Nothing>>)
    BY <1>4 DEF Prepend
  <2>3. UNCHANGED <<at, turn, batch, rewritten>>
    BY <1>4 DEF Prepend, control, history
  <2>4. q = <<m>> /\ m \notin sent /\ sent' = sent \cup {m}
    BY <1>4 DEF Prepend
  <2>5. \E x : q = <<x>> /\ x \notin sent /\ sent' = sent \cup {x}
    BY <2>4
  <2> HIDE DEF z, q, b
  <2> QED
    BY <1>1, <2>1, <2>2, <2>3, <2>5
<1>5. CASE Edit
  <2>1. <<>> \in Seq(Messages) /\ \A m \in Messages : <<m>> \in Seq(Messages)
    OBVIOUS
  <2>2. ASSUME NEW m, EditPending(m, <<>>) PROVE WorkInv'
    <3> DEFINE q == <<>>
    <3>1. q \in Seq(Messages) /\ EditPending(m, q) /\ q = <<>>
      BY <2>1, <2>2
    <3> HIDE DEF q
    <3> QED
      BY <1>3, <3>1
  <2>3. ASSUME NEW m, NEW new \in Messages \ sent, EditPending(m, <<new>>)
        PROVE  WorkInv'
    <3> DEFINE q == <<new>>
    <3>1. /\ q \in Seq(Messages) /\ EditPending(m, q)
          /\ \E x : q = <<x>> /\ x \notin sent
      BY <2>1, <2>3
    <3> HIDE DEF q
    <3> QED
      BY <1>3, <3>1
  <2> QED
    BY <1>4, <1>5, <2>2, <2>3 DEF Edit
<1>6. ASSUME NEW cause, NEW keepInbox \in BOOLEAN, CancelWith(cause, keepInbox)
      PROVE  WorkInv'
  <2>1. UNCHANGED <<at, turn, batch, rewritten>> /\ sent' = sent
    BY <1>6 DEF CancelWith
  <2>2. CASE UNCHANGED <<log, inbox>>
    <3>1. Told(log', rewritten) /\ Silent(log, log')
      BY <2>2, SilentSelf
    <3>2. at \notin InHand => batch = <<>>
      BY DEF WorkInv, WorkOK
    <3> QED
      BY <2>1, <2>2, <3>1, <3>2, MuteWork
  <2>3. CASE Splice(ClearEvents)
    BY <2>1, <2>3, ClearWork
  <2> QED
    BY <1>6, <2>2, <2>3 DEF CancelWith
<1> QED
  BY <1>2, <1>5, <1>6 DEF Cancel, Dispose

\* A crash keeps a prefix, which is repaired; nothing is left in hand.
LEMMA CrashWork ==
  ASSUME LogInv, WorkInv, CrashAndResume
  PROVE  WorkInv'
<1>1. PICK n \in 0..Len(log) : log' = Recovered(Upto(log, n))
  BY DEF CrashAndResume, Upto
<1>2. /\ Lawful(log) /\ log \in Seq(LogEvents) /\ at' = "none" /\ batch' = <<>>
      /\ sent' = sent /\ rewritten' = rewritten
  BY LogFacts DEF LogInv, CrashAndResume
<1> DEFINE l == Upto(log, n)
<1>3. Lawful(l) /\ Told(l, rewritten)
  BY <1>2, LawfulPrefix, ToldPrefix DEF WorkInv
<1>4. Len(l) = n /\ n <= Len(log) /\ n \in Nat /\ \A i \in 1..n : l[i] = log[i]
  BY <1>2, PrefixOf
<1>a. Len(log) \in Nat /\ log' = Recovered(l)
  BY <1>1, LogFacts
<1> HIDE DEF l
<1>5. Told(log', rewritten) /\ Silent(l, log')
  BY <1>3, <1>a, RepairTold
<1>6. \A m : Given(l, m) => Given(log, m)
  <2>1. \A i \in 1..n : i \in 1..Len(log)
    BY <1>4, <1>a
  <2> QED
    BY <1>4, <2>1 DEF Given
<1>7. \A m : Given(log', m) => m \in sent'
  BY <1>2, <1>5, <1>6 DEF Silent, WorkInv, WorkOK
<1>8. Distinct(batch') /\ \A m : ~Has(batch', m)
  BY <1>2, NoneHas
<1>9. at' \notin Unprompted /\ at' \notin Holding
  BY <1>2 DEF Holding, InStep, Unprompted
<1> QED
  BY <1>2, <1>5, <1>7, <1>8, <1>9 DEF WorkInv, WorkOK

\* The whole of a list, from its front.
LEMMA TakesAll ==
  ASSUME NEW S, NEW list \in Seq(S)
  PROVE  SubSeq(list, 1, Len(list)) = list
<1>1. Len(list) \in 0..Len(list)
  OBVIOUS
<1> QED
  BY <1>1, PrefixOf DEF Upto

\* The front of a list, element by element.
LEMMA FrontOf ==
  ASSUME NEW S, NEW list \in Seq(S), NEW n \in 0..Len(list), NEW front,
         front = SubSeq(list, 1, n)
  PROVE  /\ front \in Seq(S) /\ Len(front) = n
         /\ \A i \in 1..n : i \in 1..Len(list) /\ front[i] = list[i]
<1>1. front = Upto(list, n)
  BY DEF Upto
<1>2. front \in Seq(S) /\ Len(front) = n /\ \A i \in 1..n : front[i] = list[i]
  BY <1>1, PrefixOf
<1>3. \A i \in 1..n : i \in 1..Len(list)
  OBVIOUS
<1> QED
  BY <1>2, <1>3

\* The prompt a turn's first step claims is the first of its queue.
LEMMA PromptTaken ==
  ASSUME LogInv
  PROVE  /\ SubSeq(inbox["next-turn"], 1, Len(Prompt)) = Prompt
         /\ Len(Prompt) \in {0, 1}
<1> DEFINE list == inbox["next-turn"]
<1>1. list \in Seq(Messages)
  BY LogFacts
<1>2. CASE list # <<>>
  <2>1. Prompt = <<Head(list)>>
    BY <1>2 DEF Prompt
  <2> HIDE DEF list
  <2>2. Len(list) \in Nat /\ Len(list) > 0 /\ Head(list) = list[1] /\ 1 \in 1..Len(list)
    BY <1>1, <1>2
  <2>3. Len(<<list[1]>>) = 1 /\ <<list[1]>>[1] = list[1] /\ 1..1 = {1}
    OBVIOUS
  <2> DEFINE s == Upto(list, 1)
             one == <<list[1]>>
  <2>4. 1 \in 0..Len(list) /\ list[1] \in Messages
    BY <1>1, <2>2
  <2>5. s \in Seq(Messages) /\ Len(s) = 1 /\ \A i \in 1..1 : s[i] = list[i]
    BY <1>1, <2>4, PrefixOf
  <2>6. one \in Seq(Messages) /\ Len(one) = 1 /\ one[1] = list[1]
    BY <2>3, <2>4
  <2> HIDE DEF s, one
  <2>7. \A i \in 1..Len(s) : s[i] = one[i]
    BY <2>3, <2>5, <2>6
  <2>8. s = one
    BY <2>5, <2>6, <2>7, SeqEqual
  <2>9. Prompt = one /\ SubSeq(list, 1, 1) = one
    BY <2>1, <2>2, <2>8 DEF s, one, Upto
  <2> QED
    BY <2>6, <2>9 DEF list
<1>3. CASE list = <<>>
  <2>1. Prompt = <<>> /\ Len(<<>>) = 0
    BY <1>3 DEF Prompt
  <2>2. 0 \in 0..Len(list)
    BY <1>1
  <2>3. SubSeq(list, 1, 0) = <<>>
    BY <1>1, <2>2, PrefixOf DEF Upto
  <2> QED
    BY <2>1, <2>3
<1> QED
  BY <1>2, <1>3

\* Two lists of distinct messages with none in common, one after the other.
LEMMA BatchHas ==
  ASSUME NEW a \in Seq(Messages), NEW b \in Seq(Messages), Distinct(a), Distinct(b),
         \A m : ~(Has(a, m) /\ Has(b, m))
  PROVE  /\ \A m : Has(a \o b, m) <=> Has(a, m) \/ Has(b, m)
         /\ Distinct(a \o b)
<1> DEFINE c == a \o b
<1>3. /\ Len(a) \in Nat /\ Len(b) \in Nat /\ Len(c) = Len(a) + Len(b)
      /\ \A i \in 1..(Len(a) + Len(b)) :
           c[i] = IF i <= Len(a) THEN a[i] ELSE b[i - Len(a)]
  BY ConcatProperties
<1> HIDE DEF c
<1>4. /\ \A i \in 1..Len(a) : i \in 1..Len(c) /\ c[i] = a[i]
      /\ \A i \in 1..Len(b) : Len(a) + i \in 1..Len(c) /\ c[Len(a) + i] = b[i]
      /\ \A i \in 1..Len(c) : \/ i \in 1..Len(a)
                              \/ i - Len(a) \in 1..Len(b) /\ i = Len(a) + (i - Len(a))
  <2>1. ASSUME NEW i \in 1..Len(b) PROVE Len(a) + i \in 1..Len(c) /\ c[Len(a) + i] = b[i]
    <3>1. /\ Len(a) + i \in 1..(Len(a) + Len(b)) /\ ~(Len(a) + i <= Len(a))
          /\ (Len(a) + i) - Len(a) = i
      BY <1>3
    <3> QED
      BY <1>3, <3>1
  <2> QED
    BY <1>3, <2>1
<1>5. \A m : Has(c, m) <=> Has(a, m) \/ Has(b, m)
  <2>1. ASSUME NEW m, Has(c, m) PROVE Has(a, m) \/ Has(b, m)
    <3>1. PICK i \in 1..Len(c) : c[i] = m
      BY <2>1 DEF Has
    <3>2. CASE i \in 1..Len(a)
      BY <1>4, <3>1, <3>2 DEF Has
    <3>3. CASE i - Len(a) \in 1..Len(b) /\ i = Len(a) + (i - Len(a))
      <4> DEFINE x == i - Len(a)
      <4>1. x \in 1..Len(b) /\ i = Len(a) + x
        BY <3>3
      <4> HIDE DEF x
      <4>2. b[x] = m
        BY <1>4, <3>1, <4>1
      <4> QED
        BY <4>1, <4>2 DEF Has
    <3> QED
      BY <1>4, <3>2, <3>3
  <2>2. ASSUME NEW m, Has(a, m) \/ Has(b, m) PROVE Has(c, m)
    BY <1>4, <2>2 DEF Has
  <2> QED
    BY <2>1, <2>2
<1>6. /\ \A i, j \in 1..Len(a) : a[i] = a[j] => i = j
      /\ \A i, j \in 1..Len(b) : b[i] = b[j] => i = j
      /\ \A i \in 1..Len(a), j \in 1..Len(b) : a[i] # b[j]
  BY DEF Distinct, Has
<1>7. ASSUME NEW i \in 1..Len(c), NEW j \in 1..Len(c), c[i] = c[j] PROVE i = j
  <2> DEFINE x == i - Len(a)
             y == j - Len(a)
  <2>1. CASE i \in 1..Len(a) /\ j \in 1..Len(a)
    BY <1>4, <1>6, <1>7, <2>1
  <2>2. ASSUME i \in 1..Len(a), y \in 1..Len(b), j = Len(a) + y PROVE FALSE
    <3> HIDE DEF y
    <3> QED
      BY <1>4, <1>6, <1>7, <2>2
  <2>3. ASSUME j \in 1..Len(a), x \in 1..Len(b), i = Len(a) + x PROVE FALSE
    <3> HIDE DEF x
    <3> QED
      BY <1>4, <1>6, <1>7, <2>3
  <2>4. ASSUME x \in 1..Len(b), i = Len(a) + x, y \in 1..Len(b), j = Len(a) + y
        PROVE  i = j
    <3> HIDE DEF x, y
    <3> QED
      BY <1>4, <1>6, <1>7, <2>4
  <2> QED
    BY <1>4, <2>1, <2>2, <2>3, <2>4
<1>8. Distinct(c)
  BY <1>7 DEF Distinct
<1> QED
  BY <1>5, <1>8 DEF c

\* One splice of a claim: what it takes is added to what is in hand.
LEMMA ClaimWork ==
  ASSUME NEW target \in Targets, NEW taken \in Seq(Messages),
         NEW place \in {"claiming", "preparing"}, LogInv, WorkInv,
         inbox' = ReplayInbox(log'), Claim(target, taken, place),
         at \in {"opened", "claiming", "stepped", "stopping"},
         Len(taken) <= Len(inbox[target]),
         SubSeq(inbox[target], 1, Len(taken)) = taken,
         target = "next-turn" => at \in Unprompted /\ Len(taken) \in {0, 1},
         place = "claiming" => at = "opened" /\ target # "next-turn"
  PROVE  WorkInv'
<1> DEFINE j == Len(taken)
           z == 0
           q == <<>>
           c == FALSE
<1>1. /\ inbox[target] \in Seq(Messages) /\ j \in Nat /\ z \in Nat
      /\ q \in Seq(Messages) /\ c \in BOOLEAN /\ z + j <= Len(inbox[target]) /\ z = 0
      /\ j \in 0..Len(inbox[target])
  BY LogFacts DEF Boxed
<1>2. Distinct(q) /\ (\A m : ~Has(q, m)) /\ q = <<>> /\ c = FALSE
  BY NoneHas
<1> DEFINE e == Spliced(target, z, j, q, c)
<1>3. /\ log' = log \o Logged(e) \o <<>>
      /\ batch' = batch \o taken /\ at' = place /\ turn' = turn
      /\ sent' = sent /\ rewritten' = rewritten
  <2>1. Logged(Nothing) = <<>>
    BY NothingPlaced DEF Logged
  <2> QED
    BY <2>1 DEF Claim, ClaimEvent, Splice, Goes, history
<1> HIDE DEF z, q, c
<1>4. /\ e \in LogEvents /\ e.type = "agent/inbox/spliced" /\ e.target = target
      /\ e.start = z /\ e.removed = j /\ e.inserted = q /\ e.canceled = c
  BY <1>1, SplicedFields
<1> DEFINE m2 == Edited(log, e)
<1>5. m2 = log \o Logged(e)
  BY DEF Edited
<1> HIDE DEF e, m2
<1>6. Gives(e) /\ Placed(inbox, e) /\ (IsClaim(e) <=> j > 0)
  BY <1>1, <1>2, <1>4 DEF Gives, Placed, IsClaim
<1>7. /\ Lawful(log) /\ inbox = ReplayInbox(log) /\ inbox \in Boxed
      /\ Told(log, rewritten) /\ Fine(log, rewritten) /\ turn = LastTurn(log)
      /\ Tr(log).openTurn # None
  <2>1. OpenAt(log, turn, None)
    BY FromTurn DEF InTurn
  <2>2. Len(log) \in 0..Len(log) /\ inbox \in Boxed
    BY LogFacts
  <2> QED
    BY <2>1, <2>2, ToldPrefix DEF LogInv, WorkInv, OpenAt
<1>8. Proper(log, rewritten, e)
  <2>1. ASSUME IsPrompt(e)
        PROVE  e.removed = 1 /\ ~Prompted(log, LastTurn(log))
    <3>1. j > 0 /\ target = "next-turn"
      BY <1>4, <1>6, <2>1 DEF IsPrompt
    <3>2. j = 1 /\ at \in Unprompted
      BY <3>1
    <3>3. ~Prompted(log, turn)
      BY <3>2 DEF WorkInv, WorkOK
    <3> QED
      BY <1>4, <1>7, <3>2, <3>3
  <2>2. ClaimedInTurn(log, e)
    BY <1>1, <1>2, <1>4, <1>7, <2>1 DEF ClaimedInTurn
  <2> QED
    BY <1>2, <1>4, <1>6, <1>7, <2>2, SpliceProper
<1>9. Lawful(m2) /\ Told(m2, rewritten) /\ EditsTo(log, m2, e)
  BY <1>4, <1>6, <1>7, <1>8, EditTold DEF m2
<1>10. log' = m2
  <2>1. m2 \in Seq(LogEvents)
    BY <1>9, LawfulReads
  <2> QED
    BY <1>3, <1>5, <2>1, ConcatEmptySeq
<1>11. ClaimedBy(inbox, e) = taken
  BY <1>4 DEF ClaimedBy, j
<1>12. \A m : Has(taken, m) => IsClaim(e)
  <2>1. ASSUME NEW m, Has(taken, m) PROVE j > 0
    BY <1>1, <2>1 DEF Has, j
  <2> QED
    BY <1>6, <2>1
<1>13. \A m : Has(taken, m) => Pends(inbox, m) /\ ~Pends(ReplayInbox(m2), m)
  BY <1>7, <1>9, <1>11, <1>12 DEF EditsTo
<1>14. Distinct(taken)
  <2>1. \A i \in 1..j : i \in 1..Len(inbox[target]) /\ taken[i] = inbox[target][i]
    BY <1>1, FrontOf DEF j
  <2>2. OnceEach(inbox)
    BY <1>7 DEF Fine, Owned
  <2> QED
    BY <2>1, <2>2 DEF Distinct, OnceEach, j
<1>15. /\ \A m : Has(batch', m) <=> Has(batch, m) \/ Has(taken, m)
       /\ Distinct(batch')
  <2>1. Distinct(batch) /\ \A m : ~(Has(batch, m) /\ Has(taken, m))
    BY <1>13 DEF WorkInv, WorkOK
  <2> QED
    BY <1>3, <1>14, <2>1, BatchHas, LogFacts
<1>16. /\ \A m : Given(m2, m) <=> Given(log, m)
       /\ \A m : Shown(m2, m) <=> Shown(log, m)
       /\ \A t, m : Taken(m2, t, m) <=> Taken(log, t, m) \/ (turn = t /\ Has(taken, m))
       /\ \A m : Pends(ReplayInbox(m2), m) => Pends(inbox, m)
  <2>1. \A m : ~Has(e.inserted, m)
    BY <1>2, <1>4
  <2>2. \A m : Given(m2, m) <=> Given(log, m)
    BY <1>9, <2>1 DEF EditsTo
  <2>3. \A m : Shown(m2, m) <=> Shown(log, m)
    BY <1>9 DEF EditsTo
  <2>4. \A t, m : Taken(m2, t, m) <=> Taken(log, t, m) \/ (turn = t /\ Has(taken, m))
    BY <1>7, <1>9, <1>11, <1>12 DEF EditsTo
  <2>5. \A m : Pends(ReplayInbox(m2), m) => Pends(inbox, m)
    BY <1>7, <1>9, <2>1 DEF EditsTo
  <2> QED
    BY <2>2, <2>3, <2>4, <2>5
<1>17. ASSUME NEW m, Has(batch', m)
       PROVE  ~Pends(ReplayInbox(m2), m) /\ ~Shown(m2, m) /\ Taken(m2, turn, m)
  <2>1. CASE Has(batch, m)
    BY <1>16, <2>1 DEF WorkInv, WorkOK
  <2>2. CASE Has(taken, m)
    <3>1. Pends(inbox, m) /\ ~Pends(ReplayInbox(m2), m)
      BY <1>13, <2>2
    <3> QED
      BY <1>7, <1>16, <2>2, <3>1 DEF Fine, Owned
  <2> QED
    BY <1>15, <1>17, <2>1, <2>2
<1>18. \A m : Taken(log, turn, m) => m \in rewritten \/ Shown(log, m) \/ Has(batch, m)
  <2>1. at \in Holding
    BY DEF Holding
  <2> QED
    BY <2>1 DEF WorkInv, WorkOK
<1>19. at' \in InHand /\ (at' \in Unprompted => ~Prompted(m2, turn))
  <2>1. CASE place = "claiming"
    <3>1. ~Prompted(log, turn) /\ ~IsPrompt(e)
      BY <1>4, <2>1 DEF WorkInv, WorkOK, Unprompted, IsPrompt
    <3> QED
      BY <1>3, <1>9, <2>1, <3>1 DEF EditsTo, InHand
  <2>2. CASE place = "preparing"
    BY <1>3, <2>2 DEF InHand, Unprompted
  <2> QED
    BY <2>1, <2>2
<1>20. \A m : Given(m2, m) => m \in sent'
  BY <1>3, <1>16 DEF WorkInv, WorkOK
<1>21. \A m : Taken(m2, turn, m) => m \in rewritten \/ Shown(m2, m) \/ Has(batch', m)
  BY <1>15, <1>16, <1>18
<1> QED
  BY <1>3, <1>9, <1>10, <1>15, <1>17, <1>19, <1>20, <1>21 DEF WorkInv, WorkOK

\* A step begins with its messages in hand or, when a listener rewrote them all
\* away, none.
LEMMA StepStartWork ==
  ASSUME LogInv, WorkInv, Lawful(log'), at = "preparing",
         NEW messages \in Seq(Messages), messages = batch \/ messages = <<>>,
         Logs(<<StepStart(turn, step + 1)>>),
         Goes(IF messages = <<>> THEN "requesting" ELSE "entered"),
         batch' = messages, sent' = sent,
         rewritten' = rewritten \cup (ToSet(batch) \ ToSet(messages))
  PROVE  WorkInv'
<1> DEFINE s == rewritten \cup (ToSet(batch) \ ToSet(messages))
<1>1. /\ at' = (IF messages = <<>> THEN "requesting" ELSE "entered")
      /\ turn' = turn /\ inbox' = inbox /\ log' = log \o <<StepStart(turn, step + 1)>>
  BY DEF Goes, Logs
<1>2. rewritten' = s
  OBVIOUS
<1>3. /\ rewritten \subseteq s
      /\ \A m : Has(batch, m) => m \in s \/ Has(messages, m)
  <2>1. ASSUME NEW m, Has(batch, m) PROVE m \in ToSet(batch)
    BY <2>1 DEF Has, ToSet
  <2>2. ASSUME NEW m, m \in ToSet(messages) PROVE Has(messages, m)
    BY <2>2 DEF Has, ToSet
  <2> QED
    BY <2>1, <2>2
<1> HIDE DEF s
<1>4. Told(log, s)
  BY <1>3, ToldMore DEF WorkInv
<1>5. Told(log', s) /\ Silent(log, log')
  <2>1. Mute(StepStart(turn, step + 1)) /\ log \in Seq(LogEvents)
    BY LogFacts DEF Mute, StepStart
  <2> QED
    BY <1>1, <1>4, <2>1, MuteTwo
<1>6. Distinct(messages) /\ \A m : Has(messages, m) => Has(batch, m)
  BY NoneHas DEF WorkInv, WorkOK
<1>7. ASSUME NEW m, Has(batch', m)
      PROVE  ~Pends(inbox', m) /\ ~Shown(log', m) /\ Taken(log', turn, m)
  <2>1. Has(batch, m)
    BY <1>6, <1>7
  <2> QED
    BY <1>1, <1>5, <2>1 DEF WorkInv, WorkOK, Silent
<1>8. \A m : Taken(log', turn, m) => m \in s \/ Shown(log', m) \/ Has(batch', m)
  <2>1. \A m : Taken(log, turn, m) => m \in rewritten \/ Shown(log, m) \/ Has(batch, m)
    BY DEF WorkInv, WorkOK, Holding
  <2> QED
    BY <1>3, <1>5, <2>1 DEF Silent
<1>9. at' \notin Unprompted /\ (at' \notin InHand => batch' = <<>>)
  BY <1>1 DEF Unprompted, InHand
<1>10. \A m : Given(log', m) => m \in sent'
  BY <1>5 DEF Silent, WorkInv, WorkOK
<1> QED
  BY <1>1, <1>2, <1>5, <1>6, <1>7, <1>8, <1>9, <1>10 DEF WorkInv, WorkOK

\* The rest of a list of distinct messages has all but the first.
LEMMA RestHas ==
  ASSUME NEW S, NEW list \in Seq(S), list # <<>>, Distinct(list)
  PROVE  /\ Distinct(Tail(list)) /\ Has(list, Head(list))
         /\ \A m : Has(Tail(list), m) <=> Has(list, m) /\ m # Head(list)
<1> DEFINE rest == Tail(list)
<1>1. /\ Len(list) \in Nat /\ Len(list) > 0 /\ Len(rest) = Len(list) - 1
      /\ Head(list) = list[1]
      /\ \A i \in 1..Len(rest) : rest[i] = list[i + 1]
  OBVIOUS
<1> HIDE DEF rest
<1>2. Has(list, Head(list))
  BY <1>1 DEF Has
<1>3. Distinct(rest)
  <2>1. ASSUME NEW i \in 1..Len(rest), NEW j \in 1..Len(rest), rest[i] = rest[j]
        PROVE  i = j
    <3>1. /\ i + 1 \in 1..Len(list) /\ j + 1 \in 1..Len(list)
          /\ list[i + 1] = list[j + 1]
      BY <1>1, <2>1
    <3>2. i + 1 = j + 1
      BY <3>1 DEF Distinct
    <3> QED
      BY <3>2
  <2> QED
    BY <2>1 DEF Distinct
<1>4. ASSUME NEW m, Has(rest, m) PROVE Has(list, m) /\ m # Head(list)
  <2>1. PICK i \in 1..Len(rest) : rest[i] = m
    BY <1>4 DEF Has
  <2>2. /\ i + 1 \in 1..Len(list) /\ list[i + 1] = m /\ i + 1 # 1 /\ 1 \in 1..Len(list)
    BY <1>1, <2>1
  <2>3. list[i + 1] # list[1]
    BY <2>2 DEF Distinct
  <2> QED
    BY <1>1, <2>2, <2>3 DEF Has
<1>5. ASSUME NEW m, Has(list, m), m # Head(list) PROVE Has(rest, m)
  <2>1. PICK i \in 1..Len(list) : list[i] = m
    BY <1>5 DEF Has
  <2> DEFINE k == i - 1
  <2>2. i # 1
    BY <1>1, <1>5, <2>1
  <2>3. k \in 1..Len(rest) /\ i = k + 1
    BY <1>1, <2>2
  <2> HIDE DEF k
  <2>4. rest[k] = m
    BY <1>1, <2>1, <2>3
  <2> QED
    BY <2>3, <2>4 DEF Has
<1> QED
  BY <1>2, <1>3, <1>4, <1>5 DEF rest

\* One of the step's messages is appended: it is shown, and no longer in hand.
LEMMA AppendMessageWork ==
  ASSUME LogInv, WorkInv, Lawful(log'), AppendMessage
  PROVE  WorkInv'
<1> DEFINE x == Head(batch)
           e == UserMessage(x)
<1>1. /\ at = "entered" /\ turn' = turn /\ inbox' = inbox
      /\ log' = log \o <<e>> /\ batch' = Tail(batch)
      /\ at' = (IF batch' = <<>> THEN "requesting" ELSE "entered")
      /\ sent' = sent /\ rewritten' = rewritten
  BY DEF AppendMessage, Runs, Logs, Goes, history
<1>2. batch \in Seq(Messages) /\ batch # <<>> /\ Distinct(batch)
  BY <1>1 DEF LogInv, DataOK, WorkInv, WorkOK
<1>3. /\ Distinct(batch') /\ Has(batch, x)
      /\ \A m : Has(batch', m) <=> Has(batch, m) /\ m # x
  BY <1>1, <1>2, RestHas
<1>4. e \in LogEvents /\ e.type = "user/message" /\ e.id = x
  <2>1. x \in Messages
    BY <1>2
  <2> QED
    BY <2>1 DEF UserMessage, LogEvents
<1> HIDE DEF e, x
<1>5. log' = Append(log, e) /\ log \in Seq(LogEvents)
  BY <1>1, LogFacts, LogsOne
<1>6. Grown(log, log', e) /\ Adds(log, log', e)
  BY <1>4, <1>5 DEF Grown, Adds, LogInv
<1>7. inbox = ReplayInbox(log) /\ turn = LastTurn(log)
  BY DEF LogInv, NowAt
<1>8. Proper(log, rewritten, e)
  <2>1. Delivered(log, e)
    BY <1>3, <1>4, <1>7 DEF Delivered, WorkInv, WorkOK
  <2>2. ~Gives(e) /\ ~IsClaim(e) /\ ~IsPrompt(e) /\ e.type # "turn/end"
    BY <1>4 DEF Gives, IsClaim, IsPrompt
  <2> QED
    BY <2>1, <2>2 DEF Proper, Accounted, FreshlyGiven, ClaimedInTurn, Placed, Gives
<1>9. Told(log', rewritten)
  BY <1>6, <1>8, ToldAppend DEF WorkInv
<1>10. /\ \A m : Given(log', m) <=> Given(log, m)
       /\ \A m : Shown(log', m) <=> Shown(log, m) \/ m = x
       /\ \A t, m : Taken(log', t, m) <=> Taken(log, t, m)
  <2>1. ~Gives(e) /\ ~IsClaim(e)
    BY <1>4 DEF Gives, IsClaim
  <2>2. \A m : Given(log', m) <=> Given(log, m) \/ (Gives(e) /\ Has(e.inserted, m))
    BY <1>4, <1>5, <1>6, FactsAppend
  <2>3. \A m : Shown(log', m) <=> Shown(log, m) \/ (e.type = "user/message" /\ e.id = m)
    BY <1>4, <1>5, <1>6, FactsAppend
  <2>4. \A t, m : Taken(log', t, m) <=>
           \/ Taken(log, t, m)
           \/ /\ IsClaim(e) /\ LastTurn(log') = t
              /\ Has(ClaimedBy(ReplayInbox(log), e), m)
    BY <1>4, <1>5, <1>6, FactsAppend
  <2> QED
    BY <1>4, <2>1, <2>2, <2>3, <2>4
<1>11. ASSUME NEW m, Has(batch', m)
       PROVE  ~Pends(inbox', m) /\ ~Shown(log', m) /\ Taken(log', turn, m)
  BY <1>1, <1>3, <1>10, <1>11 DEF WorkInv, WorkOK
<1>12. \A m : Taken(log', turn, m) => m \in rewritten \/ Shown(log', m) \/ Has(batch', m)
  <2>1. at \in Holding
    BY <1>1 DEF Holding, InStep
  <2>2. \A m : Taken(log, turn, m) => m \in rewritten \/ Shown(log, m) \/ Has(batch, m)
    BY <2>1 DEF WorkInv, WorkOK
  <2> QED
    BY <1>3, <1>10, <2>2
<1>13. at' \notin Unprompted /\ (at' \notin InHand => batch' = <<>>)
  BY <1>1 DEF Unprompted, InHand
<1>14. \A m : Given(log', m) => m \in sent'
  BY <1>1, <1>10 DEF WorkInv, WorkOK
<1> QED
  BY <1>1, <1>3, <1>9, <1>11, <1>12, <1>13, <1>14 DEF WorkInv, WorkOK

\* The end of the pre-step waterfall: the step begins, or the turn settles.
LEMMA PreStepWork ==
  ASSUME LogInv, WorkInv, Lawful(log'), PreStep
  PROVE  WorkInv'
<1>1. PICK messages \in {<<>>, batch} : \E c \in BOOLEAN : Enter(messages, c)
  BY DEF PreStep
<1>2. PICK context \in BOOLEAN : Enter(messages, context)
  BY <1>1
<1>3. messages = <<>> \/ messages = batch
  BY <1>1
<1>4. messages \in Seq(Messages)
  <2>1. <<>> \in Seq(Messages) /\ batch \in Seq(Messages)
    BY LogFacts
  <2> QED
    BY <1>3, <2>1
<1> DEFINE more == ToSet(batch) \ ToSet(messages)
<1>5. /\ at = "preparing" /\ batch' = messages /\ sent' = sent
      /\ rewritten' = rewritten \cup more
  BY <1>2 DEF Enter, Prepared, Runs
<1>6. ASSUME messages = <<>>
      PROVE  \A m : Taken(log, turn, m) => m \in rewritten \cup more \/ Shown(log, m)
  <2>1. \A m : Has(batch, m) => m \in ToSet(batch)
    BY DEF Has, ToSet
  <2>2. \A m : m \notin ToSet(messages)
    <3>1. Len(messages) = 0
      BY <1>6
    <3> QED
      BY <3>1 DEF ToSet
  <2> QED
    BY <1>5, <2>1, <2>2 DEF WorkInv, WorkOK, Holding
<1> HIDE DEF more
<1>7. ASSUME NEW r, NEW place, messages = <<>>, Close(r, place),
             place \in {"exiting", "ended"}
      PROVE  WorkInv'
  BY <1>5, <1>6, <1>7, CloseWork
<1>8. CASE messages = <<>> /\ (Close(turnEnds, "ended") \/ Close("completed", "exiting"))
  BY <1>7, <1>8
<1>9. CASE /\ Logs(<<StepStart(turn, step + 1)>>)
           /\ Goes(IF messages = <<>> THEN "requesting" ELSE "entered")
  BY <1>3, <1>4, <1>5, <1>9, StepStartWork DEF more
<1> QED
  BY <1>2, <1>8, <1>9 DEF Enter

\* A tool's result, and the context it adds to the inbox.
LEMMA ToolSettlesWork ==
  ASSUME LogInv, WorkInv, inbox' = ReplayInbox(log'), NEW context \in Seq(Messages),
         NEW concluded \in BOOLEAN, ToolSettles(context, concluded),
         Distinct(context), \A m : Has(context, m) => m \notin sent
  PROVE  WorkInv'
<1> DEFINE e == ToolResult(turn, step, CallOf(turn, step), "none")
           start == Len(inbox["next-step"])
           z == 0
           b == FALSE
           f == Spliced("next-step", start, z, context, b)
           l == Append(log, e)
           k == Edited(l, f)
<1>1. /\ at = "tools" /\ at' = "replied" /\ turn' = turn /\ step' = step
      /\ log' = log \o <<e>> \o Logged(f)
      /\ batch' = batch /\ rewritten' = rewritten /\ sent' = sent \cup ToSet(context)
  BY DEF ToolSettles, Runs, Goes, CallOf, history
<1>2. OpenAt(log, turn, step) /\ Tr(log).nextStep = step /\ step # None
  BY <1>1, FromStep DEF InStep
<1>3. Lawful(log) /\ CallEndsAt(log, turn, step, "none")
  BY <1>1 DEF LogInv, NowAt, CallEndsAt
<1>4. "none" \in Codes
  BY DEF Codes
<1>5. Adds(log, l, e) /\ l = log \o <<e>> /\ log \in Seq(LogEvents)
  BY LogFacts, LogsOne DEF Adds
<1>6. /\ f \in LogEvents /\ Gives(f) /\ Placed(inbox, f)
      /\ f.removed = 0 /\ f.inserted = context
  <2>1. /\ "next-step" \in Targets /\ start \in Nat /\ z \in Nat /\ b \in BOOLEAN
        /\ start + z <= start /\ z = 0
    BY LogFacts DEF Targets
  <2> HIDE DEF z, b
  <2>2. /\ f \in LogEvents /\ f.type = "agent/inbox/spliced"
        /\ f.target = "next-step" /\ f.start = start /\ f.removed = z
        /\ f.inserted = context
    BY <2>1, SplicedFields
  <2> QED
    BY <2>1, <2>2 DEF Placed, Gives
<1>7. log' = k
  BY <1>1, <1>5 DEF Edited
<1>8. e = ToolResult(turn, step, CallOf(turn, step), "none") /\ Mute(e)
  BY DEF Mute, ToolResult
<1> HIDE DEF e, f, l, z, b, k
<1>9. Continues(log, l) /\ ReplayInbox(l) = ReplayInbox(log)
  BY <1>2, <1>3, <1>4, <1>5, <1>8, CallEnds
<1>10. Lawful(l) /\ Placed(ReplayInbox(l), f)
  BY <1>6, <1>9, LogFacts DEF Continues
<1>11. Told(l, rewritten) /\ Silent(log, l)
  BY <1>5, <1>8, <1>10, MuteTwo DEF WorkInv
<1>12. ~IsClaim(f) /\ ~IsPrompt(f)
  BY <1>6 DEF IsClaim, IsPrompt
<1>13. \A m : Has(context, m) => ~Given(l, m)
  BY <1>11 DEF WorkInv, WorkOK, Silent
<1>14. Proper(l, rewritten, f)
  BY <1>6, <1>10, <1>12, <1>13, SpliceProper DEF ClaimedInTurn
<1>15. Told(k, rewritten) /\ EditsTo(l, k, f)
  BY <1>6, <1>10, <1>11, <1>14, EditTold DEF k
<1>16. /\ \A m : Given(k, m) <=> Given(log, m) \/ Has(context, m)
       /\ \A m : Shown(k, m) <=> Shown(log, m)
       /\ \A t, m : Taken(k, t, m) <=> Taken(log, t, m)
  BY <1>6, <1>11, <1>12, <1>15 DEF EditsTo, Silent
<1>17. \A m : Given(k, m) => m \in sent'
  <2>1. \A m : Has(context, m) => m \in ToSet(context)
    BY DEF Has, ToSet
  <2> QED
    BY <1>1, <1>16, <2>1 DEF WorkInv, WorkOK
<1>18. batch = <<>> /\ Distinct(batch') /\ \A m : ~Has(batch', m)
  BY <1>1, NoneHas DEF WorkInv, WorkOK, InHand
<1>19. \A m : Taken(k, turn, m) => m \in rewritten \/ Shown(k, m)
  BY <1>1, <1>16, <1>18, NoneHas DEF WorkInv, WorkOK, Holding, InStep
<1>20. at' \notin Unprompted /\ batch' = <<>>
  BY <1>1, <1>18 DEF Unprompted
<1> QED
  BY <1>1, <1>7, <1>15, <1>17, <1>18, <1>19, <1>20 DEF WorkInv, WorkOK

\* The tools of a step: each gives nothing, or a message of its own.
LEMMA ToolsWork ==
  ASSUME LogInv, WorkInv, inbox' = ReplayInbox(log'), Tools
  PROVE  WorkInv'
<1>1. PICK c \in BOOLEAN : \/ ToolSettles(<<>>, c)
                           \/ \E m \in Messages \ sent : ToolSettles(<<m>>, c)
  BY DEF Tools
<1>2. ASSUME NEW q \in Seq(Messages), ToolSettles(q, c), Distinct(q),
             \A m : Has(q, m) => m \notin sent
      PROVE  WorkInv'
  BY <1>2, ToolSettlesWork
<1>3. CASE ToolSettles(<<>>, c)
  <2> DEFINE q == <<>>
  <2>1. q \in Seq(Messages) /\ Distinct(q) /\ (\A m : ~Has(q, m)) /\ ToolSettles(q, c)
    BY <1>3, NoneHas
  <2> HIDE DEF q
  <2> QED
    BY <1>2, <2>1
<1>4. ASSUME NEW x \in Messages \ sent, ToolSettles(<<x>>, c) PROVE WorkInv'
  <2> DEFINE q == <<x>>
  <2>1. q \in Seq(Messages) /\ ToolSettles(q, c) /\ q = <<x>> /\ x \notin sent
    BY <1>4
  <2> HIDE DEF q
  <2>2. Distinct(q) /\ \A m : Has(q, m) => m = x
    BY <2>1, OneHas
  <2> QED
    BY <1>2, <2>1, <2>2
<1> QED
  BY <1>1, <1>3, <1>4

\* Every step keeps the messages told.
LEMMA NextWorkInv == LogInv /\ WakeInv /\ WorkInv /\ [AgentNext]_vars => WorkInv'
<1> SUFFICES ASSUME LogInv, WakeInv, WorkInv, [AgentNext]_vars PROVE WorkInv'
  OBVIOUS
<1>0. Lawful(log') /\ inbox' = ReplayInbox(log')
  <2>1. LogInv'
    BY NextLogInv
  <2> QED
    BY <2>1 DEF LogInv
<1>1. CASE CrashAndResume
  BY <1>1, CrashWork
<1>2. CASE UNCHANGED vars
  <2>1. UNCHANGED <<log, inbox, at, turn, batch, sent, rewritten>>
    BY <1>2 DEF vars, control, data, history
  <2>2. Told(log', rewritten) /\ Silent(log, log')
    BY <2>1, SilentSelf
  <2>3. at \notin InHand => batch = <<>>
    BY DEF WorkInv, WorkOK
  <2> QED
    BY <2>1, <2>2, <2>3, MuteWork
<1>3. CASE \/ \E m \in Messages, target \in Targets, wakeup \in BOOLEAN :
                Send(m, target, wakeup)
           \/ Edit \/ (\E keepInbox \in BOOLEAN : Cancel(keepInbox)) \/ Dispose
  BY <1>0, <1>3, InputWork
<1>4. CASE \/ WakeDriver \/ EndMaintenance \/ Drained \/ RunMaintenance \/ SkipTurn
           \/ AskToStop \/ Continue \/ Exit \/ FinishKick
  BY <1>4, QuietWork
<1>5. CASE TurnAborts \/ Reject \/ CloseFailed \/ Stop \/ Catch \/ ListenerFails
  BY <1>0, <1>5, ClosingWork
<1>6. CASE FirstClaim \/ PromptClaim \/ NextClaim
  <2> DEFINE s == "next-step"
             q == "next-turn"
             steering == inbox[s]
  <2>1. /\ s \in Targets /\ q \in Targets /\ s # q /\ steering \in Seq(Messages)
        /\ steering = inbox[s]
    BY LogFacts DEF Targets
  <2>2. SubSeq(steering, 1, Len(steering)) = steering /\ Len(steering) <= Len(inbox[s])
    BY <2>1, TakesAll
  <2>3. /\ Prompt \in Seq(Messages) /\ Len(Prompt) <= Len(inbox[q])
        /\ SubSeq(inbox[q], 1, Len(Prompt)) = Prompt /\ Len(Prompt) \in {0, 1}
    BY PromptTyped, PromptTaken
  <2>4. \/ at = "opened" /\ Claim(s, steering, "claiming")
        \/ at \in Unprompted /\ Claim(q, Prompt, "preparing")
        \/ at \in {"stepped", "stopping"} /\ Claim(s, steering, "preparing")
    BY <1>6 DEF FirstClaim, PromptClaim, NextClaim, Runs, Unprompted
  <2> HIDE DEF s, q, steering
  <2>5. CASE at = "opened" /\ Claim(s, steering, "claiming")
    <3> DEFINE place == "claiming"
    <3>1. place \in {"claiming", "preparing"} /\ Claim(s, steering, place)
      BY <2>5
    <3>2. s # "next-turn"
      BY <2>1 DEF q
    <3> HIDE DEF place
    <3> QED
      BY <1>0, <2>1, <2>2, <2>5, <3>1, <3>2, ClaimWork
  <2>6. CASE at \in Unprompted /\ Claim(q, Prompt, "preparing")
    <3> DEFINE place == "preparing"
    <3>1. /\ place \in {"claiming", "preparing"} /\ place # "claiming"
          /\ Claim(q, Prompt, place) /\ at \in {"opened", "claiming", "stepped", "stopping"}
      BY <2>6 DEF Unprompted
    <3> HIDE DEF place
    <3> QED
      BY <1>0, <2>1, <2>3, <2>6, <3>1, ClaimWork
  <2>7. CASE at \in {"stepped", "stopping"} /\ Claim(s, steering, "preparing")
    <3> DEFINE place == "preparing"
    <3>1. /\ place \in {"claiming", "preparing"} /\ place # "claiming"
          /\ Claim(s, steering, place)
      BY <2>7
    <3>2. s # "next-turn"
      BY <2>1 DEF q
    <3> HIDE DEF place
    <3> QED
      BY <1>0, <2>1, <2>2, <2>7, <3>1, <3>2, ClaimWork
  <2> QED
    BY <2>4, <2>5, <2>6, <2>7
<1>7. CASE OpenTurn
  BY <1>0, <1>7, OpenTurnWork
<1>8. CASE Reply \/ CutReply \/ ReplyWithTools \/ StepFails \/ StepAborts \/ StepEnds
  BY <1>0, <1>8, SteppingWork
<1>9. CASE PreStep
  BY <1>0, <1>9, PreStepWork
<1>10. CASE Tools
  BY <1>0, <1>10, ToolsWork
<1>11. CASE AppendMessage
  BY <1>0, <1>11, AppendMessageWork
<1> QED
  BY <1>1, <1>2, <1>3, <1>4, <1>5, <1>6, <1>7, <1>8, <1>9, <1>10, <1>11
     DEF AgentNext, Input, Driver

\* A new agent has been told nothing.
LEMMA InitWorkInv == AgentInit => WorkInv
<1> SUFFICES ASSUME AgentInit PROVE WorkInv
  OBVIOUS
<1>1. log = <<>> /\ at = "none" /\ batch = <<>> /\ rewritten = {}
  BY DEF AgentInit, Init
<1>2. Len(log) = 0 /\ ReplayInbox(log) = EmptyInbox /\ log \in Seq(LogEvents)
  <2>1. <<>> \in Seq(LogEvents)
    OBVIOUS
  <2> QED
    BY <1>1, <2>1, LawfulEmpty
<1>3. 1..0 = {}
  OBVIOUS
<1>4. /\ \A m : ~Given(log, m) /\ ~Shown(log, m)
      /\ \A t, m : ~Taken(log, t, m)
      /\ \A t : ~Prompted(log, t) /\ ~Settled(log, t)
  BY <1>2, <1>3 DEF Given, Shown, Taken, Prompted, Settled
<1>5. \A t \in Targets : Len(EmptyInbox[t]) = 0
  BY DEF EmptyInbox
<1>6. OnceEach(EmptyInbox) /\ \A m : ~Pends(EmptyInbox, m)
  BY <1>3, <1>5 DEF OnceEach, Pends, Has
<1>7. Owned(log)
  BY <1>2, <1>4, <1>6 DEF Owned
<1>8. Past(log) /\ Account(log, rewritten)
  BY <1>4 DEF Past, Account
<1>9. Prompts(log) /\ Delivery(log) /\ Placing(log)
  BY <1>2, <1>3 DEF Prompts, Delivery, Placing
<1>10. Fine(log, rewritten)
  BY <1>7, <1>8, <1>9 DEF Fine
<1>11. Told(log, rewritten)
  <2>1. Upto(log, 0) = log /\ 0..0 = {0}
    <3>1. 0 \in 0..Len(log)
      BY <1>2
    <3>2. Upto(log, Len(log)) = log
      BY <1>2, <3>1, PrefixOf
    <3> QED
      BY <1>2, <3>2
  <2> QED
    BY <1>2, <1>10, <2>1 DEF Told
<1>12. WorkOK
  BY <1>1, <1>4, NoneHas DEF WorkOK, Holding, InStep, Unprompted
<1> QED
  BY <1>11, <1>12 DEF WorkInv

\* The driver always has its log lawful, its wakes in order and its messages told.
LEMMA WorkHolds == AgentSpec => [](LogInv /\ WorkInv)
  BY InitLogInv, InitWakeInv, InitWorkInv, NextLogInv, NextWakeInv, NextWorkInv, PTL
     DEF AgentSpec

\* A log whose driver keeps its messages told is fine as it stands.
LEMMA FineNow ==
  ASSUME LogInv, WorkInv
  PROVE  /\ Fine(log, rewritten) /\ Lawful(log) /\ log \in Seq(LogEvents)
         /\ Len(log) \in Nat
<1>1. Len(log) \in 0..Len(log) /\ log \in Seq(LogEvents) /\ Len(log) \in Nat
  BY LogFacts
<1> QED
  BY <1>1, ToldPrefix DEF LogInv, WorkInv

\* How the properties name positions, claims, and the turns and messages of them.
LEMMA Named ==
  ASSUME LogInv, WorkInv
  PROVE  /\ \A i : i \in Claims <=> i \in 1..Len(log) /\ IsClaim(log[i])
         /\ \A i : TurnAt(i) = TurnOf(log, i)
         /\ \A i, m : i \in 1..Len(log) =>
              (m \in ToSet(ClaimedAt(i)) <=> Has(Claimed(log, i), m))
         /\ \A i, type : i \in Positions(type) <=> i \in 1..Len(log) /\ log[i].type = type
<1>1. \A i, type : i \in Positions(type) <=> i \in 1..Len(log) /\ log[i].type = type
  BY DEF Positions
<1>2. \A i : i \in Claims <=> i \in 1..Len(log) /\ IsClaim(log[i])
  BY <1>1 DEF Claims, IsClaim
<1>3. \A i : TurnAt(i) = TurnOf(log, i)
  BY DEF TurnAt, TurnOf, Upto
<1>4. \A i : ClaimedAt(i) = Claimed(log, i)
  BY DEF ClaimedAt, Claimed, ClaimedBy, Upto
<1>5. \A s, m : m \in ToSet(s) <=> Has(s, m)
  BY DEF ToSet, Has
<1> QED
  BY <1>1, <1>2, <1>3, <1>4, <1>5

\* One follow-up, one turn: a turn claims at most one message of next-turn, for
\* any messages sent and edited, cancels, failures and crashes.
THEOREM PromptCorrect == AgentSpec => []TurnOwnsPrompt
<1>1. ASSUME LogInv, WorkInv PROVE TurnOwnsPrompt
  <2>1. Prompts(log)
    BY <1>1, FineNow DEF Fine
  <2>2. SUFFICES ASSUME NEW i \in Claims, NEW j \in Claims,
                        log[i].target = "next-turn", log[j].target = "next-turn"
                 PROVE  log[i].removed = 1 /\ (TurnAt(i) = TurnAt(j) => i = j)
    BY DEF TurnOwnsPrompt
  <2>3. /\ i \in 1..Len(log) /\ IsPrompt(log[i]) /\ j \in 1..Len(log) /\ IsPrompt(log[j])
        /\ TurnAt(i) = TurnOf(log, i) /\ TurnAt(j) = TurnOf(log, j)
    BY <1>1, <2>2, Named DEF IsPrompt
  <2> QED
    BY <2>1, <2>3 DEF Prompts
<1> QED
  BY <1>1, WorkHolds, PTL

\* No message reaches the model history twice, not even across a crash, and none
\* does that its own turn did not claim.
THEOREM DeliveryCorrect == AgentSpec => []DeliveredOnce
<1>1. ASSUME LogInv, WorkInv PROVE DeliveredOnce
  <2>1. Delivery(log)
    BY <1>1, FineNow DEF Fine
  <2>2. ASSUME NEW i \in Positions("user/message")
        PROVE  i \in 1..Len(log) /\ IsMessage(log[i])
    BY <1>1, <2>2, Named DEF IsMessage
  <2>3. ASSUME NEW i \in Positions("user/message"), NEW j \in Positions("user/message"),
               log[i].id = log[j].id
        PROVE  i = j
    <3>1. i \in 1..Len(log) /\ IsMessage(log[i]) /\ j \in 1..Len(log) /\ IsMessage(log[j])
      BY <2>2
    <3> QED
      BY <2>1, <2>3, <3>1 DEF Delivery
  <2>4. ASSUME NEW i \in Positions("user/message")
        PROVE  \E j \in Claims : /\ j < i /\ log[i].id \in ToSet(ClaimedAt(j))
                                 /\ TurnAt(j) = TurnAt(i)
    <3>1. i \in 1..Len(log) /\ IsMessage(log[i])
      BY <2>2, <2>4
    <3>2. PICK j \in 1..Len(log) : /\ j < i /\ IsClaim(log[j])
                                   /\ Has(Claimed(log, j), log[i].id)
                                   /\ TurnOf(log, j) = TurnOf(log, i)
      BY <2>1, <3>1 DEF Delivery
    <3>3. j \in Claims /\ TurnAt(j) = TurnAt(i) /\ log[i].id \in ToSet(ClaimedAt(j))
      BY <1>1, <3>2, Named
    <3> QED
      BY <3>2, <3>3
  <2> QED
    BY <2>3, <2>4 DEF DeliveredOnce
<1> QED
  BY <1>1, WorkHolds, PTL

\* Work is not lost silently: a message claimed from the inbox becomes a
\* user/message, was rewritten away by a pre-step listener, or its turn ends
\* blocked, aborted, in error or interrupted; never completed or max-tokens.
THEOREM AccountCorrect == AgentSpec => []ClaimsAccounted
<1>1. ASSUME LogInv, WorkInv PROVE ClaimsAccounted
  <2>1. Delivery(log) /\ Account(log, rewritten)
    BY <1>1, FineNow DEF Fine
  <2>2. SUFFICES ASSUME NEW i \in Claims, NEW m \in ToSet(ClaimedAt(i)),
                        NEW e \in Positions("turn/end"),
                        log[e].turn = TurnAt(i), log[e].reason \in Endings,
                        m \notin rewritten
                 PROVE  \E j \in Positions("user/message") : j > i /\ log[j].id = m
    BY DEF ClaimsAccounted
  <2>3. /\ i \in 1..Len(log) /\ IsClaim(log[i]) /\ Has(Claimed(log, i), m)
        /\ e \in 1..Len(log) /\ log[e].type = "turn/end"
        /\ TurnAt(i) = TurnOf(log, i)
    BY <1>1, <2>2, Named
  <2>4. Settled(log, TurnAt(i)) /\ Taken(log, TurnAt(i), m)
    BY <2>2, <2>3 DEF Settled, Taken
  <2>5. Shown(log, m)
    BY <2>1, <2>2, <2>4 DEF Account
  <2>6. PICK j \in 1..Len(log) : IsMessage(log[j]) /\ log[j].id = m
    BY <2>5 DEF Shown, IsMessage
  <2>7. i < j
    BY <2>1, <2>3, <2>6 DEF Delivery
  <2>8. j \in Positions("user/message") /\ j \in Nat /\ i \in Nat
    BY <1>1, <2>3, <2>6, Named DEF IsMessage
  <2> QED
    BY <2>6, <2>7, <2>8
<1> QED
  BY <1>1, WorkHolds, PTL
-----------------------------------------------------------------------------
(***************************************************************************)
(* The account of consumed work: a single pass over the log finds the      *)
(* ending a supervisor is told of.  It forgets a turn that settled; that   *)
(* is sound as long as nothing more is said of a turn that has ended.      *)
(***************************************************************************)
WorkOf(l) == Folded(consume, NoWork, l)
WorkSet == [stepped : SUBSET Nat, claimed : SUBSET Nat, open : Nat, end : Nat,
            droppedUnrun : BOOLEAN]

\* What the pass makes of each event.
LEMMA ConsumeCases ==
  ASSUME NEW w \in WorkSet, NEW e \in LogEvents
  PROVE  /\ consume(w, e) \in WorkSet
         /\ e.type = "turn/start" => /\ consume(w, e).open = e.turn
                                     /\ consume(w, e).stepped = w.stepped
                                     /\ consume(w, e).claimed = w.claimed
                                     /\ consume(w, e).end = w.end
                                     /\ consume(w, e).droppedUnrun = w.droppedUnrun
         /\ e.type = "step/start" => /\ consume(w, e).open = w.open
                                     /\ consume(w, e).stepped = w.stepped \cup {e.turn}
                                     /\ consume(w, e).claimed = w.claimed
                                     /\ consume(w, e).end = w.end
                                     /\ consume(w, e).droppedUnrun = w.droppedUnrun
         /\ IsDrop(e) => /\ consume(w, e).open = w.open
                         /\ consume(w, e).stepped = w.stepped
                         /\ consume(w, e).claimed = w.claimed
                         /\ consume(w, e).end = w.end
                         /\ consume(w, e).droppedUnrun
         /\ IsClaim(e) /\ w.open # None =>
              /\ consume(w, e).open = w.open
              /\ consume(w, e).stepped = w.stepped
              /\ consume(w, e).claimed = w.claimed \cup {w.open}
              /\ consume(w, e).end = w.end
              /\ consume(w, e).droppedUnrun = w.droppedUnrun
         /\ /\ e.type \notin {"turn/start", "step/start", "turn/end"}
            /\ ~IsDrop(e) /\ ~IsClaim(e)
            => consume(w, e) = w
<1>1. CASE e.type = "turn/start"
  <2>1. e.turn \in Nat
    BY <1>1 DEF LogEvents, Number
  <2>2. consume(w, e) = [w EXCEPT !.open = e.turn]
    BY <1>1 DEF consume, IsDrop, IsClaim
  <2> QED
    BY <1>1, <2>1, <2>2 DEF WorkSet, IsDrop, IsClaim
<1>2. CASE e.type = "step/start"
  <2>1. e.turn \in Nat
    BY <1>2 DEF LogEvents, Number
  <2>2. consume(w, e) = [w EXCEPT !.stepped = @ \cup {e.turn}]
    BY <1>2 DEF consume, IsDrop, IsClaim
  <2> QED
    BY <1>2, <2>1, <2>2 DEF WorkSet, IsDrop, IsClaim
<1>3. CASE e.type = "turn/end"
  <2> DEFINE with == [w EXCEPT !.open = None, !.end = e.turn, !.droppedUnrun = FALSE,
                               !.stepped = @ \ {e.turn},
                               !.claimed = IF e.turn \in w.stepped THEN @
                                           ELSE @ \ {e.turn}]
             without == [w EXCEPT !.open = None, !.claimed = @ \ {e.turn}]
  <2>1. e.turn \in Nat
    BY <1>3 DEF LogEvents, Number
  <2>2. consume(w, e) \in {with, without}
    BY <1>3 DEF consume, IsDrop, IsClaim
  <2>3. with \in WorkSet
    BY <2>1 DEF WorkSet, None
  <2>4. without \in WorkSet
    BY <2>1 DEF WorkSet, None
  <2> HIDE DEF with, without
  <2> QED
    BY <1>3, <2>2, <2>3, <2>4 DEF IsDrop, IsClaim
<1>4. CASE IsDrop(e)
  <2>1. ~IsClaim(e) /\ e.type = "agent/inbox/spliced"
    BY <1>4 DEF IsDrop, IsClaim
  <2>2. consume(w, e) = [w EXCEPT !.droppedUnrun = TRUE]
    BY <1>4, <2>1 DEF consume
  <2> QED
    BY <1>4, <2>1, <2>2 DEF WorkSet
<1>5. CASE IsClaim(e)
  <2>1. ~IsDrop(e) /\ e.type = "agent/inbox/spliced"
    BY <1>5 DEF IsDrop, IsClaim
  <2>2. consume(w, e) = [w EXCEPT !.claimed = IF w.open = None THEN @
                                              ELSE @ \cup {w.open}]
    BY <1>5, <2>1 DEF consume
  <2> QED
    BY <1>5, <2>1, <2>2 DEF WorkSet
<1>6. CASE /\ e.type \notin {"turn/start", "step/start", "turn/end"}
           /\ ~IsDrop(e) /\ ~IsClaim(e)
  <2>1. consume(w, e) = w
    BY <1>6 DEF consume
  <2> QED
    BY <1>6, <2>1
<1> QED
  BY <1>1, <1>2, <1>3, <1>4, <1>5, <1>6

\* ... and of the end of a turn.
LEMMA ConsumeEnd ==
  ASSUME NEW w \in WorkSet, NEW e \in LogEvents, e.type = "turn/end", NEW works,
         works <=> e.turn \in w.stepped \/ (e.turn \in w.claimed /\ e.reason # "completed")
  PROVE  /\ consume(w, e).open = None
         /\ consume(w, e).stepped \subseteq w.stepped
         /\ consume(w, e).claimed \subseteq w.claimed
         /\ works => consume(w, e).end = e.turn /\ ~consume(w, e).droppedUnrun
         /\ ~works => /\ consume(w, e).end = w.end
                      /\ consume(w, e).droppedUnrun = w.droppedUnrun
<1> DEFINE with == [w EXCEPT !.open = None, !.end = e.turn, !.droppedUnrun = FALSE,
                             !.stepped = @ \ {e.turn},
                             !.claimed = IF e.turn \in w.stepped THEN @
                                         ELSE @ \ {e.turn}]
           without == [w EXCEPT !.open = None, !.claimed = @ \ {e.turn}]
<1>1. /\ works => consume(w, e) = with
      /\ ~works => consume(w, e) = without
  BY DEF consume, IsDrop, IsClaim, accountsForClaim
<1>2. /\ with.open = None /\ with.stepped \subseteq w.stepped
      /\ with.claimed \subseteq w.claimed /\ with.end = e.turn /\ ~with.droppedUnrun
  BY DEF WorkSet
<1>3. /\ without.open = None /\ without.stepped \subseteq w.stepped
      /\ without.claimed \subseteq w.claimed /\ without.end = w.end
      /\ without.droppedUnrun = w.droppedUnrun
  BY DEF WorkSet
<1> HIDE DEF with, without
<1> QED
  BY <1>1, <1>2, <1>3

\* What a log says of a turn: that a step of it began, that it claimed.
SteppedIn(l, t) == \E i \in 1..Len(l) : l[i].type = "step/start" /\ l[i].turn = t
ClaimedIn(l, t) == \E i \in 1..Len(l) : IsClaim(l[i]) /\ TurnOf(l, i) = t
Works(l, e) == /\ e.type = "turn/end"
               /\ \/ SteppedIn(l, e.turn)
                  \/ e.reason # "completed" /\ ClaimedIn(l, e.turn)

\* The pass knows what the log says of the open turn, and has the last ending
\* with work, with the drops behind it.
Begun(l) ==
  /\ \A t : SteppedIn(l, t) \/ ClaimedIn(l, t) => t \in 0..LastTurn(l)
  /\ \A i \in 1..Len(l) : l[i].type = "turn/end" =>
       /\ l[i].turn \in 0..LastTurn(l)
       /\ Tr(l).openTurn # None => l[i].turn # LastTurn(l)
Knows(l, w) ==
  /\ w \in WorkSet /\ w.open = Tr(l).openTurn
  /\ w.stepped \subseteq 0..LastTurn(l) /\ w.claimed \subseteq 0..LastTurn(l)
  /\ w.open # None => /\ w.open \in w.stepped <=> SteppedIn(l, w.open)
                      /\ w.open \in w.claimed <=> ClaimedIn(l, w.open)
LastWorked(l, w, p) ==
  /\ p \in 0..Len(l)
  /\ \A i \in 1..Len(l) : i > p => ~Works(l, l[i])
  /\ p = 0 => w.end = None
  /\ p # 0 => Works(l, l[p]) /\ w.end = l[p].turn
  /\ w.droppedUnrun <=> \E i \in 1..Len(l) : i > p /\ IsDrop(l[i])
WorkAgrees(l) ==
  Begun(l) /\ Knows(l, WorkOf(l)) /\ \E p : LastWorked(l, WorkOf(l), p)

\* The turn an event speaks of is the open one, and what it adds to what the
\* log says of turns.
LEMMA GrownWork ==
  ASSUME NEW l, NEW k, NEW e, Grown(l, k, e), Fits(l, e)
  PROVE  /\ WorkOf(k) = consume(WorkOf(l), e)
         /\ \A t : SteppedIn(k, t) <=>
              SteppedIn(l, t) \/ (e.type = "step/start" /\ e.turn = t)
         /\ \A t : ClaimedIn(k, t) <=>
              ClaimedIn(l, t) \/ (IsClaim(e) /\ LastTurn(l) = t)
         /\ e.type = "step/start" => e.turn = LastTurn(l) /\ Tr(l).openTurn # None
         /\ e.type = "turn/start" => e.turn = LastTurn(k)
         /\ IsClaim(e) => Tr(l).openTurn # None
         /\ Tr(l).openTurn \in {None, LastTurn(l)} /\ Tr(k).openTurn \in {None, LastTurn(k)}
<1> DEFINE n == Len(l) + 1
<1>1. /\ l \in Seq(LogEvents) /\ e \in LogEvents /\ Adds(l, k, e) /\ k = Append(l, e)
      /\ validateEvent(Tr(l), e) /\ LastTurn(k) = findLast(LastTurn(l), e)
  BY GrownReads DEF Adds
<1>2. /\ k[n] = e /\ TurnOf(k, n) = LastTurn(k)
      /\ \A i \in 1..Len(l) : k[i] = l[i] /\ TurnOf(k, i) = TurnOf(l, i)
      /\ \A i : i \in 1..Len(k) <=> i \in 1..Len(l) \/ i = n
  BY <1>1, LongerLog
<1> HIDE DEF n
<1>3. Tr(l).openTurn \in {None, LastTurn(l)} /\ Tr(k).openTurn \in {None, LastTurn(k)}
  BY LawfulAgrees DEF Grown
<1>4. WorkOf(k) = consume(WorkOf(l), e)
  BY <1>1, ConsumeAppend DEF WorkOf
<1>5. \A t : SteppedIn(k, t) <=>
        SteppedIn(l, t) \/ (e.type = "step/start" /\ e.turn = t)
  BY <1>2 DEF SteppedIn
<1>6. IsClaim(e) => Tr(l).openTurn # None /\ LastTurn(k) = LastTurn(l)
  BY <1>1 DEF Fits, findLast, IsClaim
<1>7. \A t : ClaimedIn(k, t) <=> ClaimedIn(l, t) \/ (IsClaim(e) /\ LastTurn(l) = t)
  BY <1>2, <1>6 DEF ClaimedIn
<1>8. e.type = "step/start" => e.turn = LastTurn(l) /\ Tr(l).openTurn # None
  <2> SUFFICES ASSUME e.type = "step/start"
               PROVE  e.turn = LastTurn(l) /\ Tr(l).openTurn # None
    OBVIOUS
  <2>1. Tr(l).openTurn = e.turn
    BY <1>1 DEF validateEvent
  <2>2. e.turn # None
    BY <1>1 DEF LogEvents, Number, None
  <2> QED
    BY <1>3, <2>1, <2>2
<1>9. e.type = "turn/start" => e.turn = LastTurn(k)
  BY <1>1 DEF findLast
<1> QED
  BY <1>3, <1>4, <1>5, <1>6, <1>7, <1>8, <1>9

\* Nothing more is said of a turn that has ended.
LEMMA BegunAppend ==
  ASSUME NEW l, NEW k, NEW e, Grown(l, k, e), Fits(l, e), Begun(l)
  PROVE  /\ Begun(k)
         /\ \A i \in 1..Len(l) : k[i] = l[i] /\ (Works(k, l[i]) <=> Works(l, l[i]))
<1> DEFINE n == Len(l) + 1
<1>1. l \in Seq(LogEvents) /\ e \in LogEvents /\ Adds(l, k, e)
  BY GrownReads
<1>2. /\ k[n] = e /\ \A i \in 1..Len(l) : k[i] = l[i]
      /\ \A i : i \in 1..Len(k) <=> i \in 1..Len(l) \/ i = n
  BY <1>1, LongerLog
<1> HIDE DEF n
<1>3. /\ \A t : SteppedIn(k, t) <=>
              SteppedIn(l, t) \/ (e.type = "step/start" /\ e.turn = t)
      /\ \A t : ClaimedIn(k, t) <=>
              ClaimedIn(l, t) \/ (IsClaim(e) /\ LastTurn(l) = t)
      /\ e.type = "step/start" => e.turn = LastTurn(l) /\ Tr(l).openTurn # None
      /\ IsClaim(e) => Tr(l).openTurn # None
  BY GrownWork
<1>4. /\ LastTurn(l) \in Nat /\ LastTurn(k) \in Nat
      /\ e.type = "turn/start" => LastTurn(k) = LastTurn(l) + 1
      /\ e.type # "turn/start" => LastTurn(k) = LastTurn(l)
      /\ e.type = "turn/end" => e.turn = LastTurn(l) /\ Tr(k).openTurn = None
      /\ e.type \notin {"turn/start", "turn/end"} => Tr(k).openTurn = Tr(l).openTurn
  BY GrownTurn
<1>5. /\ \A t : t \in 0..LastTurn(l) => t \in 0..LastTurn(k)
      /\ LastTurn(l) \in 0..LastTurn(k)
      /\ e.type = "turn/start" => \A t : t \in 0..LastTurn(l) => t # LastTurn(k)
  BY <1>4
<1>6. ASSUME NEW t, SteppedIn(k, t) \/ ClaimedIn(k, t) PROVE t \in 0..LastTurn(k)
  BY <1>3, <1>5, <1>6 DEF Begun
<1>7. ASSUME NEW i \in 1..Len(k), k[i].type = "turn/end"
      PROVE  /\ k[i].turn \in 0..LastTurn(k)
             /\ Tr(k).openTurn # None => k[i].turn # LastTurn(k)
  <2>1. CASE i = n
    BY <1>2, <1>4, <1>5, <1>7, <2>1
  <2>2. CASE i \in 1..Len(l)
    <3>1. /\ k[i] = l[i] /\ l[i].turn \in 0..LastTurn(l)
          /\ Tr(l).openTurn # None => l[i].turn # LastTurn(l)
      BY <1>2, <1>7, <2>2 DEF Begun
    <3>2. CASE e.type = "turn/start"
      BY <1>5, <3>1, <3>2
    <3>3. CASE e.type = "turn/end"
      BY <1>4, <1>5, <3>1, <3>3
    <3>4. CASE e.type \notin {"turn/start", "turn/end"}
      BY <1>4, <1>5, <3>1, <3>4
    <3> QED
      BY <3>2, <3>3, <3>4
  <2> QED
    BY <1>2, <2>1, <2>2
<1>8. ASSUME NEW i \in 1..Len(l) PROVE k[i] = l[i] /\ (Works(k, l[i]) <=> Works(l, l[i]))
  <2>1. CASE l[i].type # "turn/end"
    BY <1>2, <2>1 DEF Works
  <2>2. CASE l[i].type = "turn/end"
    <3>1. Tr(l).openTurn # None => l[i].turn # LastTurn(l)
      BY <2>2 DEF Begun
    <3>2. SteppedIn(k, l[i].turn) <=> SteppedIn(l, l[i].turn)
      BY <1>3, <3>1
    <3>3. ClaimedIn(k, l[i].turn) <=> ClaimedIn(l, l[i].turn)
      BY <1>3, <3>1
    <3> QED
      BY <1>2, <3>2, <3>3 DEF Works
  <2> QED
    BY <2>1, <2>2
<1> QED
  BY <1>6, <1>7, <1>8 DEF Begun

\* The pass keeps knowing what it must.
LEMMA KnowsAppend ==
  ASSUME NEW l, NEW k, NEW e, Grown(l, k, e), Fits(l, e), Begun(l), NEW w, Knows(l, w)
  PROVE  Knows(k, consume(w, e))
<1> DEFINE v == consume(w, e)
<1>1. e \in LogEvents /\ w \in WorkSet
  BY DEF Grown, Knows
<1>2. v \in WorkSet
  BY <1>1, ConsumeCases
<1>3. /\ \A t : SteppedIn(k, t) <=>
              SteppedIn(l, t) \/ (e.type = "step/start" /\ e.turn = t)
      /\ \A t : ClaimedIn(k, t) <=>
              ClaimedIn(l, t) \/ (IsClaim(e) /\ LastTurn(l) = t)
      /\ e.type = "step/start" => e.turn = LastTurn(l) /\ Tr(l).openTurn # None
      /\ e.type = "turn/start" => e.turn = LastTurn(k)
      /\ IsClaim(e) => Tr(l).openTurn # None
      /\ Tr(l).openTurn \in {None, LastTurn(l)}
  BY GrownWork
<1>4. /\ LastTurn(l) \in Nat /\ LastTurn(k) \in Nat
      /\ e.type = "turn/start" => LastTurn(k) = LastTurn(l) + 1 /\ Tr(k).openTurn = LastTurn(k)
      /\ e.type # "turn/start" => LastTurn(k) = LastTurn(l)
      /\ e.type = "turn/end" => e.turn = LastTurn(l) /\ Tr(k).openTurn = None
      /\ e.type \notin {"turn/start", "turn/end"} => Tr(k).openTurn = Tr(l).openTurn
  BY GrownTurn
<1>5. /\ w.open = Tr(l).openTurn
      /\ w.stepped \subseteq 0..LastTurn(l) /\ w.claimed \subseteq 0..LastTurn(l)
      /\ w.open # None => /\ w.open \in w.stepped <=> SteppedIn(l, w.open)
                          /\ w.open \in w.claimed <=> ClaimedIn(l, w.open)
  BY DEF Knows
<1>6. /\ 0..LastTurn(l) \subseteq 0..LastTurn(k) /\ LastTurn(l) \in 0..LastTurn(k)
      /\ e.type = "turn/start" => LastTurn(k) \notin 0..LastTurn(l)
  BY <1>4
<1> SUFFICES /\ v.open = Tr(k).openTurn
             /\ v.stepped \subseteq 0..LastTurn(k) /\ v.claimed \subseteq 0..LastTurn(k)
             /\ v.open # None => /\ v.open \in v.stepped <=> SteppedIn(k, v.open)
                                 /\ v.open \in v.claimed <=> ClaimedIn(k, v.open)
  BY <1>2 DEF Knows
<1>7. CASE e.type = "turn/start"
  <2>1. v.open = LastTurn(k) /\ v.stepped = w.stepped /\ v.claimed = w.claimed
    BY <1>1, <1>3, <1>7, ConsumeCases
  <2>2. ~SteppedIn(l, LastTurn(k)) /\ ~ClaimedIn(l, LastTurn(k))
    BY <1>6, <1>7 DEF Begun
  <2>3. ~IsClaim(e)
    BY <1>7 DEF IsClaim
  <2> HIDE DEF v
  <2>4. ~SteppedIn(k, LastTurn(k)) /\ ~ClaimedIn(k, LastTurn(k))
    BY <1>3, <1>7, <2>2, <2>3
  <2>5. LastTurn(k) \notin w.stepped /\ LastTurn(k) \notin w.claimed
    BY <1>5, <1>6, <1>7
  <2> QED
    BY <1>4, <1>5, <1>6, <1>7, <2>1, <2>4, <2>5
<1>8. CASE e.type = "step/start"
  <2>1. v.open = w.open /\ v.stepped = w.stepped \cup {e.turn} /\ v.claimed = w.claimed
    BY <1>1, <1>8, ConsumeCases
  <2>2. ~IsClaim(e)
    BY <1>8 DEF IsClaim
  <2> HIDE DEF v
  <2>3. e.turn = LastTurn(l) /\ w.open = LastTurn(l)
    BY <1>3, <1>5, <1>8
  <2> QED
    BY <1>3, <1>4, <1>5, <1>6, <1>8, <2>1, <2>2, <2>3
<1>9. CASE e.type = "turn/end"
  <2> DEFINE works == \/ e.turn \in w.stepped
                      \/ e.turn \in w.claimed /\ e.reason # "completed"
  <2>1. v.open = None /\ v.stepped \subseteq w.stepped /\ v.claimed \subseteq w.claimed
    BY <1>1, <1>9, ConsumeEnd
  <2> HIDE DEF v
  <2> QED
    BY <1>4, <1>5, <1>6, <1>9, <2>1
<1>10. CASE IsClaim(e)
  <2>1. w.open # None /\ w.open = LastTurn(l) /\ e.type \notin {"turn/start", "turn/end", "step/start"}
    BY <1>3, <1>5, <1>10 DEF IsClaim
  <2>2. v.open = w.open /\ v.stepped = w.stepped /\ v.claimed = w.claimed \cup {w.open}
    BY <1>1, <1>10, <2>1, ConsumeCases
  <2> HIDE DEF v
  <2> QED
    BY <1>3, <1>4, <1>5, <1>6, <1>10, <2>1, <2>2
<1>11. CASE ~IsClaim(e) /\ e.type \notin {"turn/start", "turn/end", "step/start"}
  <2>1. v.open = w.open /\ v.stepped = w.stepped /\ v.claimed = w.claimed
    <3>1. CASE IsDrop(e)
      BY <1>1, <3>1, ConsumeCases
    <3>2. CASE ~IsDrop(e)
      BY <1>1, <1>11, <3>2, ConsumeCases
    <3> QED
      BY <3>1, <3>2
  <2> HIDE DEF v
  <2> QED
    BY <1>3, <1>4, <1>5, <1>6, <1>11, <2>1
<1> QED
  BY <1>7, <1>8, <1>9, <1>10, <1>11

\* The ending the pass has is that of the last turn that worked.
LEMMA WorkAgreesAppend ==
  ASSUME NEW l, NEW k, NEW e, Grown(l, k, e), Fits(l, e), WorkAgrees(l)
  PROVE  WorkAgrees(k)
<1> DEFINE n == Len(l) + 1
           w == WorkOf(l)
           v == consume(w, e)
<1>1. /\ l \in Seq(LogEvents) /\ e \in LogEvents /\ Adds(l, k, e)
      /\ Begun(l) /\ Knows(l, w) /\ w \in WorkSet
  BY GrownReads DEF WorkAgrees, Knows
<1>2. /\ k[n] = e /\ Len(l) \in Nat /\ Len(k) = n
      /\ \A i : i \in 1..Len(k) <=> i \in 1..Len(l) \/ i = n
  BY <1>1, LongerLog
<1>3. /\ Begun(k)
      /\ \A i \in 1..Len(l) : k[i] = l[i] /\ (Works(k, l[i]) <=> Works(l, l[i]))
  BY <1>1, BegunAppend
<1>4. Knows(k, v)
  BY <1>1, KnowsAppend
<1>5. WorkOf(k) = v
  BY GrownWork
<1>6. PICK p : LastWorked(l, w, p)
  BY DEF WorkAgrees
<1>7. /\ p \in 0..Len(l) /\ (\A i \in 1..Len(l) : i > p => ~Works(l, l[i]))
      /\ p = 0 => w.end = None
      /\ p # 0 => Works(l, l[p]) /\ w.end = l[p].turn
      /\ w.droppedUnrun <=> \E i \in 1..Len(l) : i > p /\ IsDrop(l[i])
  BY <1>6 DEF LastWorked
<1>8. /\ n \in Nat /\ n > p /\ n # 0 /\ n \in 0..Len(k) /\ p \in 0..Len(k)
      /\ (p # 0 => p \in 1..Len(l)) /\ ~\E i \in 1..Len(k) : i > n
  BY <1>2, <1>7
<1>9. CASE e.type = "turn/end" /\ Works(k, e)
  <2> DEFINE works == \/ e.turn \in w.stepped
                      \/ e.turn \in w.claimed /\ e.reason # "completed"
  <2>1. works
    <3>1. e.turn = LastTurn(l) /\ Tr(l).openTurn # None
      BY <1>9, GrownTurn
    <3>2. Tr(l).openTurn = e.turn
      BY <3>1, GrownWork
    <3>3. SteppedIn(k, e.turn) <=> SteppedIn(l, e.turn)
      BY <1>9, GrownWork
    <3>4. ClaimedIn(k, e.turn) <=> ClaimedIn(l, e.turn)
      BY <1>9, GrownWork DEF IsClaim
    <3>5. /\ e.turn \in w.stepped <=> SteppedIn(l, e.turn)
          /\ e.turn \in w.claimed <=> ClaimedIn(l, e.turn)
      BY <1>1, <3>1, <3>2 DEF Knows
    <3> QED
      BY <1>9, <3>3, <3>4, <3>5 DEF Works
  <2>2. v.end = e.turn /\ ~v.droppedUnrun
    BY <1>1, <1>9, <2>1, ConsumeEnd
  <2> HIDE DEF n, v, works, w
  <2>3. LastWorked(k, v, n)
    BY <1>2, <1>8, <1>9, <2>2 DEF LastWorked
  <2> QED
    BY <1>3, <1>4, <1>5, <2>3 DEF WorkAgrees
<1>10. CASE ~Works(k, e)
  <2>1. v.end = w.end /\ (v.droppedUnrun <=> w.droppedUnrun \/ IsDrop(e))
    <3>1. CASE e.type = "turn/end"
      <4> DEFINE works == \/ e.turn \in w.stepped
                          \/ e.turn \in w.claimed /\ e.reason # "completed"
      <4>1. ~works
        <5>1. e.turn = LastTurn(l) /\ Tr(l).openTurn # None
          BY <3>1, GrownTurn
        <5>2. Tr(l).openTurn = e.turn
          BY <5>1, GrownWork
        <5>3. SteppedIn(k, e.turn) <=> SteppedIn(l, e.turn)
          BY <3>1, GrownWork
        <5>4. ClaimedIn(k, e.turn) <=> ClaimedIn(l, e.turn)
          BY <3>1, GrownWork DEF IsClaim
        <5>5. /\ e.turn \in w.stepped <=> SteppedIn(l, e.turn)
              /\ e.turn \in w.claimed <=> ClaimedIn(l, e.turn)
          BY <1>1, <5>1, <5>2 DEF Knows
        <5> QED
          BY <1>10, <3>1, <5>3, <5>4, <5>5 DEF Works
      <4>2. v.end = w.end /\ v.droppedUnrun = w.droppedUnrun
        BY <1>1, <3>1, <4>1, ConsumeEnd
      <4> QED
        BY <3>1, <4>2 DEF IsDrop
    <3>2. CASE IsDrop(e)
      BY <1>1, <3>2, ConsumeCases
    <3>3. CASE IsClaim(e)
      <4>1. w.open # None /\ ~IsDrop(e)
        BY <1>1, <3>3, GrownWork DEF Knows, IsDrop, IsClaim
      <4> QED
        BY <1>1, <3>3, <4>1, ConsumeCases
    <3>4. CASE e.type \in {"turn/start", "step/start"}
      BY <1>1, <3>4, ConsumeCases DEF IsDrop
    <3>5. CASE /\ e.type \notin {"turn/start", "step/start", "turn/end"}
               /\ ~IsDrop(e) /\ ~IsClaim(e)
      BY <1>1, <3>5, ConsumeCases
    <3> QED
      BY <3>1, <3>2, <3>3, <3>4, <3>5
  <2> HIDE DEF n, v, w
  <2>2. \A i \in 1..Len(k) : i > p => ~Works(k, k[i])
    BY <1>2, <1>3, <1>7, <1>10
  <2>3. p # 0 => Works(k, k[p]) /\ v.end = k[p].turn
    BY <1>3, <1>7, <1>8, <2>1
  <2>4. v.droppedUnrun <=> \E i \in 1..Len(k) : i > p /\ IsDrop(k[i])
    BY <1>2, <1>3, <1>7, <1>8, <2>1
  <2>5. LastWorked(k, v, p)
    BY <1>7, <1>8, <2>1, <2>2, <2>3, <2>4 DEF LastWorked
  <2> QED
    BY <1>3, <1>4, <1>5, <2>5 DEF WorkAgrees
<1>11. Works(k, e) => e.type = "turn/end"
  BY DEF Works
<1> QED
  BY <1>9, <1>10, <1>11

\* The pass agrees with the log it was made over.
LEMMA WorkAgreesWith ==
  ASSUME NEW l, Lawful(l), Placing(l)
  PROVE  WorkAgrees(l)
<1> DEFINE T == {n \in Nat : n <= Len(l) => WorkAgrees(Upto(l, n))}
<1>1. l \in Seq(LogEvents) /\ Len(l) \in Nat
  BY LawfulReads
<1>2. 0 \in T
  <2> DEFINE m == <<>>
  <2>1. Upto(l, 0) = m
    <3>1. 0 \in 0..Len(l)
      BY <1>1
    <3> QED
      BY <1>1, <3>1, PrefixOf
  <2>2. /\ Len(m) = 0 /\ WorkOf(m) = NoWork /\ Tr(m) = FreshTrace /\ LastTurn(m) = 0
    BY ConsumeEmpty, LawfulEmpty DEF WorkOf
  <2>3. 1..0 = {} /\ 0 \in 0..0
    OBVIOUS
  <2> HIDE DEF m
  <2>4. FreshTrace.openTurn = None
    BY DEF FreshTrace
  <2>5. /\ NoWork \in WorkSet /\ NoWork.open = None /\ NoWork.stepped = {}
        /\ NoWork.claimed = {} /\ NoWork.end = None /\ ~NoWork.droppedUnrun
    BY DEF NoWork, WorkSet, None
  <2>6. \A t : ~SteppedIn(m, t) /\ ~ClaimedIn(m, t)
    BY <2>2, <2>3 DEF SteppedIn, ClaimedIn
  <2>7. Begun(m)
    BY <2>2, <2>3, <2>6 DEF Begun
  <2>8. Knows(m, NoWork)
    BY <2>2, <2>4, <2>5 DEF Knows
  <2>9. LastWorked(m, NoWork, 0)
    BY <2>2, <2>3, <2>5 DEF LastWorked
  <2> QED
    BY <2>1, <2>2, <2>7, <2>8, <2>9 DEF WorkAgrees
<1>3. ASSUME NEW n \in T PROVE n + 1 \in T
  <2> SUFFICES ASSUME n + 1 <= Len(l) PROVE WorkAgrees(Upto(l, n + 1))
    OBVIOUS
  <2> DEFINE q == Upto(l, n + 1)
             k == Upto(l, n)
             e == l[n + 1]
  <2>1. /\ n \in Nat /\ n \in 0..Len(l) /\ n + 1 \in 0..Len(l) /\ n + 1 \in 1..Len(l)
        /\ n \in 0..(n + 1) /\ (n + 1) - 1 = n /\ WorkAgrees(k)
    BY <1>1
  <2>2. q \in Seq(LogEvents) /\ Len(q) = n + 1 /\ Upto(q, n) = k /\ q[n + 1] = e
    <3>1. n + 1 \in 1..(n + 1)
      BY <2>1
    <3> QED
      BY <1>1, <2>1, <3>1, PrefixOf
  <2>3. k \in Seq(LogEvents) /\ Len(k) = n /\ \A i \in 1..n : k[i] = l[i]
    BY <1>1, <2>1, PrefixOf
  <2>4. \A i \in 1..(n + 1) : q[i] = l[i]
    BY <1>1, <2>1, PrefixOf
  <2>5. e \in LogEvents
    BY <1>1, <2>1
  <2>6. Lawful(q) /\ Lawful(k)
    BY <2>1, LawfulPrefix
  <2>7. Fits(k, e)
    BY <2>1 DEF Placing
  <2> HIDE DEF q, k, e
  <2>8. q = Append(k, e)
    <3>1. /\ Append(k, e) \in Seq(LogEvents) /\ Len(Append(k, e)) = n + 1
          /\ Append(k, e)[n + 1] = e /\ \A i \in 1..n : Append(k, e)[i] = k[i]
      BY <2>3, <2>5, AppendProperties
    <3>2. \A i \in 1..n : i \in 1..(n + 1)
      BY <2>1
    <3>3. \A i \in 1..(n + 1) : i \in 1..n \/ i = n + 1
      BY <2>1
    <3>4. \A i \in 1..(n + 1) : q[i] = Append(k, e)[i]
      BY <2>2, <2>3, <2>4, <3>1, <3>2, <3>3
    <3> QED
      BY <2>2, <3>1, <3>4, SeqEqual
  <2>9. Grown(k, q, e)
    BY <2>5, <2>6, <2>8 DEF Grown, Adds
  <2> QED
    BY <2>1, <2>7, <2>9, WorkAgreesAppend DEF q
<1>4. T = Nat
  <2> HIDE DEF T
  <2>1. T \subseteq Nat
    BY DEF T
  <2> QED
    BY <1>2, <1>3, <2>1, NatSetInduction
<1>5. WorkAgrees(Upto(l, Len(l))) /\ Upto(l, Len(l)) = l
  <2>1. Len(l) \in 0..Len(l)
    BY <1>1
  <2> QED
    BY <1>1, <1>4, <2>1, PrefixOf
<1> QED
  BY <1>5

\* foldConsumedWork's single pass finds the last turn that did or took work, and
\* reports a drop exactly when one follows that turn, for every log the driver
\* can leave behind.
THEOREM ConsumedWorkCorrect == AgentSpec => []ConsumedWorkAgrees
<1>1. ASSUME LogInv, WorkInv PROVE ConsumedWorkAgrees
  <2>1. Lawful(log) /\ Placing(log) /\ Len(log) \in Nat
    BY <1>1, FineNow DEF Fine
  <2>2. WorkAgrees(log)
    BY <2>1, WorkAgreesWith
  <2> DEFINE w == WorkOf(log)
             P == {i \in 1..Len(log) : WorkedTurn(i)}
             Q == {0} \cup P
  <2>3. PICK p : LastWorked(log, w, p)
    BY <2>2 DEF WorkAgrees
  <2>4. w.droppedUnrun \in BOOLEAN
    BY <2>2 DEF WorkAgrees, Knows, WorkSet
  <2>5. foldConsumedWork(log) = [end |-> w.end, droppedUnrun |-> w.droppedUnrun]
    BY DEF foldConsumedWork, WorkOf
  <2> HIDE DEF w
  <2>6. \A i \in 1..Len(log) : WorkedTurn(i) <=> Works(log, log[i])
    <3>1. \A t : SteppedIn(log, t) <=> \E j \in Positions("step/start") : log[j].turn = t
      BY <1>1, Named DEF SteppedIn
    <3>2. \A t : ClaimedIn(log, t) <=> \E j \in Claims : TurnAt(j) = t
      BY <1>1, Named DEF ClaimedIn
    <3> QED
      BY <3>1, <3>2 DEF WorkedTurn, Works
  <2>7. /\ p \in 0..Len(log) /\ (\A i \in 1..Len(log) : i > p => ~Works(log, log[i]))
        /\ p = 0 => w.end = None
        /\ p # 0 => Works(log, log[p]) /\ w.end = log[p].turn
        /\ w.droppedUnrun <=> \E i \in 1..Len(log) : IsDrop(log[i]) /\ i > p
    BY <2>3 DEF LastWorked
  <2>8. LastWork = p
    <3>1. Q \subseteq 0..Len(log) /\ Q # {} /\ p \in Q
      BY <2>1, <2>6, <2>7
    <3>2. \A i \in Q : i <= p
      BY <2>1, <2>6, <2>7
    <3> HIDE DEF Q
    <3> DEFINE z == Max(Q)
    <3>3. z \in Q /\ \A i \in Q : i <= z
      BY <2>1, <3>1, LastPosition
    <3> HIDE DEF z
    <3>4. z = p
      <4>1. z <= p /\ p <= z
        BY <3>1, <3>2, <3>3
      <4>2. z \in 0..Len(log) /\ p \in 0..Len(log)
        BY <3>1, <3>3
      <4> QED
        BY <2>1, <4>1, <4>2
    <3>5. LastWork = z
      BY DEF LastWork, Q, z
    <3> QED
      BY <3>4, <3>5
  <2>9. w.end = IF LastWork = 0 THEN None ELSE log[LastWork].turn
    BY <2>7, <2>8
  <2>10. w.droppedUnrun = \E i \in 1..Len(log) : IsDrop(log[i]) /\ i > LastWork
    BY <2>4, <2>7, <2>8
  <2> QED
    BY <2>5, <2>9, <2>10 DEF ConsumedWorkAgrees
<1> QED
  BY <1>1, WorkHolds, PTL
=============================================================================
