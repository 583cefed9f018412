--------------------------- MODULE ScheduleProofs ---------------------------
(***************************************************************************)
(* The reminders of one agent for any rules, horizon, longest timer and    *)
(* mixes of inputs: who runs when, and what is left to wake the owner;     *)
(* then what the log replays to, that no reminder is repeated without      *)
(* need, and that what is told agrees with the durable log.                *)
(***************************************************************************)
EXTENDS Schedule, SequenceTheorems, FiniteSetTheorems, WellFoundedInduction,
        TLAPS

\* A drive or call past the start of its transaction.
DriveSteps  == {"preflight", "delivered", "declined", "barrier"}
DriveInside == run \in DriveSteps
CallInside  == call.step \in {"preflight", "barrier"}

\* A queue that holds a drive in progress and a call at a step, and nothing else.
InStep(queue, progress, step) ==
  LET driving == progress \in DriveSteps \cup {"queued"}
      calling == step # "none"
  IN  /\ ~driving /\ ~calling => queue = <<>>
      /\ driving /\ ~calling => queue = <<"drive">>
      /\ ~driving /\ calling => queue = <<"call">>
      /\ driving /\ calling => queue \in {<<"drive", "call">>, <<"call", "drive">>}

DriveFirst(queue) == queue \in {<<"drive">>, <<"drive", "call">>}
CallFirst(queue)  == queue \in {<<"call">>, <<"call", "drive">>}

ChainOK ==
  /\ InStep(chain, run, call.step)
  /\ DriveInside => DriveFirst(chain)
  /\ CallInside => CallFirst(chain)

\* The transactions of one agent do not overlap: between its preflight and its
\* barrier neither a drive nor a management call meets the other.
OneTransaction == ~(DriveInside /\ CallInside)

IInv == TypeOK /\ ChainOK /\ TriggerKept
-----------------------------------------------------------------------------
\* Joining a queue of one.
LEMMA AppendOne == ASSUME NEW a, NEW b PROVE Append(<<a>>, b) = <<a, b>>
<1> DEFINE s == Append(<<a>>, b)
           t == <<a, b>>
<1>1. <<a>> \in Seq({a, b}) /\ t \in Seq({a, b})
  OBVIOUS
<1>2. Len(<<a>>) = 1 /\ Len(t) = 2
  OBVIOUS
<1>3. s \in Seq({a, b}) /\ Len(s) = 2
  BY <1>1, <1>2
<1>4. s[1] = a /\ s[2] = b /\ t[1] = a /\ t[2] = b
  BY <1>1, <1>2
<1>5. \A i \in 1 .. 2 : i = 1 \/ i = 2
  OBVIOUS
<1> HIDE DEF s, t
<1>6. Len(s) = Len(t) /\ \A i \in 1 .. Len(s) : s[i] = t[i]
  BY <1>2, <1>3, <1>4, <1>5
<1>7. s = t
  BY <1>1, <1>3, <1>6, SeqEqual
<1> QED BY <1>7 DEF s, t

\* What joining and leaving make of the four queues.
LEMMA ChainFacts ==
  /\ Append(<<>>, "drive") = <<"drive">>
  /\ Append(<<>>, "call") = <<"call">>
  /\ Append(<<"call">>, "drive") = <<"call", "drive">>
  /\ Append(<<"drive">>, "call") = <<"drive", "call">>
  /\ Tail(<<"drive">>) = <<>> /\ Tail(<<"call">>) = <<>>
  /\ Tail(<<"drive", "call">>) = <<"call">>
  /\ Tail(<<"call", "drive">>) = <<"drive">>
  /\ Head(<<"drive">>) = "drive" /\ Head(<<"call">>) = "call"
  /\ Head(<<"drive", "call">>) = "drive" /\ Head(<<"call", "drive">>) = "call"
<1>1. Append(<<>>, "drive") = <<"drive">> /\ Append(<<>>, "call") = <<"call">>
  OBVIOUS
<1>2. Append(<<"call">>, "drive") = <<"call", "drive">>
  BY AppendOne
<1>3. Append(<<"drive">>, "call") = <<"drive", "call">>
  BY AppendOne
<1>4. Tail(<<"drive">>) = <<>> /\ Tail(<<"call">>) = <<>>
  OBVIOUS
<1>5. Tail(<<"drive", "call">>) = <<"call">>
  OBVIOUS
<1>6. Tail(<<"call", "drive">>) = <<"drive">>
  OBVIOUS
<1>7. /\ Head(<<"drive">>) = "drive" /\ Head(<<"call">>) = "call"
      /\ Head(<<"drive", "call">>) = "drive" /\ Head(<<"call", "drive">>) = "call"
  OBVIOUS
<1> QED BY <1>1, <1>2, <1>3, <1>4, <1>5, <1>6, <1>7

\* Every queue of the two is a sequence of transactions.
LEMMA ChainTyped ==
  ASSUME NEW queue, NEW progress, NEW step, InStep(queue, progress, step)
  PROVE  queue \in Seq({"drive", "call"})
<1>1. /\ <<>> \in Seq({"drive", "call"})
      /\ <<"drive">> \in Seq({"drive", "call"})
      /\ <<"call">> \in Seq({"drive", "call"})
      /\ <<"drive", "call">> \in Seq({"drive", "call"})
      /\ <<"call", "drive">> \in Seq({"drive", "call"})
  OBVIOUS
<1> QED BY <1>1 DEF InStep

\* requestDrive keeps the queue in step with the owner's run, given a queue
\* that is in step with the call as it will be.
LEMMA RequestChain ==
  ASSUME TypeOK, NEW queue, NEW step, InStep(queue, run, step), requestDrive(queue)
  PROVE  /\ InStep(chain', run', step)
         /\ DriveInside' <=> DriveInside
         /\ DriveInside => chain' = queue
         /\ CallFirst(queue) => CallFirst(chain')
<1>1. CASE run = "none" /\ run' = "queued" /\ chain' = Append(queue, "drive")
  <2>1. CASE queue = <<>> /\ step = "none"
    BY <1>1, <2>1, ChainFacts DEF InStep, DriveInside, DriveSteps, CallFirst
  <2>2. CASE queue = <<"call">> /\ step # "none"
    BY <1>1, <2>2, ChainFacts DEF InStep, DriveInside, DriveSteps, CallFirst
  <2> QED BY <1>1, <2>1, <2>2 DEF InStep, DriveSteps
<1>2. CASE run' = run /\ chain' = queue
  BY <1>2 DEF DriveInside
<1> QED BY <1>1, <1>2 DEF requestDrive

\* requestDrive leaves the owner with a trigger, or out of the watch.
LEMMA RequestTrigger ==
  ASSUME TypeOK, NEW queue, requestDrive(queue)
  PROVE  /\ timer' \in Off .. MaxDelay /\ run' \in Runs /\ requested' \in BOOLEAN
         /\ status = "live" /\ ~faulted =>
              run' = "queued" \/ (requested' /\ run' # "none")
<1>1. timer' \in Off .. MaxDelay
  BY BoundsAssumption DEF requestDrive, TypeOK, Off
<1>2. run' \in Runs
  BY DEF requestDrive, TypeOK, Runs
<1>3. requested' \in BOOLEAN
  BY DEF requestDrive, TypeOK
<1>4. status = "live" /\ ~faulted => run' = "queued" \/ (requested' /\ run' # "none")
  BY DEF requestDrive, TypeOK
<1> QED BY <1>1, <1>2, <1>3, <1>4

\* Every action keeps the queue in step; it moves on only for the one in front.
LEMMA ChainStep == ASSUME IInv, [Next]_vars PROVE ChainOK'
<1> USE ChainFacts DEF DriveInside, CallInside, DriveSteps, DriveFirst, CallFirst,
                      Drives, Calls, Returns, Answers, NoCall,
                      owner, agent, disk, manager, Elsewhere
<1> TypeOK /\ ChainOK
  BY DEF IInv
<1>1. CASE Tick
  BY <1>1 DEF Tick, ChainOK, InStep, TypeOK
<1>2. CASE ClockJumps
  BY <1>2 DEF ClockJumps, ChainOK, InStep, TypeOK
<1>3. CASE TimerFires
  <2>1. requestDrive(chain) /\ call' = call
    BY <1>3 DEF TimerFires
  <2> QED BY <2>1, RequestChain DEF ChainOK
<1>4. CASE IdleReached
  <2>1. requestDrive(chain) /\ call' = call
    BY <1>4 DEF IdleReached
  <2> QED BY <2>1, RequestChain DEF ChainOK
<1>5. CASE \E kind \in {"running", "job"} : StartActivity(kind)
  BY <1>5 DEF StartActivity, ChainOK, InStep, TypeOK
<1>6. CASE EndTurn
  <2>1. CASE requestDrive(chain)
    BY <1>6, <2>1, RequestChain DEF EndTurn, ChainOK
  <2>2. CASE UNCHANGED <<timer, run, requested, chain>>
    BY <1>6, <2>2 DEF EndTurn, ChainOK
  <2> QED BY <1>6, <2>1, <2>2 DEF EndTurn
<1>7. CASE EndMaintenance
  BY <1>7 DEF EndMaintenance, ChainOK, InStep, TypeOK
<1>8. CASE DriveStarts
  BY <1>8 DEF DriveStarts, ChainOK, InStep, TypeOK
<1>9. CASE DriveFlushFails
  BY <1>9 DEF DriveFlushFails, ChainOK, InStep, TypeOK
<1>10. CASE PreflightStops
  BY <1>10 DEF PreflightStops, ChainOK, InStep, TypeOK
<1>11. CASE NothingDue
  BY <1>11 DEF NothingDue, ChainOK, InStep, TypeOK
<1>12. CASE AgentBusy
  BY <1>12 DEF AgentBusy, ChainOK, InStep, TypeOK
<1>13. CASE \E t \in Instants : JobWaits(t) \/ JobDelivers(t)
  BY <1>13 DEF JobWaits, JobDelivers, Claims, ChainOK, InStep, TypeOK
<1>14. CASE \E t \in Instants : FollowupFails(t) \/ JobFaults(t)
  BY <1>14 DEF FollowupFails, JobFaults, Claims, ChainOK, InStep, TypeOK
<1>15. CASE MaintenanceReturns
  BY <1>15 DEF MaintenanceReturns, ChainOK, InStep, TypeOK
<1>16. CASE DispatchStored
  BY <1>16 DEF DispatchStored, ChainOK, InStep, TypeOK
<1>17. CASE RunContinues
  BY <1>17 DEF RunContinues, ChainOK, InStep, TypeOK
<1>18. CASE retire
  BY <1>18 DEF retire, ChainOK, InStep, TypeOK
<1>19. CASE dispose
  BY <1>19 DEF dispose, ChainOK, InStep, TypeOK
<1>20. CASE Disposed
  BY <1>20 DEF Disposed, ChainOK, InStep, TypeOK
<1>21. CASE \E op, input : Call(op, input)
  <2>1. call.step = "none" /\ call'.step = "queued" /\ chain' = Append(chain, "call")
    BY <1>21 DEF Call
  <2>2. run' = run
    BY <1>21 DEF Call
  <2>3. CASE chain = <<>>
    BY <2>1, <2>2, <2>3 DEF ChainOK, InStep
  <2>4. CASE chain = <<"drive">>
    BY <2>1, <2>2, <2>4 DEF ChainOK, InStep
  <2> QED BY <2>1, <2>3, <2>4 DEF ChainOK, InStep
<1>22. CASE AbortCall
  BY <1>22 DEF AbortCall, ChainOK, InStep, TypeOK
<1>23. CASE CallStarts
  <2>1. CASE call'.step = "none" /\ chain' = Tail(chain)
    BY <1>23, <2>1 DEF CallStarts, ChainOK, InStep
  <2>2. CASE call' = [call EXCEPT !.step = "preflight"] /\ chain' = chain
    BY <1>23, <2>2 DEF CallStarts, ChainOK, InStep, TypeOK
  <2> QED BY <1>23, <2>1, <2>2 DEF CallStarts
<1>24. CASE CallFlushFails
  BY <1>24 DEF CallFlushFails, ChainOK, InStep, TypeOK
<1>25. CASE \E value, failures : CallEnds(value, failures)
  <2>0. PICK value, failures : CallEnds(value, failures)
    BY <1>25
  <2>1. CallInside /\ requestDrive(Tail(chain)) /\ call'.step = "none"
    BY <2>0 DEF CallEnds
  <2>2. InStep(Tail(chain), run, "none") /\ ~DriveInside
    BY <2>1 DEF ChainOK, InStep
  <2> QED BY <2>1, <2>2, RequestChain DEF ChainOK
<1>26. CASE \E e, id : CallAppends(e, id)
  <2>0. PICK e, id : CallAppends(e, id)
    BY <1>26
  <2>1. CallInside /\ requestDrive(chain)
    BY <2>0 DEF CallAppends
  <2>2. call'.step = "barrier"
    BY <2>0 DEF CallAppends, TypeOK
  <2>3. InStep(chain, run, "barrier")
    BY <2>1 DEF ChainOK, InStep
  <2> QED BY <2>1, <2>2, <2>3, RequestChain DEF ChainOK
<1>27. CASE CallStored
  <2>1. CallInside /\ requestDrive(Tail(chain)) /\ call'.step = "none"
    BY <1>27 DEF CallStored
  <2>2. InStep(Tail(chain), run, "none") /\ ~DriveInside
    BY <2>1 DEF ChainOK, InStep
  <2> QED BY <2>1, <2>2, RequestChain DEF ChainOK
<1>28. CASE CrashAndResume
  BY <1>28 DEF CrashAndResume, ChainOK, InStep, TypeOK
<1>29. CASE UNCHANGED vars
  BY <1>29 DEF vars, ChainOK, InStep, TypeOK
<1> QED
  BY <1>1, <1>2, <1>3, <1>4, <1>5, <1>6, <1>7, <1>8, <1>9, <1>10, <1>11, <1>12, <1>13, <1>14, <1>15, <1>16, <1>17, <1>18, <1>19, <1>20, <1>21, <1>22, <1>23, <1>24, <1>25, <1>26, <1>27, <1>28, <1>29
  DEF Next, Progress, Driver, Manager, Failure, Input, List, Create, Delete

\* Every action keeps the control variables within their types.
LEMMA TypeStep == ASSUME IInv, [Next]_vars PROVE TypeOK'
<1> USE DEF Drives, Calls, Returns, Answers, NoCall, owner, agent, disk, manager,
            Elsewhere
<1> TypeOK
  BY DEF IInv
<1>0. Off \in Off .. MaxDelay /\ \A d \in 1 .. MaxDelay : d \in Off .. MaxDelay
  BY BoundsAssumption DEF Off
<1>1. chain' \in Seq({"drive", "call"})
  BY ChainStep, ChainTyped DEF ChainOK
<1>2. CASE Tick
  BY <1>1, <1>2, BoundsAssumption DEF Tick, TypeOK, Off
<1>3. CASE ClockJumps
  BY <1>1, <1>3 DEF ClockJumps, TypeOK
<1>4. CASE TimerFires
  BY <1>1, <1>4, RequestTrigger DEF TimerFires, TypeOK
<1>5. CASE IdleReached
  BY <1>1, <1>5, RequestTrigger DEF IdleReached, TypeOK
<1>6. CASE \E kind \in {"running", "job"} : StartActivity(kind)
  BY <1>1, <1>6 DEF StartActivity, TypeOK
<1>7. CASE EndTurn
  BY <1>1, <1>7, RequestTrigger DEF EndTurn, TypeOK
<1>8. CASE EndMaintenance
  BY <1>1, <1>8 DEF EndMaintenance, TypeOK
<1>9. CASE DriveStarts
  BY <1>0, <1>1, <1>9 DEF DriveStarts, TypeOK, Runs
<1>10. CASE DriveFlushFails
  BY <1>1, <1>10 DEF DriveFlushFails, TypeOK, Runs
<1>11. CASE PreflightStops
  BY <1>1, <1>11 DEF PreflightStops, TypeOK, Runs
<1>12. CASE NothingDue
  BY <1>0, <1>1, <1>12 DEF NothingDue, arm, TypeOK, Runs
<1>13. CASE AgentBusy
  BY <1>1, <1>13 DEF AgentBusy, waitForIdle, TypeOK, Runs
<1>14. CASE \E t \in Instants : JobWaits(t) \/ JobDelivers(t)
  BY <1>0, <1>1, <1>14 DEF JobWaits, JobDelivers, Claims, arm, Queues, TypeOK, Runs
<1>15. CASE \E t \in Instants : FollowupFails(t) \/ JobFaults(t)
  BY <1>0, <1>1, <1>15 DEF FollowupFails, JobFaults, Claims, Queues, TypeOK, Runs
<1>16. CASE MaintenanceReturns
  BY <1>1, <1>16 DEF MaintenanceReturns, TypeOK, Runs
<1>17. CASE DispatchStored
  BY <1>0, <1>1, <1>17 DEF DispatchStored, TypeOK, Runs
<1>18. CASE RunContinues
  BY <1>1, <1>18 DEF RunContinues, TypeOK, Runs
<1>19. CASE retire
  BY <1>0, <1>1, <1>19 DEF retire, TypeOK, Runs
<1>20. CASE dispose
  BY <1>0, <1>1, <1>20 DEF dispose, TypeOK, Runs
<1>21. CASE Disposed
  BY <1>1, <1>21 DEF Disposed, TypeOK
<1>22. CASE \E op, input : Call(op, input)
  BY <1>1, <1>22 DEF Call, TypeOK
<1>23. CASE AbortCall
  BY <1>1, <1>23 DEF AbortCall, TypeOK
<1>24. CASE CallStarts
  BY <1>1, <1>24 DEF CallStarts, TypeOK
<1>25. CASE CallFlushFails
  BY <1>1, <1>25 DEF CallFlushFails, TypeOK
<1>26. CASE \E value, failures : CallEnds(value, failures)
  BY <1>1, <1>26, RequestTrigger DEF CallEnds, TypeOK
<1>27. CASE \E e, id : CallAppends(e, id)
  BY <1>1, <1>27, RequestTrigger DEF CallAppends, TypeOK
<1>28. CASE CallStored
  BY <1>1, <1>28, RequestTrigger DEF CallStored, TypeOK
<1>29. CASE CrashAndResume
  BY <1>0, <1>1, <1>29 DEF CrashAndResume, TypeOK, Runs
<1>30. CASE UNCHANGED vars
  BY <1>1, <1>30 DEF vars, TypeOK
<1> QED
  BY <1>2, <1>3, <1>4, <1>5, <1>6, <1>7, <1>8, <1>9, <1>10, <1>11, <1>12, <1>13, <1>14, <1>15, <1>16, <1>17, <1>18, <1>19, <1>20, <1>21, <1>22, <1>23, <1>24, <1>25, <1>26, <1>27, <1>28, <1>29, <1>30
  DEF Next, Progress, Driver, Manager, Failure, Input, List, Create, Delete

\* While the owner watches, only a drive takes its trigger away, and none ends
\* without a new one: an armed timer, an idle wait, or another request.
LEMMA TriggerStep == ASSUME IInv, [Next]_vars PROVE TriggerKept'
<1> USE DEF Drives, Returns, owner, agent, disk, manager, Elsewhere, Watching
<1> TypeOK /\ TriggerKept
  BY DEF IInv
<1>0. /\ log' = log => Active(log') = Active(log)
      /\ \A d \in 1 .. MaxDelay : d # Off
  BY BoundsAssumption DEF Off
<1>1. CASE Tick
  BY <1>0, <1>1 DEF Tick, Off, TriggerKept, TypeOK
<1>2. CASE ClockJumps
  BY <1>0, <1>2 DEF ClockJumps, TriggerKept, TypeOK
<1>3. CASE TimerFires
  BY <1>0, <1>3, RequestTrigger DEF TimerFires, TriggerKept, TypeOK
<1>4. CASE IdleReached
  BY <1>0, <1>4, RequestTrigger DEF IdleReached, TriggerKept, TypeOK
<1>5. CASE \E kind \in {"running", "job"} : StartActivity(kind)
  BY <1>0, <1>5 DEF StartActivity, TriggerKept, TypeOK
<1>6. CASE EndTurn
  BY <1>0, <1>6, RequestTrigger DEF EndTurn, TriggerKept, TypeOK
<1>7. CASE EndMaintenance
  BY <1>0, <1>7 DEF EndMaintenance, TriggerKept, TypeOK
<1>8. CASE DriveStarts
  BY <1>0, <1>8 DEF DriveStarts, TriggerKept, TypeOK
<1>9. CASE DriveFlushFails
  BY <1>0, <1>9 DEF DriveFlushFails, TriggerKept, TypeOK
<1>10. CASE PreflightStops
  BY <1>0, <1>10 DEF PreflightStops, TriggerKept, TypeOK
<1>11. CASE NothingDue
  BY <1>0, <1>11 DEF NothingDue, arm, TriggerKept, TypeOK
<1>12. CASE AgentBusy
  BY <1>0, <1>12 DEF AgentBusy, waitForIdle, TriggerKept, TypeOK
<1>13. CASE \E t \in Instants : JobWaits(t) \/ JobDelivers(t)
  BY <1>0, <1>13 DEF JobWaits, JobDelivers, Claims, arm, TriggerKept, TypeOK
<1>14. CASE \E t \in Instants : FollowupFails(t) \/ JobFaults(t)
  BY <1>0, <1>14 DEF FollowupFails, JobFaults, Claims, TriggerKept, TypeOK
<1>15. CASE MaintenanceReturns
  BY <1>0, <1>15 DEF MaintenanceReturns, TriggerKept, TypeOK
<1>16. CASE DispatchStored
  BY <1>0, <1>16 DEF DispatchStored, TriggerKept, TypeOK
<1>17. CASE RunContinues
  BY <1>0, <1>17 DEF RunContinues, Wanted, TriggerKept, TypeOK
<1>18. CASE retire
  BY <1>0, <1>18 DEF retire, Wanted, TriggerKept, TypeOK
<1>19. CASE dispose
  BY <1>0, <1>19 DEF dispose, TriggerKept, TypeOK
<1>20. CASE Disposed
  BY <1>0, <1>20 DEF Disposed, TriggerKept, TypeOK
<1>21. CASE \E op, input : Call(op, input)
  BY <1>0, <1>21 DEF Call, TriggerKept, TypeOK
<1>22. CASE AbortCall
  BY <1>0, <1>22 DEF AbortCall, TriggerKept, TypeOK
<1>23. CASE CallStarts
  BY <1>0, <1>23 DEF CallStarts, TriggerKept, TypeOK
<1>24. CASE CallFlushFails
  BY <1>0, <1>24 DEF CallFlushFails, TriggerKept, TypeOK
<1>25. CASE \E value, failures : CallEnds(value, failures)
  BY <1>0, <1>25, RequestTrigger DEF CallEnds, TriggerKept, TypeOK
<1>26. CASE \E e, id : CallAppends(e, id)
  BY <1>0, <1>26, RequestTrigger DEF CallAppends, TriggerKept, TypeOK
<1>27. CASE CallStored
  BY <1>0, <1>27, RequestTrigger DEF CallStored, TriggerKept, TypeOK
<1>28. CASE CrashAndResume
  BY <1>0, <1>28 DEF CrashAndResume, TriggerKept, TypeOK
<1>29. CASE UNCHANGED vars
  BY <1>0, <1>29 DEF vars, TriggerKept, TypeOK
<1> QED
  BY <1>1, <1>2, <1>3, <1>4, <1>5, <1>6, <1>7, <1>8, <1>9, <1>10, <1>11, <1>12, <1>13, <1>14, <1>15, <1>16, <1>17, <1>18, <1>19, <1>20, <1>21, <1>22, <1>23, <1>24, <1>25, <1>26, <1>27, <1>28, <1>29
  DEF Next, Progress, Driver, Manager, Failure, Input, List, Create, Delete

\* The owner starts with its first drive queued.
LEMMA InitInv == Init => IInv
<1> SUFFICES ASSUME Init PROVE IInv
  OBVIOUS
<1>1. ChainOK
  BY DEF Init, ChainOK, InStep, DriveInside, CallInside, DriveSteps, DriveFirst, NoCall
<1>2. TypeOK
  <2>1. chain \in Seq({"drive", "call"})
    BY <1>1, ChainTyped DEF ChainOK
  <2>2. timer \in Off .. MaxDelay
    BY BoundsAssumption DEF Init, Off
  <2> QED BY <2>1, <2>2 DEF Init, TypeOK, Runs, NoCall
<1>3. TriggerKept
  BY DEF Init, TriggerKept
<1> QED BY <1>1, <1>2, <1>3 DEF IInv

\* The invariant of every behaviour.
LEMMA Invariance == Spec => []IInv
<1>1. IInv /\ [Next]_vars => IInv'
  BY TypeStep, ChainStep, TriggerStep DEF IInv
<1> QED BY InitInv, <1>1, PTL DEF Spec

\* The control variables of owner, agent, queue and call keep their types.
THEOREM ScheduleTyped == Spec => []TypeOK
<1>1. IInv => TypeOK
  BY DEF IInv
<1> QED BY Invariance, <1>1, PTL

\* Transactions of one agent are exclusive (transaction.ts): no drive folds the
\* log and no call answers between the preflight and the barrier of another.
THEOREM TransactionsCorrect == Spec => []OneTransaction
<1>1. IInv => OneTransaction
  BY DEF IInv, ChainOK, OneTransaction, DriveFirst, CallFirst
<1> QED BY Invariance, <1>1, PTL

\* An owner that still watches has something that will wake it whenever records
\* are active, whatever races with its runs (requestDrive, arm, waitForIdle, retire).
THEOREM TriggerCorrect == Spec => []TriggerKept
<1>1. IInv => TriggerKept
  BY DEF IInv
<1> QED BY Invariance, <1>1, PTL
-----------------------------------------------------------------------------
(***************************************************************************)
(* The log.  Replay follows its definition; what replay accepts folds to   *)
(* records that are known, distinct and past what was dispatched of them.  *)
(***************************************************************************)
\* Induction over the naturals, for a property given as the set it holds on.
LEMMA NatSetInduction ==
  ASSUME NEW T, T \subseteq Nat, 0 \in T, \A n \in T : n + 1 \in T
  PROVE  T = Nat
<1> DEFINE U == Nat \ T
           R == OpToRel(<, Nat)
<1>1. SUFFICES ASSUME U # {} PROVE FALSE
  OBVIOUS
<1>2. \A y, z \in Nat : y < z => <<y, z>> \in R
  BY DEF OpToRel
<1>3. IsWellFoundedOn(R, Nat)
  BY NatLessThanWellFounded
<1>4. U \subseteq Nat
  OBVIOUS
<1> HIDE DEF R
<1>5. PICK x \in U : \A y \in U : ~(<<y, x>> \in R)
  <2> HIDE DEF U
  <2> QED
    BY <1>1, <1>4, <1>3, WFMin
<1>6. x \in Nat /\ x # 0
  BY <1>5
<1>7. x - 1 \in Nat /\ x - 1 < x /\ (x - 1) + 1 = x
  BY <1>6
<1>8. x - 1 \in T
  BY <1>5, <1>6, <1>7, <1>2
<1> QED
  BY <1>8, <1>7, <1>5

\* The replay of a record follows its definition along the log.
LEMMA ReplayedRuns ==
  ASSUME NEW record, NEW events, Len(events) \in Nat
  PROVE  \E f : /\ f = [n \in 0 .. Len(events) |->
                         IF n = 0 THEN record ELSE changed(f[n - 1], events[n])]
                /\ Replayed(record, events) = f[Len(events)]
<1> DEFINE Along(f, m) ==
      f = [n \in 0 .. m |-> IF n = 0 THEN record ELSE changed(f[n - 1], events[n])]
           T == {m \in Nat : \E f : Along(f, m)}
<1>1. 0 \in T
  <2>1. Along([n \in 0 .. 0 |-> record], 0)
    OBVIOUS
  <2> QED
    BY <2>1
<1>2. ASSUME NEW m \in T PROVE m + 1 \in T
  <2>1. PICK f : Along(f, m)
    BY <1>2
  <2> DEFINE g == [n \in 0 .. m + 1 |-> IF n <= m THEN f[n]
                                       ELSE changed(f[m], events[m + 1])]
  <2>2. \A n \in 0 .. m + 1 :
          g[n] = IF n = 0 THEN record ELSE changed(g[n - 1], events[n])
    BY <2>1
  <2>3. Along(g, m + 1)
    BY <2>2
  <2> HIDE DEF g, Along
  <2> QED
    BY <2>3
<1>3. T = Nat
  <2> HIDE DEF T
  <2>1. T \subseteq Nat
    BY DEF T
  <2> QED
    BY <1>1, <1>2, <2>1, NatSetInduction
<1>4. PICK f : Along(f, Len(events))
  BY <1>3
<1> DEFINE after == CHOOSE h : Along(h, Len(events))
<1>5. Replayed(record, events) = after[Len(events)]
  BY DEF Replayed
<1>6. Along(after, Len(events))
  <2> HIDE DEF Along
  <2> QED
    BY <1>4
<1> QED
  <2> HIDE DEF after
  <2> QED
    BY <1>5, <1>6

\* An appended event is replayed after all before it.
LEMMA ReplayedAppend ==
  ASSUME NEW S, NEW l \in Seq(S), NEW e \in S, NEW record
  PROVE  Replayed(record, Append(l, e)) = changed(Replayed(record, l), e)
<1>1. /\ Len(l) \in Nat /\ Len(Append(l, e)) = Len(l) + 1
      /\ Append(l, e)[Len(l) + 1] = e
      /\ \A i \in 1 .. Len(l) : Append(l, e)[i] = l[i]
  BY AppendProperties, LenProperties
<1> DEFINE m == Append(l, e)
<1> HIDE DEF m
<1>2. /\ Len(m) = Len(l) + 1 /\ m[Len(l) + 1] = e
      /\ \A i \in 1 .. Len(l) : m[i] = l[i]
  BY <1>1 DEF m
<1>3. PICK f : /\ f = [n \in 0 .. Len(l) |->
                         IF n = 0 THEN record ELSE changed(f[n - 1], l[n])]
               /\ Replayed(record, l) = f[Len(l)]
  BY <1>1, ReplayedRuns
<1>4. PICK g : /\ g = [n \in 0 .. Len(m) |->
                         IF n = 0 THEN record ELSE changed(g[n - 1], m[n])]
               /\ Replayed(record, m) = g[Len(m)]
  <2>1. Len(m) \in Nat
    BY <1>1, <1>2
  <2> QED
    BY <2>1, ReplayedRuns
<1> DEFINE T == {n \in Nat : n <= Len(l) => f[n] = g[n]}
<1>5. 0 \in T
  BY <1>1, <1>2, <1>3, <1>4
<1>6. ASSUME NEW n \in T PROVE n + 1 \in T
  BY <1>1, <1>2, <1>3, <1>4
<1>7. T = Nat
  <2>1. T \subseteq Nat
    OBVIOUS
  <2> HIDE DEF T
  <2> QED
    BY <1>5, <1>6, <2>1, NatSetInduction
<1>8. f[Len(l)] = g[Len(l)]
  BY <1>1, <1>7
<1>9. g[Len(l) + 1] = changed(g[Len(l)], e)
  BY <1>1, <1>2, <1>4
<1> QED
  BY <1>2, <1>3, <1>4, <1>8, <1>9 DEF m

\* What no event concerns stays as it was created.
LEMMA ReplayedUntouched ==
  ASSUME NEW S, NEW l \in Seq(S), NEW record,
         \A k \in 1 .. Len(l) : l[k].type \in {"create", "message"} \/ l[k].id # record.id
  PROVE  Replayed(record, l) = record
<1>1. Len(l) \in Nat
  BY LenProperties
<1>2. PICK f : /\ f = [n \in 0 .. Len(l) |->
                         IF n = 0 THEN record ELSE changed(f[n - 1], l[n])]
               /\ Replayed(record, l) = f[Len(l)]
  BY <1>1, ReplayedRuns
<1> DEFINE T == {n \in Nat : n <= Len(l) => f[n] = record}
<1>3. 0 \in T
  BY <1>1, <1>2
<1>4. ASSUME NEW n \in T PROVE n + 1 \in T
  <2> SUFFICES ASSUME n + 1 <= Len(l) PROVE f[n + 1] = record
    OBVIOUS
  <2>1. f[n] = record /\ f[n + 1] = changed(f[n], l[n + 1]) /\ n + 1 \in 1 .. Len(l)
    BY <1>1, <1>2
  <2> QED
    BY <2>1 DEF changed
<1>5. T = Nat
  <2>1. T \subseteq Nat
    OBVIOUS
  <2> HIDE DEF T
  <2> QED
    BY <1>3, <1>4, <2>1, NatSetInduction
<1>6. Len(l) \in T
  BY <1>1, <1>5
<1> QED
  BY <1>1, <1>2, <1>6

\* What the log is made of: the payload of each kind of event.
Schedules == [id : Nat, at : Nat, every : Nat]
Events ==
  [type : {"create"}, record : {r \in Schedules : r.at # Over}]
    \cup [type : {"delete"}, id : Nat]
    \cup [type : {"dispatch"}, id : Nat, acceptedAt : Nat]
    \cup [type : {"message"}, occurrences : SUBSET (Nat \X Nat), life : Nat]

\* What is left of the record created at position i.
Left(l, i) == Replayed(l[i].record, l)

\* Replay accepts each event after those before it.
Accepted(l) == \A i \in DOMAIN l : Accepts(SubSeq(l, 1, i - 1), l[i])

\* What folding an accepted log knows: no id twice, every event about a known
\* id, and each active record past all that was dispatched of it.
FoldOK(l) ==
  /\ \A i, j \in Creations(l) : l[i].record.id = l[j].record.id => i = j
  /\ \A i \in Creations(l) : /\ Left(l, i) \in Schedules
                             /\ Left(l, i).id = l[i].record.id
                             /\ Left(l, i).every = l[i].record.every
  /\ \A k \in DOMAIN l : l[k].type \in {"delete", "dispatch"} => l[k].id \in seenIds(l)
  /\ \A k \in DOMAIN l, i \in Creations(l) :
       l[k].type = "dispatch" /\ l[k].id = l[i].record.id /\ Left(l, i).at # Over
         => l[k].acceptedAt # 0 /\ Left(l, i).at > l[k].acceptedAt

\* The fields of each kind of event.
LEMMA EventShape ==
  ASSUME NEW e \in Events
  PROVE  /\ e.type \in {"create", "delete", "dispatch", "message"}
         /\ e.type = "create" => e.record \in Schedules /\ e.record.at # Over
         /\ e.type = "delete" => e.id \in Nat
         /\ e.type = "dispatch" => e.id \in Nat /\ e.acceptedAt \in Nat
         /\ e.type = "message" => /\ e.occurrences \in SUBSET (Nat \X Nat)
                                  /\ e.life \in Nat
<1>1. CASE e \in [type : {"create"}, record : {r \in Schedules : r.at # Over}]
  BY <1>1
<1>2. CASE e \in [type : {"delete"}, id : Nat]
  BY <1>2
<1>3. CASE e \in [type : {"dispatch"}, id : Nat, acceptedAt : Nat]
  BY <1>3
<1>4. CASE e \in [type : {"message"}, occurrences : SUBSET (Nat \X Nat), life : Nat]
  BY <1>4
<1> QED
  BY <1>1, <1>2, <1>3, <1>4 DEF Events

\* Quotient and remainder.
LEMMA Quotient ==
  ASSUME NEW a \in Nat, NEW b \in Nat \ {0}
  PROVE  /\ a \div b \in Nat /\ (a \div b) * b \in Nat
         /\ (a \div b) * b <= a /\ a < (a \div b) * b + b
OBVIOUS

\* The latest occurrence due at t lies between the target and t, the next after t.
LEMMA LatestBounds ==
  ASSUME NEW r \in Schedules, NEW t \in Nat, r.at <= t
  PROVE  /\ latest(r, t) \in Nat /\ r.at <= latest(r, t) /\ latest(r, t) <= t
         /\ r.every # 0 => t < latest(r, t) + r.every
<1>1. r.at \in Nat /\ r.every \in Nat
  BY DEF Schedules
<1>2. CASE r.every = 0
  BY <1>1, <1>2 DEF latest
<1>3. CASE r.every # 0
  <2> DEFINE q == ((t - r.at) \div r.every) * r.every
  <2>1. t - r.at \in Nat
    BY <1>1
  <2>2. q \in Nat /\ q <= t - r.at /\ t - r.at < q + r.every
    BY <1>1, <1>3, <2>1, Quotient
  <2>3. latest(r, t) = r.at + q
    BY <1>3 DEF latest
  <2> HIDE DEF q
  <2> QED
    BY <1>1, <2>2, <2>3
<1> QED
  BY <1>2, <1>3

\* What one event makes of a record: nothing, its end, or a target past it.
LEMMA ChangedFacts ==
  ASSUME NEW r \in Schedules, NEW e \in Events,
         e.type = "dispatch" /\ e.id = r.id /\ r.every # 0 => r.at <= e.acceptedAt
  PROVE  /\ changed(r, e) \in Schedules
         /\ changed(r, e).id = r.id /\ changed(r, e).every = r.every
         /\ e.type \in {"create", "message"} => changed(r, e) = r
         /\ e.type \in {"delete", "dispatch"} /\ e.id # r.id => changed(r, e) = r
         /\ e.type = "delete" /\ e.id = r.id => changed(r, e).at = Over
         /\ e.type = "dispatch" /\ e.id = r.id =>
              \/ changed(r, e).at = Over
              \/ r.every # 0 /\ changed(r, e).at > e.acceptedAt
<1>1. r.at \in Nat /\ r.every \in Nat /\ r.id \in Nat
  BY DEF Schedules
<1>2. \A n \in Nat : /\ [r EXCEPT !.at = n] \in Schedules
                     /\ [r EXCEPT !.at = n].id = r.id
                     /\ [r EXCEPT !.at = n].every = r.every
                     /\ [r EXCEPT !.at = n].at = n
  BY DEF Schedules
<1>3. /\ e.type \in {"create", "delete", "dispatch", "message"}
      /\ e.type = "dispatch" => e.id \in Nat /\ e.acceptedAt \in Nat
  BY EventShape
<1>4. CASE e.type \in {"create", "message"} \/ e.id # r.id
  BY <1>3, <1>4 DEF changed
<1>5. CASE e.type = "delete" /\ e.id = r.id
  <2>1. changed(r, e) = [r EXCEPT !.at = Over]
    BY <1>5 DEF changed
  <2> QED
    BY <1>2, <1>5, <2>1 DEF Over
<1>6. CASE e.type = "dispatch" /\ e.id = r.id
  <2> DEFINE next == latest(r, e.acceptedAt) + r.every
             left == IF r.every = 0 \/ next > Horizon THEN Over ELSE next
  <2>1. changed(r, e) = [r EXCEPT !.at = left]
    BY <1>6 DEF changed, dispatchedRecord
  <2>2. CASE r.every = 0 \/ next > Horizon
    <3>1. left = 0 /\ 0 \in Nat
      BY <2>2 DEF Over
    <3> HIDE DEF next, left
    <3> QED
      BY <1>2, <1>6, <2>1, <3>1 DEF Over
  <2>3. CASE r.every # 0 /\ ~(next > Horizon)
    <3>1. next \in Nat /\ next > e.acceptedAt
      BY <1>1, <1>3, <1>6, <2>3, LatestBounds
    <3>2. left = next
      BY <2>3
    <3> HIDE DEF next, left
    <3> QED
      BY <1>2, <1>6, <2>1, <2>3, <3>1, <3>2
  <2> QED
    BY <2>2, <2>3
<1> QED
  BY <1>3, <1>4, <1>5, <1>6

\* What appending an event makes of the log and of the records it creates.
LEMMA Appended ==
  ASSUME NEW l \in Seq(Events), NEW e \in Events, NEW m, m = Append(l, e)
  PROVE  /\ m \in Seq(Events) /\ Len(l) \in Nat /\ Len(m) = Len(l) + 1
         /\ DOMAIN l = 1 .. Len(l) /\ DOMAIN m = 1 .. Len(l) + 1
         /\ m[Len(l) + 1] = e
         /\ \A i \in DOMAIN l : m[i] = l[i] /\ l[i] \in Events
         /\ Creations(l) \subseteq DOMAIN l
         /\ \A i \in Creations(m) : i \in Creations(l) \/ (i = Len(l) + 1 /\ e.type = "create")
         /\ Creations(l) \subseteq Creations(m)
         /\ e.type = "create" => Len(l) + 1 \in Creations(m)
<1>1. /\ m \in Seq(Events) /\ Len(l) \in Nat /\ Len(m) = Len(l) + 1
      /\ DOMAIN l = 1 .. Len(l) /\ DOMAIN m = 1 .. Len(l) + 1
      /\ m[Len(l) + 1] = e
      /\ \A i \in DOMAIN l : m[i] = l[i] /\ l[i] \in Events
  <2>1. m \in Seq(Events) /\ Len(m) = Len(l) + 1
    BY AppendProperties
  <2>2. m[Len(l) + 1] = e /\ \A i \in 1 .. Len(l) : m[i] = l[i]
    BY AppendProperties
  <2>3. Len(l) \in Nat /\ DOMAIN l = 1 .. Len(l) /\ DOMAIN m = 1 .. Len(m)
    BY <2>1, LenProperties
  <2>4. \A i \in DOMAIN l : l[i] \in Events
    BY <2>3
  <2> QED
    BY <2>1, <2>2, <2>3, <2>4
<1>2. /\ Creations(l) \subseteq DOMAIN l
      /\ \A i \in Creations(m) : i \in Creations(l) \/ (i = Len(l) + 1 /\ e.type = "create")
      /\ Creations(l) \subseteq Creations(m)
      /\ e.type = "create" => Len(l) + 1 \in Creations(m)
  BY <1>1 DEF Creations
<1> QED
  BY <1>1, <1>2

\* What is left of a record, one event later.
LEMMA LeftAfter ==
  ASSUME NEW l \in Seq(Events), NEW e \in Events, NEW i \in Creations(l)
  PROVE  Left(Append(l, e), i) = changed(Left(l, i), e)
<1>1. i \in 1 .. Len(l)
  BY LenProperties DEF Creations
<1>2. Append(l, e)[i] = l[i]
  BY <1>1, AppendProperties
<1>3. Replayed(l[i].record, Append(l, e)) = changed(Replayed(l[i].record, l), e)
  BY ReplayedAppend
<1> QED
  BY <1>2, <1>3 DEF Left

\* A record with a new id is left as it was created.
LEMMA CreatedStays ==
  ASSUME NEW l \in Seq(Events), NEW e \in Events, FoldOK(l),
         e.type = "create", e.record.id \notin seenIds(l)
  PROVE  Left(Append(l, e), Len(l) + 1) = e.record
<1>1. Append(l, e)[Len(l) + 1] = e
  BY Appended
<1>2. Replayed(e.record, Append(l, e)) = Replayed(e.record, l)
  BY ReplayedAppend DEF changed
<1>3. \A k \in 1 .. Len(l) :
        l[k].type \in {"create", "message"} \/ l[k].id # e.record.id
  <2> TAKE k \in 1 .. Len(l)
  <2>1. k \in DOMAIN l /\ l[k] \in Events
    BY LenProperties
  <2>2. l[k].type \in {"create", "delete", "dispatch", "message"}
    BY <2>1, EventShape
  <2> QED
    BY <2>1, <2>2 DEF FoldOK
<1>4. Replayed(e.record, l) = e.record
  BY <1>3, ReplayedUntouched
<1> QED
  BY <1>1, <1>2, <1>4 DEF Left

\* The active records: those of the creations that are not over.
LEMMA ActiveFacts ==
  ASSUME NEW l
  PROVE  /\ \A i : i \in DOMAIN Active(l) <=> i \in Creations(l) /\ Left(l, i).at # Over
         /\ \A i \in DOMAIN Active(l) : Active(l)[i] = Left(l, i)
BY DEF Active, Left

\* What an accepted event about a known record finds.
LEMMA AcceptedHolds ==
  ASSUME NEW l, NEW e, Accepts(l, e), e.type \in {"delete", "dispatch"}
  PROVE  \E i \in Creations(l) :
           /\ Left(l, i).at # Over /\ Left(l, i).id = e.id
           /\ e.type = "dispatch" =>
                IF Left(l, i).every = 0 THEN e.acceptedAt = 0
                ELSE e.acceptedAt >= Left(l, i).at
<1>1. CASE e.type = "delete"
  BY <1>1, ActiveFacts DEF Accepts, Holds
<1>2. CASE e.type = "dispatch"
  <2>1. PICK i \in DOMAIN Active(l) :
          /\ Active(l)[i].id = e.id
          /\ IF Active(l)[i].every = 0 THEN e.acceptedAt = 0
             ELSE e.acceptedAt >= Active(l)[i].at
    BY <1>2 DEF Accepts
  <2> QED
    BY <2>1, ActiveFacts
<1> QED
  BY <1>1, <1>2

\* An event that replay accepts changes each record as it should.
LEMMA LeftAppended ==
  ASSUME NEW l \in Seq(Events), NEW e \in Events, FoldOK(l), Accepts(l, e),
         NEW i \in Creations(l)
  PROVE  LET r == Left(l, i)
             s == Left(Append(l, e), i)
         IN  /\ s \in Schedules /\ s.id = r.id /\ s.every = r.every
             /\ e.type \in {"create", "message"} => s = r
             /\ e.type \in {"delete", "dispatch"} /\ e.id # r.id => s = r
             /\ e.type = "delete" /\ e.id = r.id => s.at = Over
             /\ e.type = "dispatch" /\ e.id = r.id =>
                  \/ s.at = Over
                  \/ e.acceptedAt # 0 /\ s.at > e.acceptedAt
<1> DEFINE r == Left(l, i)
<1>1. r \in Schedules /\ r.id = l[i].record.id
  BY DEF FoldOK
<1>2. Left(Append(l, e), i) = changed(r, e)
  BY LeftAfter
<1>3. ASSUME e.type = "dispatch", e.id = r.id
      PROVE  IF r.every = 0 THEN e.acceptedAt = 0
             ELSE e.acceptedAt >= r.at /\ r.at # Over
  <2>1. PICK j \in Creations(l) :
           /\ Left(l, j).at # Over /\ Left(l, j).id = e.id
           /\ IF Left(l, j).every = 0 THEN e.acceptedAt = 0
              ELSE e.acceptedAt >= Left(l, j).at
    BY <1>3, AcceptedHolds
  <2>2. Left(l, j).id = l[j].record.id
    BY DEF FoldOK
  <2>3. j = i
    BY <1>1, <1>3, <2>1, <2>2 DEF FoldOK
  <2> QED
    BY <2>1, <2>3
<1>4. e.type = "dispatch" => e.acceptedAt \in Nat
  BY EventShape
<1>5. r.at \in Nat
  BY <1>1 DEF Schedules
<1>6. e.type = "dispatch" /\ e.id = r.id /\ r.every # 0 =>
        r.at <= e.acceptedAt /\ e.acceptedAt # 0
  BY <1>3, <1>4, <1>5 DEF Over
<1> HIDE DEF r
<1>7. /\ changed(r, e) \in Schedules
      /\ changed(r, e).id = r.id /\ changed(r, e).every = r.every
      /\ e.type \in {"create", "message"} => changed(r, e) = r
      /\ e.type \in {"delete", "dispatch"} /\ e.id # r.id => changed(r, e) = r
      /\ e.type = "delete" /\ e.id = r.id => changed(r, e).at = Over
      /\ e.type = "dispatch" /\ e.id = r.id =>
           \/ changed(r, e).at = Over
           \/ r.every # 0 /\ changed(r, e).at > e.acceptedAt
  BY <1>1, <1>6, ChangedFacts
<1> QED
  BY <1>2, <1>6, <1>7 DEF r

\* What folding knows survives each accepted event.
LEMMA FoldAppend ==
  ASSUME NEW l \in Seq(Events), NEW e \in Events, FoldOK(l), Accepts(l, e)
  PROVE  FoldOK(Append(l, e))
<1> DEFINE m == Append(l, e)
           n == Len(l) + 1
<1>1. /\ m \in Seq(Events) /\ Len(l) \in Nat /\ Len(m) = Len(l) + 1
      /\ DOMAIN l = 1 .. Len(l) /\ DOMAIN m = 1 .. Len(l) + 1
      /\ m[Len(l) + 1] = e
      /\ \A i \in DOMAIN l : m[i] = l[i] /\ l[i] \in Events
      /\ Creations(l) \subseteq DOMAIN l
      /\ \A i \in Creations(m) : i \in Creations(l) \/ (i = Len(l) + 1 /\ e.type = "create")
      /\ Creations(l) \subseteq Creations(m)
  BY Appended
<1>2. /\ e.type \in {"create", "delete", "dispatch", "message"}
      /\ e.type = "create" => e.record \in Schedules
  BY EventShape
<1>3. e.type = "create" => e.record.id \notin seenIds(l)
  BY DEF Accepts
<1>4. e.type = "create" => Left(m, n) = e.record
  BY <1>3, CreatedStays
<1>5. ASSUME NEW i \in Creations(l)
      PROVE  /\ Left(l, i) \in Schedules /\ Left(l, i).id = l[i].record.id
             /\ Left(l, i).every = l[i].record.every /\ l[i].record.id \in seenIds(l)
             /\ m[i].record = l[i].record
  BY <1>1, <1>5 DEF FoldOK, seenIds
<1> HIDE DEF m
<1>6. ASSUME NEW i \in Creations(l)
      PROVE  LET r == Left(l, i)
                 s == Left(m, i)
             IN  /\ s \in Schedules /\ s.id = r.id /\ s.every = r.every
                 /\ e.type \in {"create", "message"} => s = r
                 /\ e.type \in {"delete", "dispatch"} /\ e.id # r.id => s = r
                 /\ e.type = "delete" /\ e.id = r.id => s.at = Over
                 /\ e.type = "dispatch" /\ e.id = r.id =>
                      \/ s.at = Over
                      \/ e.acceptedAt # 0 /\ s.at > e.acceptedAt
  BY <1>6, LeftAppended DEF m
<1>7. \A i, j \in Creations(m) : m[i].record.id = m[j].record.id => i = j
  <2> SUFFICES ASSUME NEW i \in Creations(m), NEW j \in Creations(m),
                      m[i].record.id = m[j].record.id
               PROVE  i = j
    OBVIOUS
  <2>1. CASE i \in Creations(l) /\ j \in Creations(l)
    BY <1>5, <2>1 DEF FoldOK
  <2>2. CASE i = n /\ j \in Creations(l)
    BY <1>1, <1>3, <1>5, <2>2
  <2>3. CASE i \in Creations(l) /\ j = n
    BY <1>1, <1>3, <1>5, <2>3
  <2> QED
    BY <1>1, <2>1, <2>2, <2>3
<1>8. \A i \in Creations(m) : /\ Left(m, i) \in Schedules
                              /\ Left(m, i).id = m[i].record.id
                              /\ Left(m, i).every = m[i].record.every
  <2> TAKE i \in Creations(m)
  <2>1. CASE i \in Creations(l)
    BY <1>5, <1>6, <2>1
  <2>2. CASE i = n /\ e.type = "create"
    BY <1>1, <1>2, <1>4, <2>2
  <2> QED
    BY <1>1, <2>1, <2>2
<1>9. \A k \in DOMAIN m : m[k].type \in {"delete", "dispatch"} => m[k].id \in seenIds(m)
  <2>1. seenIds(l) \subseteq seenIds(m)
    BY <1>1, <1>5 DEF seenIds
  <2> SUFFICES ASSUME NEW k \in DOMAIN m, m[k].type \in {"delete", "dispatch"}
               PROVE  m[k].id \in seenIds(l)
    BY <2>1
  <2>2. CASE k \in DOMAIN l
    BY <1>1, <2>2 DEF FoldOK
  <2>3. CASE k = n
    <3>1. e.type \in {"delete", "dispatch"}
      BY <1>1, <2>3
    <3>2. PICK i \in Creations(l) : Left(l, i).id = e.id
      BY <3>1, AcceptedHolds
    <3> QED
      BY <1>1, <1>5, <2>3, <3>2
  <2> QED
    BY <1>1, <2>2, <2>3
<1>10. ASSUME NEW k \in DOMAIN m, NEW i \in Creations(m),
              m[k].type = "dispatch", m[k].id = m[i].record.id, Left(m, i).at # Over
       PROVE  m[k].acceptedAt # 0 /\ Left(m, i).at > m[k].acceptedAt
  <2>1. CASE k \in DOMAIN l /\ i \in Creations(l)
    <3>1. l[k].type = "dispatch" /\ l[k].id = l[i].record.id
      BY <1>1, <1>5, <1>10, <2>1
    <3>2. e.type = "delete" => e.id # Left(l, i).id
      BY <1>6, <1>10, <2>1
    <3>3. CASE Left(m, i) = Left(l, i)
      BY <1>1, <1>10, <2>1, <3>1, <3>3 DEF FoldOK
    <3>4. CASE e.type = "dispatch" /\ e.id = Left(l, i).id
      <4>1. PICK j \in Creations(l) :
               /\ Left(l, j).at # Over /\ Left(l, j).id = e.id
               /\ IF Left(l, j).every = 0 THEN e.acceptedAt = 0
                  ELSE e.acceptedAt >= Left(l, j).at
        BY <3>4, AcceptedHolds
      <4>2. j = i
        BY <1>5, <2>1, <3>4, <4>1 DEF FoldOK
      <4>3. l[k].acceptedAt # 0 /\ Left(l, i).at > l[k].acceptedAt
        BY <2>1, <3>1, <4>1, <4>2 DEF FoldOK
      <4>4. e.acceptedAt # 0 /\ Left(m, i).at > e.acceptedAt
        BY <1>6, <1>10, <2>1, <3>4
      <4>5. e.acceptedAt >= Left(l, i).at
        BY <4>1, <4>2, <4>4
      <4>6. /\ l[k].acceptedAt \in Nat /\ e.acceptedAt \in Nat
            /\ Left(l, i).at \in Nat /\ Left(m, i).at \in Nat
        <5>1. l[k] \in Events
          BY <1>1, <2>1
        <5>2. Left(l, i) \in Schedules /\ Left(m, i) \in Schedules
          BY <1>5, <1>6, <2>1
        <5> QED
          BY <3>1, <3>4, <5>1, <5>2, EventShape DEF Schedules
      <4>7. m[k] = l[k]
        BY <1>1, <2>1
      <4> QED
        BY <4>3, <4>4, <4>5, <4>6, <4>7
    <3> QED
      BY <1>2, <1>6, <2>1, <3>2, <3>3, <3>4
  <2>2. CASE k \in DOMAIN l /\ i = n
    <3>1. l[k].id \in seenIds(l) /\ m[k] = l[k]
      BY <1>1, <1>10, <2>2 DEF FoldOK
    <3>2. e.type = "create" /\ m[i] = e
      BY <1>1, <2>2
    <3> QED
      BY <1>3, <1>10, <3>1, <3>2
  <2>3. CASE k = n
    <3>1. e.type = "dispatch" /\ i \in Creations(l) /\ m[k] = e
      BY <1>1, <1>10, <2>3
    <3>2. e.id = Left(l, i).id
      BY <1>5, <1>10, <3>1
    <3> QED
      BY <1>6, <1>10, <3>1, <3>2
  <2> QED
    BY <1>1, <2>1, <2>2, <2>3
<1> HIDE DEF n
<1> QED
  BY <1>7, <1>8, <1>9, <1>10 DEF FoldOK, m

\* Prefixes of a sequence.
LEMMA PrefixFacts ==
  ASSUME NEW S, NEW l \in Seq(S), NEW n \in 0 .. Len(l)
  PROVE  /\ SubSeq(l, 1, n) \in Seq(S) /\ Len(SubSeq(l, 1, n)) = n
         /\ \A i \in 1 .. n : SubSeq(l, 1, n)[i] = l[i]
         /\ DOMAIN SubSeq(l, 1, n) = 1 .. n
<1>1. Len(l) \in Nat /\ \A i \in 1 .. Len(l) : l[i] \in S
  BY LenProperties
<1>2. \A i \in 1 .. n : l[i] \in S
  BY <1>1
<1>3. /\ SubSeq(l, 1, n) \in Seq(S)
      /\ Len(SubSeq(l, 1, n)) = IF 1 <= n THEN n - 1 + 1 ELSE 0
      /\ \A i \in 1 .. n - 1 + 1 : SubSeq(l, 1, n)[i] = l[1 + i - 1]
  BY <1>1, <1>2, SubSeqProperties
<1>4. n \in Nat /\ Len(SubSeq(l, 1, n)) = n
  BY <1>1, <1>3
<1>5. \A i \in 1 .. n : SubSeq(l, 1, n)[i] = l[i]
  BY <1>3, <1>4
<1> QED
  BY <1>3, <1>4, <1>5, LenProperties

\* A prefix of a prefix, the whole of a sequence, and one more of its elements.
LEMMA Prefixes ==
  ASSUME NEW S, NEW l \in Seq(S), NEW n \in 0 .. Len(l)
  PROVE  /\ \A k \in 0 .. n : SubSeq(SubSeq(l, 1, n), 1, k) = SubSeq(l, 1, k)
         /\ SubSeq(l, 1, Len(l)) = l
         /\ n < Len(l) => SubSeq(l, 1, n + 1) = Append(SubSeq(l, 1, n), l[n + 1])
<1>1. Len(l) \in Nat /\ \A i \in 1 .. Len(l) : l[i] \in S
  BY LenProperties
<1>2. ASSUME NEW k \in 0 .. n PROVE SubSeq(SubSeq(l, 1, n), 1, k) = SubSeq(l, 1, k)
  <2> DEFINE p == SubSeq(l, 1, n)
  <2>1. p \in Seq(S) /\ Len(p) = n /\ \A i \in 1 .. n : p[i] = l[i]
    BY PrefixFacts
  <2> HIDE DEF p
  <2>2. /\ SubSeq(p, 1, k) \in Seq(S) /\ Len(SubSeq(p, 1, k)) = k
        /\ \A i \in 1 .. k : SubSeq(p, 1, k)[i] = p[i]
    BY <2>1, PrefixFacts
  <2>3. k \in 0 .. Len(l)
    BY <1>1
  <2>4. /\ SubSeq(l, 1, k) \in Seq(S) /\ Len(SubSeq(l, 1, k)) = k
        /\ \A i \in 1 .. k : SubSeq(l, 1, k)[i] = l[i]
    BY <2>3, PrefixFacts
  <2>5. \A i \in 1 .. k : i \in 1 .. n
    BY <1>1
  <2>6. SubSeq(p, 1, k) = SubSeq(l, 1, k)
    BY <2>1, <2>2, <2>4, <2>5, SeqEqual
  <2> QED
    BY <2>6 DEF p
<1>3. SubSeq(l, 1, Len(l)) = l
  <2>1. Len(l) \in 0 .. Len(l)
    BY <1>1
  <2>2. /\ SubSeq(l, 1, Len(l)) \in Seq(S) /\ Len(SubSeq(l, 1, Len(l))) = Len(l)
        /\ \A i \in 1 .. Len(l) : SubSeq(l, 1, Len(l))[i] = l[i]
    BY <2>1, PrefixFacts
  <2> QED
    BY <2>2, SeqEqual
<1>4. ASSUME n < Len(l)
      PROVE  SubSeq(l, 1, n + 1) = Append(SubSeq(l, 1, n), l[n + 1])
  <2> DEFINE p == SubSeq(l, 1, n)
  <2>1. p \in Seq(S) /\ Len(p) = n /\ \A i \in 1 .. n : p[i] = l[i]
    BY PrefixFacts
  <2> HIDE DEF p
  <2>2. n + 1 \in 0 .. Len(l) /\ l[n + 1] \in S /\ n \in Nat
    BY <1>1, <1>4
  <2>3. /\ SubSeq(l, 1, n + 1) \in Seq(S) /\ Len(SubSeq(l, 1, n + 1)) = n + 1
        /\ \A i \in 1 .. n + 1 : SubSeq(l, 1, n + 1)[i] = l[i]
    BY <2>2, PrefixFacts
  <2>4. /\ Append(p, l[n + 1]) \in Seq(S) /\ Len(Append(p, l[n + 1])) = n + 1
        /\ \A i \in 1 .. n : Append(p, l[n + 1])[i] = p[i]
        /\ Append(p, l[n + 1])[n + 1] = l[n + 1]
    BY <2>1, <2>2, AppendProperties
  <2>5. \A i \in 1 .. n + 1 : i \in 1 .. n \/ i = n + 1
    BY <2>2
  <2>6. SubSeq(l, 1, n + 1) = Append(p, l[n + 1])
    BY <2>1, <2>3, <2>4, <2>5, SeqEqual
  <2> QED
    BY <2>6 DEF p
<1> QED
  BY <1>2, <1>3, <1>4

\* A prefix of an accepted log is accepted.
LEMMA AcceptedPrefix ==
  ASSUME NEW l \in Seq(Events), NEW n \in 0 .. Len(l), Accepted(l)
  PROVE  Accepted(SubSeq(l, 1, n))
<1>1. /\ DOMAIN SubSeq(l, 1, n) = 1 .. n
      /\ \A i \in 1 .. n : SubSeq(l, 1, n)[i] = l[i]
  BY PrefixFacts
<1>2. DOMAIN l = 1 .. Len(l) /\ Len(l) \in Nat
  BY LenProperties
<1>3. \A i \in 1 .. n : i - 1 \in 0 .. n /\ i \in DOMAIN l
  BY <1>2
<1>4. \A k \in 0 .. n : SubSeq(SubSeq(l, 1, n), 1, k) = SubSeq(l, 1, k)
  BY Prefixes
<1> QED
  BY <1>1, <1>3, <1>4 DEF Accepted

\* An accepted log followed by an accepted event is accepted.
LEMMA AcceptedAppend ==
  ASSUME NEW l \in Seq(Events), NEW e \in Events, Accepted(l), Accepts(l, e)
  PROVE  Accepted(Append(l, e))
<1> DEFINE m == Append(l, e)
<1>1. /\ m \in Seq(Events) /\ Len(l) \in Nat /\ Len(m) = Len(l) + 1
      /\ DOMAIN l = 1 .. Len(l) /\ DOMAIN m = 1 .. Len(l) + 1
      /\ m[Len(l) + 1] = e
      /\ \A i \in DOMAIN l : m[i] = l[i]
  BY Appended
<1> HIDE DEF m
<1>2. SubSeq(m, 1, Len(l)) = l
  <2>1. Len(l) \in 0 .. Len(m)
    BY <1>1
  <2>2. /\ SubSeq(m, 1, Len(l)) \in Seq(Events) /\ Len(SubSeq(m, 1, Len(l))) = Len(l)
        /\ \A i \in 1 .. Len(l) : SubSeq(m, 1, Len(l))[i] = m[i]
    BY <1>1, <2>1, PrefixFacts
  <2> QED
    BY <1>1, <2>2, SeqEqual
<1>3. ASSUME NEW k \in 0 .. Len(l) PROVE SubSeq(m, 1, k) = SubSeq(l, 1, k)
  <2>1. Len(l) \in 0 .. Len(m)
    BY <1>1
  <2>2. SubSeq(SubSeq(m, 1, Len(l)), 1, k) = SubSeq(m, 1, k)
    BY <1>1, <2>1, Prefixes
  <2> QED
    BY <1>2, <2>2
<1>4. SUFFICES ASSUME NEW i \in DOMAIN m PROVE Accepts(SubSeq(m, 1, i - 1), m[i])
  BY DEF Accepted, m
<1>5. CASE i \in DOMAIN l
  <2>1. i - 1 \in 0 .. Len(l)
    BY <1>1, <1>5
  <2> QED
    BY <1>1, <1>3, <1>5, <2>1 DEF Accepted
<1>6. CASE i = Len(l) + 1
  <2>1. i - 1 = Len(l)
    BY <1>1, <1>6
  <2> QED
    BY <1>1, <1>2, <1>6, <2>1
<1> QED
  BY <1>1, <1>5, <1>6

\* Every accepted log folds.
LEMMA AcceptedFolds ==
  ASSUME NEW l \in Seq(Events), Accepted(l)
  PROVE  FoldOK(l)
<1>1. Len(l) \in Nat /\ DOMAIN l = 1 .. Len(l) /\ \A i \in 1 .. Len(l) : l[i] \in Events
  BY LenProperties
<1> DEFINE T == {n \in Nat : n <= Len(l) => FoldOK(SubSeq(l, 1, n))}
<1>2. 0 \in T
  <2>1. 0 \in 0 .. Len(l)
    BY <1>1
  <2>2. DOMAIN SubSeq(l, 1, 0) = 1 .. 0
    BY <2>1, PrefixFacts
  <2>3. DOMAIN SubSeq(l, 1, 0) = {}
    BY <2>2
  <2>4. FoldOK(SubSeq(l, 1, 0))
    BY <2>3 DEF FoldOK, Creations
  <2> QED
    BY <2>4
<1>3. ASSUME NEW n \in T PROVE n + 1 \in T
  <2> SUFFICES ASSUME n + 1 <= Len(l) PROVE FoldOK(SubSeq(l, 1, n + 1))
    OBVIOUS
  <2> DEFINE p == SubSeq(l, 1, n)
  <2>1. n \in 0 .. Len(l) /\ n + 1 \in DOMAIN l /\ (n + 1) - 1 = n /\ n < Len(l)
    BY <1>1
  <2>2. FoldOK(p) /\ p \in Seq(Events) /\ l[n + 1] \in Events
    BY <1>1, <2>1, PrefixFacts
  <2>3. Accepts(p, l[n + 1])
    BY <2>1 DEF Accepted
  <2>4. SubSeq(l, 1, n + 1) = Append(p, l[n + 1])
    BY <2>1, Prefixes
  <2> HIDE DEF p
  <2> QED
    BY <2>2, <2>3, <2>4, FoldAppend
<1>4. T = Nat
  <2>1. T \subseteq Nat
    OBVIOUS
  <2> HIDE DEF T
  <2> QED
    BY <1>2, <1>3, <2>1, NatSetInduction
<1>5. Len(l) \in T
  BY <1>1, <1>4
<1>6. SubSeq(l, 1, Len(l)) = l
  <2>1. Len(l) \in 0 .. Len(l)
    BY <1>1
  <2> QED
    BY <2>1, Prefixes
<1>7. FoldOK(SubSeq(l, 1, Len(l)))
  BY <1>1, <1>5
<1> QED
  BY <1>6, <1>7

\* A set of positions in a sequence is finite.
LEMMA PositionsFinite ==
  ASSUME NEW S, NEW l \in Seq(S), NEW P, P \subseteq 1 .. Len(l)
  PROVE  IsFiniteSet(P) /\ Cardinality(P) \in Nat
<1>1. Len(l) \in Int /\ 1 \in Int
  BY LenProperties
<1>2. IsFiniteSet(1 .. Len(l))
  BY <1>1, FS_Interval
<1>3. IsFiniteSet(P)
  BY <1>2, FS_Subset
<1> QED
  BY <1>3, FS_CardinalityType

\* The due records are active ones, each once, whose time has come.
LEMMA DueFacts ==
  ASSUME NEW l \in Seq(Events), FoldOK(l), NEW t \in Nat,
         NEW due \in Due(Active(l), t)
  PROVE  /\ due \in Seq(Schedules)
         /\ \A k \in 1 .. Len(due) :
              /\ \E i \in Creations(l) : Left(l, i) = due[k]
              /\ due[k].at # Over /\ due[k].at <= t
         /\ \A j, k \in 1 .. Len(due) : due[j].id = due[k].id => j = k
<1> DEFINE active == Active(l)
           chosen == Chosen(active, t)
           c == Cardinality(chosen)
<1>1. PICK order \in [1 .. c -> chosen] :
        /\ \A j, k \in DOMAIN order : j < k => Before(active, order[j], order[k])
        /\ due = [k \in DOMAIN order |-> active[order[k]]]
  BY DEF Due
<1>2. \A i \in chosen : i \in DOMAIN active /\ active[i].at <= t
  BY DEF Chosen, Overdue
<1>3. \A i \in DOMAIN active :
        /\ i \in Creations(l) /\ i \in 1 .. Len(l) /\ active[i] = Left(l, i)
        /\ active[i].at # Over /\ active[i] \in Schedules
        /\ active[i].id = l[i].record.id
  <2>1. DOMAIN l = 1 .. Len(l)
    BY LenProperties
  <2>2. Creations(l) \subseteq 1 .. Len(l)
    BY <2>1 DEF Creations
  <2> QED
    BY <2>2, ActiveFacts DEF FoldOK
<1>4. c \in Nat
  <2>1. chosen \subseteq 1 .. Len(l)
    BY <1>2, <1>3
  <2> QED
    BY <2>1, PositionsFinite
<1>5. \A j, k \in 1 .. c : order[j] = order[k] => j = k
  <2> SUFFICES ASSUME NEW j \in 1 .. c, NEW k \in 1 .. c, order[j] = order[k], j # k
               PROVE  FALSE
    OBVIOUS
  <2>1. j < k \/ k < j
    BY <1>4
  <2>2. order[j] \in chosen /\ order[k] \in chosen
    BY <1>1
  <2>3. Before(active, order[j], order[j])
    BY <1>1, <2>1
  <2>4. active[order[j]].at \in Nat /\ order[j] \in Nat
    <3>1. active[order[j]] \in Schedules /\ order[j] \in 1 .. Len(l)
      BY <1>2, <1>3, <2>2
    <3> QED
      BY <3>1 DEF Schedules
  <2> QED
    BY <2>3, <2>4 DEF Before
<1>6. \A k \in 1 .. c : order[k] \in DOMAIN active /\ active[order[k]].at <= t
  BY <1>1, <1>2
<1> HIDE DEF active, chosen, c
<1>7. /\ DOMAIN due = 1 .. c
      /\ \A k \in 1 .. c : due[k] = active[order[k]]
  BY <1>1
<1>8. \A k \in 1 .. c : due[k] \in Schedules
  BY <1>3, <1>6, <1>7
<1>9. due \in Seq(Schedules) /\ Len(due) = c
  <2>1. due = [k \in 1 .. c |-> due[k]]
    BY <1>1, <1>7
  <2>2. [k \in 1 .. c |-> due[k]] \in Seq(Schedules)
    BY <1>4, <1>8, IsASeq
  <2>3. due \in Seq(Schedules)
    BY <2>1, <2>2
  <2>4. DOMAIN due = 1 .. Len(due) /\ Len(due) \in Nat
    BY <2>3, LenProperties
  <2> QED
    BY <1>4, <1>7, <2>3, <2>4
<1>10. ASSUME NEW j \in 1 .. c, NEW k \in 1 .. c, due[j].id = due[k].id PROVE j = k
  <2>1. /\ order[j] \in Creations(l) /\ order[k] \in Creations(l)
        /\ l[order[j]].record.id = l[order[k]].record.id
    BY <1>3, <1>6, <1>7, <1>10
  <2>2. order[j] = order[k]
    BY <2>1 DEF FoldOK
  <2> QED
    BY <1>5, <2>2
<1> QED
  BY <1>3, <1>6, <1>7, <1>9, <1>10

\* A sequence with one more element than another is that one with it appended.
LEMMA IsAppend ==
  ASSUME NEW S, NEW m \in Seq(S), NEW e \in S, NEW q \in Seq(S),
         Len(q) = Len(m) + 1, q[Len(m) + 1] = e, \A i \in 1 .. Len(m) : q[i] = m[i]
  PROVE  q = Append(m, e)
<1>1. /\ Append(m, e) \in Seq(S) /\ Len(Append(m, e)) = Len(m) + 1
      /\ \A i \in 1 .. Len(m) : Append(m, e)[i] = m[i]
      /\ Append(m, e)[Len(m) + 1] = e
  BY AppendProperties
<1>2. \A i \in 1 .. Len(m) + 1 : i \in 1 .. Len(m) \/ i = Len(m) + 1
  BY LenProperties
<1>3. \A i \in 1 .. Len(q) : q[i] = Append(m, e)[i]
  BY <1>1, <1>2
<1> QED
  BY <1>1, <1>3, SeqEqual

\* A batch in the log: the reminder, then the first n of its dispatches.
Batch(l, r, due, t, n) == Append(l, r) \o SubSeq(Dispatches(due, t), 1, n)
BatchAt(l, r, due, t, i) ==
  IF i <= Len(l) + 1 THEN Append(l, r)[i] ELSE Dispatches(due, t)[i - (Len(l) + 1)]
Nth(due, t, k) == Dispatched(due[k].id, IF due[k].every = 0 THEN 0 ELSE t)

\* The dispatches of the due records are events, one for each.
LEMMA DispatchEvents ==
  ASSUME NEW due \in Seq(Schedules), NEW t \in Nat
  PROVE  /\ Dispatches(due, t) \in Seq(Events) /\ Len(Dispatches(due, t)) = Len(due)
         /\ \A k \in 1 .. Len(due) : /\ Dispatches(due, t)[k] = Nth(due, t, k)
                                     /\ Nth(due, t, k) \in Events
<1> DEFINE d == Dispatches(due, t)
<1>1. /\ Len(due) \in Nat /\ DOMAIN due = 1 .. Len(due)
      /\ \A k \in 1 .. Len(due) : due[k] \in Schedules
  BY LenProperties
<1>2. \A k \in 1 .. Len(due) : Nth(due, t, k) \in Events
  BY <1>1 DEF Nth, Dispatched, Schedules, Events
<1>3. d = [k \in 1 .. Len(due) |-> Nth(due, t, k)]
  BY <1>1 DEF Dispatches, Nth
<1> HIDE DEF d
<1>4. d \in Seq(Events)
  BY <1>1, <1>2, <1>3, IsASeq
<1>5. DOMAIN d = 1 .. Len(d) /\ Len(d) \in Nat
  BY <1>4, LenProperties
<1> QED
  BY <1>1, <1>2, <1>3, <1>4, <1>5 DEF d

\* The events of a batch, by their positions.
BatchShape(m, l, r, due, t, n) ==
  /\ m \in Seq(Events) /\ Len(m) = Len(l) + 1 + n
  /\ \A i \in 1 .. Len(l) : m[i] = l[i]
  /\ m[Len(l) + 1] = r
  /\ \A k \in 1 .. n : m[Len(l) + 1 + k] = Nth(due, t, k)
  /\ \A i \in 1 .. Len(l) + 1 + n : m[i] = BatchAt(l, r, due, t, i)

\* A batch has that shape.
LEMMA BatchFacts ==
  ASSUME NEW l \in Seq(Events), NEW r \in Events, NEW due \in Seq(Schedules),
         NEW t \in Nat, NEW n \in 0 .. Len(due)
  PROVE  BatchShape(Batch(l, r, due, t, n), l, r, due, t, n)
<1> DEFINE d == Dispatches(due, t)
           a == Append(l, r)
           s == SubSeq(d, 1, n)
           m == a \o s
<1>1. Len(l) \in Nat /\ Len(due) \in Nat
  BY LenProperties
<1>2. d \in Seq(Events) /\ Len(d) = Len(due)
      /\ \A k \in 1 .. Len(due) : d[k] = Nth(due, t, k)
  BY DispatchEvents
<1>3. /\ a \in Seq(Events) /\ Len(a) = Len(l) + 1 /\ a[Len(l) + 1] = r
      /\ \A i \in 1 .. Len(l) : a[i] = l[i]
  BY AppendProperties
<1> HIDE DEF d, a
<1>4. s \in Seq(Events) /\ Len(s) = n /\ \A j \in 1 .. n : s[j] = d[j]
  BY <1>2, PrefixFacts
<1> HIDE DEF s
<1>5. /\ m \in Seq(Events) /\ Len(m) = Len(a) + Len(s)
      /\ \A i \in 1 .. Len(a) + Len(s) : m[i] =
           IF i <= Len(a) THEN a[i] ELSE s[i - Len(a)]
  BY <1>3, <1>4, ConcatProperties
<1> HIDE DEF m
<1>6. /\ Len(m) = Len(l) + 1 + n
      /\ \A i \in 1 .. Len(l) + 1 + n : m[i] =
           IF i <= Len(l) + 1 THEN a[i] ELSE s[i - (Len(l) + 1)]
  BY <1>3, <1>4, <1>5
<1>7. \A i \in 1 .. Len(l) + 1 + n : ~(i <= Len(l) + 1) => i - (Len(l) + 1) \in 1 .. n
  BY <1>1
<1>8. \A i \in 1 .. Len(l) + 1 + n : m[i] =
        IF i <= Len(l) + 1 THEN a[i] ELSE d[i - (Len(l) + 1)]
  BY <1>4, <1>6, <1>7
<1>9. \A i \in 1 .. Len(l) : m[i] = l[i]
  BY <1>1, <1>3, <1>8
<1>10. m[Len(l) + 1] = r
  BY <1>1, <1>3, <1>8
<1>11. ASSUME NEW k \in 1 .. n PROVE m[Len(l) + 1 + k] = Nth(due, t, k)
  <2>1. /\ Len(l) + 1 + k \in 1 .. Len(l) + 1 + n /\ ~(Len(l) + 1 + k <= Len(l) + 1)
        /\ (Len(l) + 1 + k) - (Len(l) + 1) = k /\ k \in 1 .. Len(due)
    BY <1>1
  <2> QED
    BY <1>2, <1>8, <2>1
<1>12. Batch(l, r, due, t, n) = m
  BY DEF Batch, m, a, s, d
<1>13. \A i \in 1 .. Len(l) + 1 + n : m[i] = BatchAt(l, r, due, t, i)
  BY <1>8 DEF BatchAt, a, d
<1> QED
  BY <1>5, <1>6, <1>9, <1>10, <1>11, <1>12, <1>13 DEF BatchShape

\* A batch with one more dispatch.
LEMMA BatchGrows ==
  ASSUME NEW l \in Seq(Events), NEW r \in Events, NEW due \in Seq(Schedules),
         NEW t \in Nat, NEW n \in 0 .. Len(due)
  PROVE  /\ Batch(l, r, due, t, 0) = Append(l, r)
         /\ n < Len(due) => Batch(l, r, due, t, n + 1) =
                              Append(Batch(l, r, due, t, n), Nth(due, t, n + 1))
<1> DEFINE b(k) == Batch(l, r, due, t, k)
           At(i) == BatchAt(l, r, due, t, i)
<1>1. Len(l) \in Nat /\ Len(due) \in Nat /\ n \in Nat
  BY LenProperties
<1>5. \A k \in 0 .. Len(due) : BatchShape(b(k), l, r, due, t, k)
  BY BatchFacts
<1>2. ASSUME NEW k \in 0 .. Len(due)
      PROVE  /\ b(k) \in Seq(Events) /\ Len(b(k)) = Len(l) + 1 + k
             /\ \A i \in 1 .. Len(l) + 1 + k : b(k)[i] = At(i)
  <2> HIDE DEF b
  <2> QED
    BY <1>5 DEF BatchShape
<1>3. b(0) = Append(l, r)
  <2>1. b(0) \in Seq(Events) /\ Len(b(0)) = Len(l) + 1 + 0
        /\ \A i \in 1 .. Len(l) + 1 + 0 : b(0)[i] = At(i)
    BY <1>1, <1>2
  <2>2. \A i \in 1 .. Len(l) + 1 : At(i) = Append(l, r)[i]
    BY <1>1 DEF BatchAt
  <2>3. Append(l, r) \in Seq(Events) /\ Len(Append(l, r)) = Len(l) + 1
    BY AppendProperties
  <2> HIDE DEF b, At
  <2>4. Len(b(0)) = Len(l) + 1 /\ \A i \in 1 .. Len(l) + 1 : b(0)[i] = Append(l, r)[i]
    BY <1>1, <2>1, <2>2
  <2> QED
    BY <2>1, <2>3, <2>4, SeqEqual
<1> HIDE DEF b, At
<1>4. ASSUME n < Len(due) PROVE b(n + 1) = Append(b(n), Nth(due, t, n + 1))
  <2>1. n + 1 \in 0 .. Len(due) /\ n + 1 \in 1 .. Len(due) /\ n + 1 \in 1 .. n + 1
    BY <1>1, <1>4
  <2>2. Nth(due, t, n + 1) \in Events
    BY <2>1, DispatchEvents
  <2>3. /\ b(n) \in Seq(Events) /\ b(n + 1) \in Seq(Events)
        /\ Len(b(n)) = Len(l) + 1 + n /\ Len(b(n + 1)) = Len(l) + 1 + (n + 1)
    BY <1>2, <2>1
  <2>4. Len(b(n + 1)) = Len(b(n)) + 1 /\ Len(l) + 1 + (n + 1) = Len(b(n)) + 1
    BY <1>1, <2>3
  <2>5. b(n + 1)[Len(b(n)) + 1] = Nth(due, t, n + 1)
    <3>1. /\ Len(b(n)) + 1 \in 1 .. Len(l) + 1 + (n + 1)
          /\ ~(Len(b(n)) + 1 <= Len(l) + 1)
          /\ (Len(b(n)) + 1) - (Len(l) + 1) = n + 1
      BY <1>1, <2>3
    <3>2. b(n + 1)[Len(b(n)) + 1] = At(Len(b(n)) + 1)
      BY <1>2, <2>1, <3>1
    <3>3. At(Len(b(n)) + 1) = Dispatches(due, t)[n + 1]
      BY <3>1 DEF At, BatchAt
    <3> QED
      BY <2>1, <3>2, <3>3, DispatchEvents
  <2>6. \A i \in 1 .. Len(b(n)) : b(n + 1)[i] = b(n)[i]
    <3>1. \A i \in 1 .. Len(l) + 1 + n : i \in 1 .. Len(l) + 1 + (n + 1)
      BY <1>1
    <3> QED
      BY <1>2, <2>1, <2>3, <3>1
  <2> QED
    BY <2>2, <2>3, <2>4, <2>5, <2>6, IsAppend
<1> QED
  BY <1>3, <1>4 DEF b

\* Records that are active in l, due at t, each once.
IsDue(l, due, t) ==
  /\ due \in Seq(Schedules)
  /\ \A k \in 1 .. Len(due) :
       /\ \E i \in Creations(l) : Left(l, i) = due[k]
       /\ due[k].at # Over /\ due[k].at <= t
  /\ \A j, k \in 1 .. Len(due) : due[j].id = due[k].id => j = k

\* Replay accepts a batch: each dispatch finds its record as it was chosen.
LEMMA BatchAccepted ==
  ASSUME NEW l \in Seq(Events), NEW r \in Events, NEW due, NEW t \in Nat,
         NEW n \in 0 .. Len(due), Accepted(l), r.type = "message", IsDue(l, due, t)
  PROVE  Accepted(Batch(l, r, due, t, n))
<1> DEFINE b(k) == Batch(l, r, due, t, k)
           Waiting(k) == \A j \in k + 1 .. Len(due) :
                           \E i \in Creations(b(k)) : Left(b(k), i) = due[j]
           T == {k \in Nat : k <= Len(due) => Accepted(b(k)) /\ Waiting(k)}
<1>1. due \in Seq(Schedules) /\ Len(due) \in Nat /\ \A k \in 1 .. Len(due) : due[k] \in Schedules
  BY LenProperties DEF IsDue
<1>2. \A k \in 0 .. Len(due) : b(k) \in Seq(Events)
  BY <1>1, BatchFacts DEF BatchShape
<1>3. /\ b(0) = Append(l, r)
      /\ \A k \in 0 .. Len(due) : k < Len(due) => b(k + 1) = Append(b(k), Nth(due, t, k + 1))
  BY <1>1, BatchGrows
<1> HIDE DEF b
<1>4. 0 \in T
  <2>1. FoldOK(l) /\ Accepts(l, r)
    BY AcceptedFolds DEF Accepts
  <2>2. Accepted(b(0))
    BY <1>3, <2>1, AcceptedAppend
  <2>3. \A i \in Creations(l) : i \in Creations(b(0)) /\ Left(b(0), i) = Left(l, i)
    <3> TAKE i \in Creations(l)
    <3>1. i \in Creations(b(0))
      BY <1>3, Appended
    <3>2. Left(Append(l, r), i) = changed(Left(l, i), r)
      BY LeftAfter
    <3> QED
      BY <1>3, <3>1, <3>2 DEF changed
  <2>4. Waiting(0)
    BY <1>1, <2>3 DEF IsDue
  <2> HIDE DEF Waiting
  <2> QED
    BY <2>2, <2>4
<1>5. ASSUME NEW k \in T PROVE k + 1 \in T
  <2> SUFFICES ASSUME k + 1 <= Len(due) PROVE Accepted(b(k + 1)) /\ Waiting(k + 1)
    OBVIOUS
  <2> DEFINE e == Nth(due, t, k + 1)
  <2>1. /\ k \in 0 .. Len(due) /\ k < Len(due) /\ k \in Nat
        /\ k + 1 \in 1 .. Len(due) /\ k + 1 \in k + 1 .. Len(due)
    BY <1>1
  <2>2. Accepted(b(k)) /\ Waiting(k)
    BY <1>1
  <2>3. b(k) \in Seq(Events) /\ FoldOK(b(k)) /\ b(k + 1) = Append(b(k), e)
    BY <1>2, <1>3, <2>1, <2>2, AcceptedFolds
  <2>4. /\ e.type = "dispatch" /\ e.id = due[k + 1].id
        /\ e.acceptedAt = IF due[k + 1].every = 0 THEN 0 ELSE t
    BY DEF Nth, Dispatched
  <2>5. e \in Events
    BY <1>1, <2>1, DispatchEvents
  <2> HIDE DEF e
  <2>6. Accepts(b(k), e)
    <3>1. PICK i \in Creations(b(k)) : Left(b(k), i) = due[k + 1]
      BY <2>1, <2>2
    <3>2. due[k + 1].at # Over /\ due[k + 1].at <= t /\ due[k + 1].at \in Nat
      BY <1>1, <2>1 DEF IsDue, Schedules
    <3>3. i \in DOMAIN Active(b(k)) /\ Active(b(k))[i] = due[k + 1]
      BY <3>1, <3>2, ActiveFacts
    <3>4. IF due[k + 1].every = 0 THEN e.acceptedAt = 0
          ELSE e.acceptedAt >= due[k + 1].at
      BY <2>4, <3>2
    <3> QED
      BY <2>4, <3>3, <3>4 DEF Accepts
  <2>7. Accepted(b(k + 1))
    BY <2>2, <2>3, <2>5, <2>6, AcceptedAppend
  <2>8. ASSUME NEW j \in (k + 1) + 1 .. Len(due)
        PROVE  \E i \in Creations(b(k + 1)) : Left(b(k + 1), i) = due[j]
    <3>1. j \in k + 1 .. Len(due) /\ j \in 1 .. Len(due) /\ j # k + 1
      BY <1>1, <2>1
    <3>2. PICK i \in Creations(b(k)) : Left(b(k), i) = due[j]
      BY <2>2, <3>1
    <3>3. e.id # due[j].id
      BY <2>1, <2>4, <3>1 DEF IsDue
    <3>4. Left(b(k + 1), i) = Left(b(k), i)
      <4>1. e.type \in {"delete", "dispatch"} /\ e.id # Left(b(k), i).id =>
              Left(Append(b(k), e), i) = Left(b(k), i)
        BY <2>3, <2>5, <2>6, <3>2, LeftAppended
      <4> QED
        BY <2>3, <2>4, <3>2, <3>3, <4>1
    <3>5. i \in Creations(b(k + 1))
      BY <2>3, <2>5, Appended
    <3> QED
      BY <3>2, <3>4, <3>5
  <2>9. Waiting(k + 1)
    BY <2>8
  <2> HIDE DEF Waiting
  <2> QED
    BY <2>7, <2>9
<1>6. T = Nat
  <2>1. T \subseteq Nat
    OBVIOUS
  <2> HIDE DEF T
  <2> QED
    BY <1>4, <1>5, <2>1, NatSetInduction
<1>7. n \in T /\ n <= Len(due)
  BY <1>1, <1>6
<1>8. Accepted(b(n))
  <2> HIDE DEF Waiting
  <2> QED
    BY <1>7
<1> QED
  BY <1>8 DEF b

\* The least of a set of natural numbers.
LEMMA Least ==
  ASSUME NEW P, P \subseteq Nat, P # {}
  PROVE  \E x \in P : \A y \in P : x <= y
<1> DEFINE R == OpToRel(<, Nat)
<1>1. \A y, z \in Nat : y < z => <<y, z>> \in R
  BY DEF OpToRel
<1>2. IsWellFoundedOn(R, Nat)
  BY NatLessThanWellFounded
<1> HIDE DEF R
<1>3. PICK x \in P : \A y \in P : ~(<<y, x>> \in R)
  BY <1>2, WFMin
<1>4. \A y \in P : ~(y < x)
  BY <1>1, <1>3
<1> QED
  BY <1>4

\* The next id is a number that no creation has used.
LEMMA NextId ==
  ASSUME NEW l \in Seq(Events)
  PROVE  LET id == allocateScheduleId(seenIds(l))
         IN  id \in Nat /\ id \notin seenIds(l)
<1> DEFINE seen == seenIds(l)
           c == Cardinality(seen)
           f == [i \in Creations(l) |-> l[i].record.id]
<1>1. Creations(l) \subseteq 1 .. Len(l)
  BY LenProperties DEF Creations
<1>2. IsFiniteSet(Creations(l))
  BY <1>1, PositionsFinite
<1>3. f \in Surjection(Creations(l), seen)
  BY DEF Surjection, seenIds
<1>4. IsFiniteSet(seen) /\ c \in Nat
  BY <1>2, <1>3, FS_Surjection, FS_CardinalityType
<1> HIDE DEF seen, f
<1> DEFINE range == c + 1 .. 2 * c + 1
<1>5. IsFiniteSet(range) /\ Cardinality(range) = c + 1
  <2>1. c + 1 \in Int /\ 2 * c + 1 \in Int
    BY <1>4
  <2>2. /\ IsFiniteSet(range)
        /\ Cardinality(range) = IF c + 1 > 2 * c + 1 THEN 0 ELSE (2 * c + 1) - (c + 1) + 1
    BY <2>1, FS_Interval
  <2> HIDE DEF range
  <2> QED
    BY <1>4, <2>2
<1>6. ~(range \subseteq seen)
  <2> SUFFICES ASSUME range \subseteq seen PROVE FALSE
    OBVIOUS
  <2>1. Cardinality(range) <= c
    BY <1>4, FS_Subset
  <2> QED
    BY <1>4, <1>5, <2>1
<1>7. range \ seen \subseteq Nat
  BY <1>4
<1>8. PICK id \in range \ seen : \A y \in range \ seen : id <= y
  <2> HIDE DEF range
  <2> QED
    BY <1>6, <1>7, Least
<1>9. \A other \in c + 1 .. id - 1 : other \in seen
  <2> TAKE other \in c + 1 .. id - 1
  <2>1. other \in range /\ ~(id <= other)
    BY <1>4, <1>7, <1>8
  <2> QED
    BY <1>8, <2>1
<1>10. /\ allocateScheduleId(seen) \in range
       /\ allocateScheduleId(seen) \notin seen
  BY <1>8, <1>9 DEF allocateScheduleId
<1>11. range \subseteq Nat
  BY <1>4
<1> HIDE DEF range
<1> QED
  BY <1>10, <1>11 DEF seen

-----------------------------------------------------------------------------
(***************************************************************************)
(* The invariant of the log: what it is made of, what a call in its        *)
(* barrier has appended, and that only a refused append of this life, or   *)
(* an earlier life, leaves a queued occurrence without its dispatch.       *)
(***************************************************************************)
LogOK == /\ log \in Seq(Events) /\ stored \in 0 .. Len(log)
         /\ life \in Nat /\ now \in Instants

Requests == [step : {"queued", "preflight", "barrier"},
             op : {"create", "delete", "list"}, input : Rules \cup Nat,
             id : Nat, aborted : BOOLEAN]

CallOK ==
  call.step # "none" =>
    /\ call \in Requests
    /\ call.op = "create" => call.input \in Rules
    /\ call.op = "delete" => call.input \in Nat
    /\ call.step = "barrier" =>
         /\ call.op # "list"
         /\ call.op = "create" => Holds(Active(log), call.id)
         /\ call.op = "delete" => ~Holds(Active(log), call.id)

LivesOK ==
  \A i \in Positions("message") :
    /\ log[i].life <= life
    /\ log[i].life = life /\ ~faulted =>
         \A o \in log[i].occurrences : \E k \in i + 1 .. Len(log) : Records(k, o)

FaultOK == faulted => run \notin {"queued", "preflight", "delivered", "barrier"}

RInv == IInv /\ LogOK /\ CallOK /\ LivesOK /\ FaultOK /\ RemindedOnce

\* The steps by what they do to the log.
Quiet == /\ UNCHANGED <<log, life>> /\ stored' \in {stored, Len(log)} /\ now' \in Instants
         /\ faulted => faulted'

Creates ==
  LET id == allocateScheduleId(seenIds(log))
  IN  /\ call.op = "create" /\ Valid(call.input)
      /\ CallAppends(Created(Record(call.input, id)), id)

Deletes ==
  /\ call.op = "delete" /\ Holds(Active(log), call.input)
  /\ CallAppends(Deleted(call.input), call.input)

Delivers(due, t, n) ==
  /\ t \in Instants /\ due \in Due(Active(log), t) /\ n \in 0 .. Len(due)
  /\ Drives("preflight") /\ Flushed /\ Queues(due, t, n)
  /\ now' = t /\ UNCHANGED <<life, call>>
  /\ n = Len(due) \/ faulted'

\* Every step is of one of these kinds.
LEMMA StepKinds ==
  ASSUME LogOK, [Next]_vars
  PROVE  \/ Quiet \/ Creates \/ Deletes \/ CrashAndResume
         \/ \E due, t, n : Delivers(due, t, n)
<1> USE DEF owner, agent, disk, manager, Elsewhere, Quiet, Flushed
<1> now \in Instants /\ log \in Seq(Events) /\ Len(log) \in Nat
  BY LenProperties DEF LogOK
<1>1. CASE Tick
  BY <1>1, BoundsAssumption DEF Tick, Instants
<1>2. CASE ClockJumps
  BY <1>2 DEF ClockJumps
<1>3. CASE TimerFires \/ IdleReached
  BY <1>3 DEF TimerFires, IdleReached
<1>4. CASE \E kind \in {"running", "job"} : StartActivity(kind)
  BY <1>4 DEF StartActivity
<1>5. CASE EndTurn \/ EndMaintenance
  BY <1>5 DEF EndTurn, EndMaintenance
<1>6. CASE DriveStarts \/ DriveFlushFails \/ PreflightStops \/ NothingDue \/ AgentBusy
  BY <1>6 DEF DriveStarts, DriveFlushFails, PreflightStops, NothingDue, AgentBusy
<1>7. CASE \E t \in Instants : JobWaits(t) \/ FollowupFails(t)
  BY <1>7 DEF JobWaits, FollowupFails, Claims
<1>8. CASE \E t \in Instants : JobDelivers(t)
  <2>1. PICK t \in Instants : JobDelivers(t)
    BY <1>8
  <2>2. PICK due \in Due(Active(log), t) : due # <<>> /\ Queues(due, t, Len(due))
    BY <2>1 DEF JobDelivers
  <2>3. Len(due) \in Nat
    OBVIOUS
  <2>4. Delivers(due, t, Len(due))
    BY <2>1, <2>2, <2>3 DEF JobDelivers, Claims, Delivers
  <2> QED
    BY <2>4
<1>9. CASE \E t \in Instants : JobFaults(t)
  <2>1. PICK t \in Instants : JobFaults(t)
    BY <1>9
  <2>2. PICK due \in Due(Active(log), t) : \E n \in 0 .. Len(due) - 1 : Queues(due, t, n)
    BY <2>1 DEF JobFaults
  <2>5. PICK n \in 0 .. Len(due) - 1 : Queues(due, t, n)
    BY <2>2
  <2>3. n \in 0 .. Len(due)
    BY <2>5
  <2>4. Delivers(due, t, n)
    BY <2>1, <2>2, <2>3, <2>5 DEF JobFaults, Claims, Delivers
  <2> QED
    BY <2>4
<1>10. CASE MaintenanceReturns \/ DispatchStored \/ RunContinues \/ retire
  BY <1>10 DEF MaintenanceReturns, DispatchStored, RunContinues, retire
<1>11. CASE dispose \/ Disposed
  BY <1>11 DEF dispose, Disposed
<1>12. CASE \E op, input : Call(op, input)
  BY <1>12 DEF Call
<1>13. CASE AbortCall \/ CallStarts \/ CallFlushFails \/ CallStored
  BY <1>13 DEF AbortCall, CallStarts, CallFlushFails, CallStored
<1>14. CASE \E value, failures : CallEnds(value, failures)
  BY <1>14 DEF CallEnds
<1>15. CASE UNCHANGED vars
  BY <1>15 DEF vars
<1>16. CASE Create
  BY <1>14, <1>16 DEF Create, Creates
<1>17. CASE Delete
  BY <1>14, <1>17 DEF Delete, Deletes
<1> QED
  BY <1>1, <1>2, <1>3, <1>4, <1>5, <1>6, <1>7, <1>8, <1>9, <1>10, <1>11, <1>12, <1>13, <1>14, <1>15, <1>16, <1>17
  DEF Next, Progress, Driver, Manager, Failure, Input, List

\* The record that is asked for is one that can be created.
LEMMA RecordTyped ==
  ASSUME NEW rule \in Rules, NEW id \in Nat, now \in Instants
  PROVE  Record(rule, id) \in Schedules /\ Record(rule, id).at # Over
                                        /\ Record(rule, id).id = id
<1>1. rule.time \in Nat \ {0} /\ now \in Nat \ {0}
  BY BoundsAssumption DEF Instants
<1>2. Target(rule) \in Nat \ {0}
  BY <1>1 DEF Target
<1> QED
  BY <1>1, <1>2 DEF Record, Schedules, Over

\* The event of a create is new to the log, and its record is active after it.
LEMMA CreateAppends ==
  ASSUME LogOK, CallOK, Accepted(log), Creates
  PROVE  \E e \in Events : /\ e.type = "create" /\ log' = Append(log, e) /\ Accepts(log, e)
                           /\ Holds(Active(log'), call'.id)
<1> DEFINE id == allocateScheduleId(seenIds(log))
           e == Created(Record(call.input, id))
<1>1. /\ call.step = "preflight" /\ call.input \in Rules /\ log' = Append(log, e)
      /\ call' = [call EXCEPT !.step = "barrier", !.id = id] /\ call \in Requests
      /\ log \in Seq(Events) /\ now \in Instants
  BY DEF Creates, CallAppends, Calls, CallOK, LogOK
<1>2. id \in Nat /\ id \notin seenIds(log)
  BY <1>1, NextId
<1> HIDE DEF id
<1>3. Record(call.input, id) \in Schedules /\ Record(call.input, id).at # Over
      /\ Record(call.input, id).id = id
  BY <1>1, <1>2, RecordTyped
<1>4. e \in Events /\ e.type = "create" /\ e.record.id = id /\ e.record.at # Over
  BY <1>3 DEF Created, Events
<1> HIDE DEF e
<1>5. Accepts(log, e)
  BY <1>2, <1>4 DEF Accepts
<1>6. FoldOK(log)
  BY <1>1, AcceptedFolds
<1>7. Left(log', Len(log) + 1) = e.record
  BY <1>1, <1>2, <1>4, <1>6, CreatedStays
<1>8. Len(log) + 1 \in Creations(log')
  BY <1>1, <1>4, Appended
<1>9. call'.id = id
  BY <1>1 DEF Requests
<1>10. Len(log) + 1 \in DOMAIN Active(log') /\ Active(log')[Len(log) + 1] = e.record
  BY <1>4, <1>7, <1>8, ActiveFacts
<1>11. Holds(Active(log'), id)
  BY <1>4, <1>10 DEF Holds
<1> QED
  BY <1>1, <1>4, <1>5, <1>9, <1>11

\* The event of a delete is about an active record, which is no longer active after it.
LEMMA DeleteAppends ==
  ASSUME LogOK, CallOK, Accepted(log), Deletes
  PROVE  \E e \in Events : /\ e.type = "delete" /\ log' = Append(log, e) /\ Accepts(log, e)
                           /\ ~Holds(Active(log'), call'.id)
<1> DEFINE e == Deleted(call.input)
<1>1. /\ call.step = "preflight" /\ call.input \in Nat /\ log' = Append(log, e)
      /\ call' = [call EXCEPT !.step = "barrier", !.id = call.input] /\ call \in Requests
      /\ log \in Seq(Events) /\ Holds(Active(log), call.input)
  BY DEF Deletes, CallAppends, Calls, CallOK, LogOK
<1>2. e \in Events /\ e.type = "delete" /\ e.id = call.input
  BY <1>1 DEF Deleted, Events
<1> HIDE DEF e
<1>3. Accepts(log, e)
  BY <1>1, <1>2 DEF Accepts
<1>4. FoldOK(log)
  BY <1>1, AcceptedFolds
<1>5. call'.id = call.input
  BY <1>1 DEF Requests
<1>6. ASSUME Holds(Active(log'), call.input) PROVE FALSE
  <2>1. PICK i \in DOMAIN Active(log') : Active(log')[i].id = call.input
    BY <1>6 DEF Holds
  <2>2. i \in Creations(log') /\ Left(log', i).at # Over /\ Left(log', i).id = call.input
    BY <2>1, ActiveFacts
  <2>3. i \in Creations(log)
    BY <1>1, <1>2, <2>2, Appended
  <2>4. /\ Left(log', i).id = Left(log, i).id
        /\ e.type = "delete" /\ e.id = Left(log, i).id => Left(log', i).at = Over
    BY <1>1, <1>2, <1>3, <1>4, <2>3, LeftAppended
  <2> QED
    BY <1>2, <2>2, <2>4
<1> QED
  BY <1>1, <1>2, <1>3, <1>5, <1>6

\* What a call may ask for.
Asked(op, input) ==
  \/ op = "create" /\ input \in Rules
  \/ op = "delete" /\ input \in seenIds(log) \cup {nobody}
  \/ op = "list" /\ input = nobody

\* A call in its barrier finds the log as it left it.
LEMMA CallStep == ASSUME RInv, [Next]_vars PROVE CallOK'
<1> USE DEF owner, agent, disk, manager, Elsewhere, NoCall, Answers
<1> LogOK /\ CallOK /\ RemindedOnce /\ TypeOK
  BY DEF RInv, IInv
<1>0. Accepted(log)
  BY DEF RemindedOnce, Accepted
<1>1. call.step = "barrier" => log' = log \/ call'.step = "none"
  <2>1. ~DriveInside \/ call.step # "barrier"
    BY DEF RInv, IInv, ChainOK, DriveFirst, CallFirst, CallInside
  <2>2. CASE Quiet
    BY <2>2 DEF Quiet
  <2>3. CASE Creates \/ Deletes
    BY <2>3 DEF Creates, Deletes, CallAppends, Calls
  <2>4. CASE CrashAndResume
    BY <2>4 DEF CrashAndResume
  <2>5. CASE \E due, t, n : Delivers(due, t, n)
    BY <2>1, <2>5 DEF Delivers, DriveInside, DriveSteps, Drives
  <2> QED
    BY <2>2, <2>3, <2>4, <2>5, StepKinds
<1>2. \/ call' = call \/ call'.step = "none"
      \/ \E op, input : Call(op, input) /\ Asked(op, input)
      \/ call.step # "none" /\ call' = [call EXCEPT !.aborted = TRUE]
      \/ call.step = "queued" /\ call' = [call EXCEPT !.step = "preflight"]
      \/ Creates \/ Deletes
  <2>1. CASE Tick \/ ClockJumps \/ TimerFires \/ IdleReached \/ EndTurn \/ EndMaintenance
    BY <2>1 DEF Tick, ClockJumps, TimerFires, IdleReached, EndTurn, EndMaintenance
  <2>2. CASE \E kind \in {"running", "job"} : StartActivity(kind)
    BY <2>2 DEF StartActivity
  <2>3. CASE DriveStarts \/ DriveFlushFails \/ PreflightStops \/ NothingDue \/ AgentBusy
    BY <2>3 DEF DriveStarts, DriveFlushFails, PreflightStops, NothingDue, AgentBusy
  <2>4. CASE \E t \in Instants : JobWaits(t) \/ FollowupFails(t) \/ JobDelivers(t) \/ JobFaults(t)
    BY <2>4 DEF JobWaits, FollowupFails, JobDelivers, JobFaults, Claims
  <2>5. CASE MaintenanceReturns \/ DispatchStored \/ RunContinues \/ retire \/ dispose \/ Disposed
    BY <2>5 DEF MaintenanceReturns, DispatchStored, RunContinues, retire, dispose, Disposed
  <2>6. CASE AbortCall
    BY <2>6 DEF AbortCall
  <2>7. CASE CallStarts
    BY <2>7 DEF CallStarts, Calls
  <2>8. CASE CallFlushFails \/ CallStored \/ CrashAndResume
    BY <2>8 DEF CallFlushFails, CallStored, CrashAndResume
  <2>9. CASE \E value, failures : CallEnds(value, failures)
    BY <2>9 DEF CallEnds
  <2>10. CASE Create
    BY <2>9, <2>10 DEF Create, Creates
  <2>11. CASE Delete
    BY <2>9, <2>11 DEF Delete, Deletes
  <2>12. CASE UNCHANGED vars
    BY <2>12 DEF vars
  <2>13. CASE \E op, input : Call(op, input) /\ Asked(op, input)
    BY <2>13
  <2> QED
    BY <2>1, <2>2, <2>3, <2>4, <2>5, <2>6, <2>7, <2>8, <2>9, <2>10, <2>11, <2>12, <2>13
    DEF Asked, Next, Progress, Driver, Manager, Failure, Input, List
<1>3. CASE call' = call
  BY <1>1, <1>3 DEF CallOK
<1>4. CASE call'.step = "none"
  BY <1>4 DEF CallOK
<1>5. ASSUME NEW op, NEW input, Call(op, input),
             Asked(op, input)
      PROVE  CallOK'
  <2>1. seenIds(log) \subseteq Nat /\ nobody \in Nat
    <3>1. \A i \in DOMAIN log : log[i] \in Events
      BY LenProperties DEF LogOK
    <3>2. \A i \in Creations(log) : log[i].record.id \in Nat
      BY <3>1, EventShape DEF Creations, Schedules
    <3> QED
      BY <3>2 DEF seenIds, nobody
  <2>2. call' = [step |-> "queued", op |-> op, input |-> input, id |-> nobody,
                 aborted |-> FALSE]
    BY <1>5 DEF Call
  <2>3. call' \in Requests /\ call'.step = "queued" /\ call'.op = op /\ call'.input = input
    BY <1>5, <2>1, <2>2 DEF Requests, Asked
  <2> QED
    BY <1>5, <2>1, <2>3 DEF CallOK, Asked
<1>6. CASE call.step # "none" /\ call' = [call EXCEPT !.aborted = TRUE]
  <2>1. /\ call \in Requests /\ call' \in Requests /\ call'.step = call.step
        /\ call'.op = call.op /\ call'.input = call.input /\ call'.id = call.id
    BY <1>6 DEF CallOK, Requests
  <2> QED
    BY <1>1, <1>6, <2>1 DEF CallOK
<1>7. CASE call.step = "queued" /\ call' = [call EXCEPT !.step = "preflight"]
  <2>1. /\ call \in Requests /\ call' \in Requests /\ call'.step = "preflight"
        /\ call'.op = call.op /\ call'.input = call.input
    BY <1>7 DEF CallOK, Requests
  <2> QED
    BY <1>7, <2>1 DEF CallOK
<1>8. ASSUME Creates \/ Deletes
      PROVE  /\ call \in Requests /\ call' \in Requests /\ call'.step = "barrier"
             /\ call'.op = call.op /\ call'.input = call.input
  <2>1. call.step = "preflight"
    BY <1>8 DEF Creates, Deletes, CallAppends, Calls
  <2>2. PICK id \in Nat : call' = [call EXCEPT !.step = "barrier", !.id = id]
    <3>1. allocateScheduleId(seenIds(log)) \in Nat
      BY NextId DEF LogOK
    <3> QED
      BY <1>8, <2>1, <3>1 DEF Creates, Deletes, CallAppends, CallOK
  <2> QED
    BY <2>1, <2>2 DEF CallOK, Requests
<1>9. CASE Creates
  <2>1. Holds(Active(log'), call'.id) /\ call.op = "create" /\ call.step = "preflight"
    BY <1>0, <1>9, CreateAppends DEF Creates, CallAppends, Calls
  <2> QED
    BY <1>8, <1>9, <2>1 DEF CallOK
<1>10. CASE Deletes
  <2>1. ~Holds(Active(log'), call'.id) /\ call.op = "delete" /\ call.step = "preflight"
    BY <1>0, <1>10, DeleteAppends DEF Deletes, CallAppends, Calls
  <2> QED
    BY <1>8, <1>10, <2>1 DEF CallOK
<1> QED
  BY <1>2, <1>3, <1>4, <1>5, <1>6, <1>7, <1>9, <1>10

\* A faulted owner starts nothing and has nothing under way but its return.
LEMMA FaultStep == ASSUME TypeOK, FaultOK, [Next]_vars PROVE FaultOK'
<1> USE DEF owner, agent, disk, manager, Elsewhere, FaultOK, Drives, Returns, TypeOK
<1>1. CASE Tick \/ ClockJumps
  BY <1>1 DEF Tick, ClockJumps
<1>2. CASE TimerFires \/ IdleReached \/ EndTurn
  BY <1>2 DEF TimerFires, IdleReached, EndTurn, requestDrive
<1>3. CASE \E kind \in {"running", "job"} : StartActivity(kind)
  BY <1>3 DEF StartActivity
<1>4. CASE EndMaintenance \/ DriveStarts \/ DriveFlushFails
  BY <1>4 DEF EndMaintenance, DriveStarts, DriveFlushFails
<1>5. CASE PreflightStops \/ NothingDue \/ AgentBusy
  BY <1>5 DEF PreflightStops, NothingDue, AgentBusy
<1>6. CASE \E t \in Instants : JobWaits(t) \/ FollowupFails(t)
  BY <1>6 DEF JobWaits, FollowupFails, Claims
<1>7. CASE \E t \in Instants : JobDelivers(t) \/ JobFaults(t)
  BY <1>7 DEF JobDelivers, JobFaults, Claims
<1>8. CASE MaintenanceReturns \/ DispatchStored \/ RunContinues \/ retire
  BY <1>8 DEF MaintenanceReturns, DispatchStored, RunContinues, retire, Wanted
<1>9. CASE dispose \/ Disposed
  BY <1>9 DEF dispose, Disposed
<1>10. CASE \E op, input : Call(op, input)
  BY <1>10 DEF Call
<1>11. CASE AbortCall \/ CallStarts \/ CallFlushFails
  BY <1>11 DEF AbortCall, CallStarts, CallFlushFails
<1>12. CASE \E value, failures : CallEnds(value, failures)
  BY <1>12 DEF CallEnds, requestDrive
<1>13. CASE \E e, id : CallAppends(e, id)
  BY <1>13 DEF CallAppends, requestDrive
<1>14. CASE CallStored
  BY <1>14 DEF CallStored, requestDrive
<1>15. CASE CrashAndResume
  BY <1>15 DEF CrashAndResume
<1>16. CASE UNCHANGED vars
  BY <1>16 DEF vars
<1> QED
  BY <1>1, <1>2, <1>3, <1>4, <1>5, <1>6, <1>7, <1>8, <1>9, <1>10, <1>11, <1>12, <1>13, <1>14, <1>15, <1>16
  DEF Next, Progress, Driver, Manager, Failure, Input, List, Create, Delete

-----------------------------------------------------------------------------
(***************************************************************************)
(* RemindedOnce as facts about a sequence of events.                       *)
(***************************************************************************)
Message(l, i) == i \in DOMAIN l /\ l[i].type = "message"

RecordsIn(l, k, o) ==
  /\ l[k].type = "dispatch" /\ l[k].id = o[1]
  /\ l[k].acceptedAt = 0 \/ l[k].acceptedAt >= o[2]
RecordedIn(l, i, j, o) == \E k \in i + 1 .. j - 1 : RecordsIn(l, k, o)

\* A reminder queued at j repeats none of this life, and none that is recorded.
FreshAt(l, j) ==
  \A i \in DOMAIN l : Message(l, i) /\ i < j =>
    \A o \in l[i].occurrences \cap l[j].occurrences :
      l[i].life # l[j].life /\ ~RecordedIn(l, i, j, o)

\* A dispatch at j records an occurrence of an earlier reminder, the first to do so.
BackedAt(l, j) ==
  \E i \in DOMAIN l : /\ Message(l, i) /\ i < j
                      /\ \E o \in l[i].occurrences :
                           RecordsIn(l, j, o) /\ ~RecordedIn(l, i, j, o)

\* The reminder at i is of an earlier life, or recorded unless an append failed.
LivedAt(l, i, current, failed) ==
  /\ l[i].life <= current
  /\ l[i].life = current /\ ~failed =>
       \A o \in l[i].occurrences : \E k \in i + 1 .. Len(l) : RecordsIn(l, k, o)

Fresh(l)  == \A j \in DOMAIN l : Message(l, j) => FreshAt(l, j)
Backed(l) == \A j \in DOMAIN l : l[j].type = "dispatch" => BackedAt(l, j)
Lived(l, current, failed) ==
  \A i \in DOMAIN l : Message(l, i) => LivedAt(l, i, current, failed)

\* The properties, of the log now and after a step.
LEMMA RemindedFacts ==
  /\ RemindedOnce <=> Fresh(log) /\ Backed(log) /\ Accepted(log)
  /\ RemindedOnce' <=> Fresh(log') /\ Backed(log') /\ Accepted(log')
  /\ LivesOK <=> Lived(log, life, faulted)
  /\ LivesOK' <=> Lived(log', life', faulted')
<1> USE DEF Message, FreshAt, BackedAt, LivedAt, RecordsIn, RecordedIn, Records,
            RecordedWithin, Positions
<1>1. /\ RemindedOnce <=> Fresh(log) /\ Backed(log) /\ Accepted(log)
  BY DEF RemindedOnce, Fresh, Backed, Accepted
<1>2. RemindedOnce' <=> Fresh(log') /\ Backed(log') /\ Accepted(log')
  BY DEF RemindedOnce, Fresh, Backed, Accepted
<1>3. LivesOK <=> Lived(log, life, faulted)
  BY DEF LivesOK, Lived
<1>4. LivesOK' <=> Lived(log', life', faulted')
  BY DEF LivesOK, Lived
<1> QED
  BY <1>1, <1>2, <1>3, <1>4

Prefixed(l, m) == Len(l) <= Len(m) /\ \A i \in 1 .. Len(l) : m[i] = l[i]

\* What stands in a log is not changed by what follows it.
LEMMA PrefixKeeps ==
  ASSUME NEW l \in Seq(Events), NEW m \in Seq(Events), Prefixed(l, m)
  PROVE  /\ \A i \in 1 .. Len(l) : Message(m, i) <=> Message(l, i)
         /\ \A j \in 1 .. Len(l) : FreshAt(m, j) <=> FreshAt(l, j)
         /\ \A j \in 1 .. Len(l) : BackedAt(m, j) <=> BackedAt(l, j)
<1>1. /\ Len(l) \in Nat /\ Len(m) \in Nat /\ Len(l) <= Len(m)
      /\ DOMAIN l = 1 .. Len(l) /\ DOMAIN m = 1 .. Len(m)
      /\ \A i \in 1 .. Len(l) : m[i] = l[i]
  BY LenProperties DEF Prefixed
<1>2. \A i \in 1 .. Len(l) : Message(m, i) <=> Message(l, i)
  BY <1>1 DEF Message
<1>3. \A o : \A j \in 1 .. Len(l) : RecordsIn(m, j, o) <=> RecordsIn(l, j, o)
  BY <1>1 DEF RecordsIn
<1>4. ASSUME NEW i \in 1 .. Len(l), NEW j \in 1 .. Len(l), NEW o
      PROVE  RecordedIn(m, i, j, o) <=> RecordedIn(l, i, j, o)
  <2>1. \A k \in i + 1 .. j - 1 : k \in 1 .. Len(l)
    BY <1>1
  <2> QED
    BY <1>3, <2>1 DEF RecordedIn
<1>5. ASSUME NEW j \in 1 .. Len(l) PROVE FreshAt(m, j) <=> FreshAt(l, j)
  <2>1. \A i : i \in DOMAIN m /\ i < j <=> i \in DOMAIN l /\ i < j
    <3>1. \A i \in DOMAIN m : i < j => i \in 1 .. Len(l)
      BY <1>1
    <3>2. \A i \in DOMAIN l : i \in DOMAIN m
      BY <1>1
    <3> QED
      BY <1>1, <3>1, <3>2
  <2>2. \A i \in 1 .. Len(l) : m[i] = l[i] /\ m[j] = l[j]
    BY <1>1
  <2> QED
    BY <1>1, <1>2, <1>4, <2>1, <2>2 DEF FreshAt
<1>6. ASSUME NEW j \in 1 .. Len(l) PROVE BackedAt(m, j) <=> BackedAt(l, j)
  <2>1. \A i : i \in DOMAIN m /\ i < j <=> i \in DOMAIN l /\ i < j
    <3>1. \A i \in DOMAIN m : i < j => i \in 1 .. Len(l)
      BY <1>1
    <3>2. \A i \in DOMAIN l : i \in DOMAIN m
      BY <1>1
    <3> QED
      BY <1>1, <3>1, <3>2
  <2> QED
    BY <1>1, <1>2, <1>3, <1>4, <2>1 DEF BackedAt
<1> QED
  BY <1>2, <1>5, <1>6

\* A prefix of a log in order is in order.
LEMMA PrefixInOrder ==
  ASSUME NEW l \in Seq(Events), NEW m \in Seq(Events), Prefixed(l, m),
         Fresh(m), Backed(m)
  PROVE  Fresh(l) /\ Backed(l)
<1>1. /\ DOMAIN l = 1 .. Len(l) /\ DOMAIN m = 1 .. Len(m)
      /\ Len(l) \in Nat /\ Len(m) \in Nat /\ Len(l) <= Len(m)
      /\ \A i \in 1 .. Len(l) : m[i] = l[i]
  BY LenProperties DEF Prefixed
<1>2. \A i \in 1 .. Len(l) : i \in DOMAIN m
  BY <1>1
<1>3. Fresh(l)
  BY <1>1, <1>2, PrefixKeeps DEF Fresh
<1>4. Backed(l)
  BY <1>1, <1>2, PrefixKeeps DEF Backed
<1> QED
  BY <1>3, <1>4

\* A log in order is followed by one in order when its new events are.
LEMMA ExtendedInOrder ==
  ASSUME NEW l \in Seq(Events), NEW m \in Seq(Events), Prefixed(l, m),
         Fresh(l), Backed(l),
         \A j \in Len(l) + 1 .. Len(m) : /\ m[j].type = "message" => FreshAt(m, j)
                                         /\ m[j].type = "dispatch" => BackedAt(m, j)
  PROVE  Fresh(m) /\ Backed(m)
<1>1. /\ DOMAIN l = 1 .. Len(l) /\ DOMAIN m = 1 .. Len(m)
      /\ Len(l) \in Nat /\ Len(m) \in Nat /\ Len(l) <= Len(m)
      /\ \A i \in 1 .. Len(l) : m[i] = l[i]
  BY LenProperties DEF Prefixed
<1>2. \A i \in DOMAIN m : i \in 1 .. Len(l) \/ i \in Len(l) + 1 .. Len(m)
  BY <1>1
<1>3. Fresh(m)
  BY <1>1, <1>2, PrefixKeeps DEF Fresh, Message
<1>4. Backed(m)
  BY <1>1, <1>2, PrefixKeeps DEF Backed
<1> QED
  BY <1>3, <1>4

\* A reminder that is accounted for stays so in a longer log.
LEMMA LivedKept ==
  ASSUME NEW l \in Seq(Events), NEW m \in Seq(Events), Prefixed(l, m),
         NEW current, NEW failed, NEW i \in 1 .. Len(l), LivedAt(l, i, current, failed)
  PROVE  LivedAt(m, i, current, failed)
<1>1. /\ Len(l) \in Nat /\ Len(m) \in Nat /\ Len(l) <= Len(m)
      /\ \A k \in 1 .. Len(l) : m[k] = l[k]
  BY LenProperties DEF Prefixed
<1>2. \A k \in i + 1 .. Len(l) : k \in i + 1 .. Len(m) /\ k \in 1 .. Len(l)
  BY <1>1
<1>3. \A o : \A k \in i + 1 .. Len(l) : RecordsIn(l, k, o) => RecordsIn(m, k, o)
  BY <1>1, <1>2 DEF RecordsIn
<1> QED
  BY <1>1, <1>2, <1>3 DEF LivedAt

\* Nothing in the log has recorded an occurrence of a record that is due.
LEMMA DueUnrecorded ==
  ASSUME NEW l \in Seq(Events), FoldOK(l), NEW t \in Nat, NEW due, IsDue(l, due, t),
         NEW k \in 1 .. Len(due), NEW o, o = <<due[k].id, latest(due[k], t)>>,
         NEW j \in 1 .. Len(l)
  PROVE  ~RecordsIn(l, j, o)
<1> SUFFICES ASSUME RecordsIn(l, j, o) PROVE FALSE
  OBVIOUS
<1>1. /\ due[k].at # Over /\ due[k].at <= t /\ due[k] \in Schedules
      /\ \E i \in Creations(l) : Left(l, i) = due[k]
  BY LenProperties DEF IsDue
<1>2. PICK i \in Creations(l) : Left(l, i) = due[k]
  BY <1>1
<1>3. due[k].id = l[i].record.id
  BY <1>2 DEF FoldOK
<1>4. j \in DOMAIN l /\ l[j] \in Events /\ l[j].type = "dispatch"
  BY LenProperties DEF RecordsIn
<1>5. o[1] = due[k].id /\ o[2] = latest(due[k], t)
  OBVIOUS
<1>6. l[j].acceptedAt # 0 /\ due[k].at > l[j].acceptedAt /\ l[j].acceptedAt >= o[2]
  BY <1>1, <1>2, <1>3, <1>4, <1>5 DEF FoldOK, RecordsIn
<1>7. l[j].acceptedAt \in Nat /\ due[k].at \in Nat
  BY <1>1, <1>4, EventShape DEF Schedules
<1>8. latest(due[k], t) \in Nat /\ due[k].at <= latest(due[k], t)
  BY <1>1, LatestBounds
<1> QED
  BY <1>5, <1>6, <1>7, <1>8

\* The reminder of the due records, queued in the life `current`.
ReminderOf(due, t, current) ==
  [type |-> "message", life |-> current,
   occurrences |-> {<<due[k].id, latest(due[k], t)>> : k \in 1 .. Len(due)}]

IsReminder(r, due, t, current) == r = ReminderOf(due, t, current)
IsBatch(m, l, r, due, t, n) == m = Batch(l, r, due, t, n)

\* A batch keeps the log in order: its reminder is new, its dispatches record it,
\* and it is accounted for unless an append was refused.
LEMMA BatchInOrder ==
  ASSUME NEW l \in Seq(Events), Accepted(l), Fresh(l), Backed(l),
         NEW t \in Nat, NEW due, IsDue(l, due, t), NEW n \in 0 .. Len(due),
         NEW current \in Nat, Lived(l, current, FALSE), NEW failed \in BOOLEAN,
         n = Len(due) \/ failed, NEW r, IsReminder(r, due, t, current),
         NEW m, IsBatch(m, l, r, due, t, n)
  PROVE  /\ m \in Seq(Events) /\ Len(l) < Len(m) /\ Prefixed(l, m)
         /\ Accepted(m) /\ Fresh(m) /\ Backed(m) /\ Lived(m, current, failed)
<1> DEFINE O(k) == <<due[k].id, latest(due[k], t)>>
           L == Len(l)
<1>1. /\ due \in Seq(Schedules) /\ Len(due) \in Nat /\ L \in Nat /\ n \in Nat
      /\ DOMAIN l = 1 .. L
      /\ \A k \in 1 .. Len(due) : due[k] \in Schedules /\ due[k].at <= t
  BY LenProperties DEF IsDue
<1>2. \A k \in 1 .. Len(due) :
        /\ latest(due[k], t) \in Nat /\ latest(due[k], t) <= t /\ due[k].id \in Nat
  BY <1>1, LatestBounds DEF Schedules
<1>3. r \in Events /\ r.type = "message" /\ r.life = current
      /\ r.occurrences = {O(k) : k \in 1 .. Len(due)}
  BY <1>2 DEF IsReminder, ReminderOf, Events
<1>4. \A k \in 1 .. Len(due) : O(k)[1] = due[k].id /\ O(k)[2] = latest(due[k], t)
  OBVIOUS
<1> HIDE DEF O
<1>5. /\ m \in Seq(Events) /\ Len(m) = L + 1 + n
      /\ \A i \in 1 .. L : m[i] = l[i]
      /\ m[L + 1] = r
      /\ \A k \in 1 .. n : m[L + 1 + k] = Nth(due, t, k)
  <2>0. due \in Seq(Schedules) /\ r \in Events
    BY <1>1, <1>3
  <2>1. BatchShape(m, l, r, due, t, n)
    BY <2>0, BatchFacts DEF IsBatch
  <2> QED
    BY <2>1 DEF BatchShape
<1>6. DOMAIN m = 1 .. L + 1 + n
  BY <1>5, LenProperties
<1>7. Prefixed(l, m)
  BY <1>1, <1>5 DEF Prefixed
<1>8. Accepted(m)
  BY <1>3, BatchAccepted DEF IsBatch
<1>9. FoldOK(l)
  BY AcceptedFolds
<1>10. ASSUME NEW k \in 1 .. Len(due), NEW j \in 1 .. L PROVE ~RecordsIn(l, j, O(k))
  BY <1>9, DueUnrecorded DEF O
<1>11. ASSUME NEW k \in 1 .. n
       PROVE  /\ m[L + 1 + k].type = "dispatch" /\ m[L + 1 + k].id = due[k].id
              /\ m[L + 1 + k].acceptedAt = IF due[k].every = 0 THEN 0 ELSE t
  <2>1. m[L + 1 + k] = Nth(due, t, k)
    BY <1>5
  <2>2. /\ Nth(due, t, k).type = "dispatch" /\ Nth(due, t, k).id = due[k].id
        /\ Nth(due, t, k).acceptedAt = IF due[k].every = 0 THEN 0 ELSE t
    BY DEF Nth, Dispatched
  <2> QED
    BY <2>1, <2>2
<1>12. ASSUME NEW k \in 1 .. n PROVE RecordsIn(m, L + 1 + k, O(k))
  <2>1. k \in 1 .. Len(due)
    BY <1>1
  <2> QED
    BY <1>2, <1>4, <1>11, <2>1 DEF RecordsIn
<1>13. FreshAt(m, L + 1)
  <2> SUFFICES ASSUME NEW i \in DOMAIN m, Message(m, i), i < L + 1,
                      NEW o \in m[i].occurrences \cap m[L + 1].occurrences
               PROVE  m[i].life # m[L + 1].life /\ ~RecordedIn(m, i, L + 1, o)
    BY DEF FreshAt
  <2>1. i \in 1 .. L /\ i \in DOMAIN l /\ m[i] = l[i] /\ Message(l, i)
    BY <1>1, <1>5, <1>6 DEF Message
  <2>2. PICK k \in 1 .. Len(due) : o = O(k)
    BY <1>3, <1>5
  <2>3. \A j \in i + 1 .. L : ~RecordsIn(l, j, o)
    BY <1>1, <1>10, <2>1, <2>2
  <2>4. m[i].life # m[L + 1].life
    <3>1. LivedAt(l, i, current, FALSE)
      BY <2>1 DEF Lived
    <3> QED
      BY <1>3, <1>5, <2>1, <2>3, <3>1 DEF LivedAt
  <2>5. ~RecordedIn(m, i, L + 1, o)
    <3>1. \A j \in i + 1 .. (L + 1) - 1 : j \in i + 1 .. L /\ m[j] = l[j]
      BY <1>1, <1>5, <2>1
    <3> QED
      BY <2>3, <3>1 DEF RecordedIn, RecordsIn
  <2> QED
    BY <2>4, <2>5
<1>14. ASSUME NEW k \in 1 .. n PROVE BackedAt(m, L + 1 + k)
  <2>1. k \in 1 .. Len(due) /\ L + 1 < L + 1 + k
    BY <1>1
  <2>2. Message(m, L + 1) /\ L + 1 \in DOMAIN m /\ O(k) \in m[L + 1].occurrences
    BY <1>1, <1>3, <1>5, <1>6, <2>1 DEF Message
  <2>3. ~RecordedIn(m, L + 1, L + 1 + k, O(k))
    <3> SUFFICES ASSUME NEW x \in (L + 1) + 1 .. (L + 1 + k) - 1, RecordsIn(m, x, O(k))
                 PROVE  FALSE
      BY DEF RecordedIn
    <3> DEFINE j == x - (L + 1)
    <3>1. j \in 1 .. n /\ j \in 1 .. Len(due) /\ x = L + 1 + j /\ j # k
      BY <1>1
    <3> HIDE DEF j
    <3>2. m[x].id = due[j].id
      BY <1>11, <3>1
    <3>3. due[j].id = due[k].id
      BY <1>4, <2>1, <3>2 DEF RecordsIn
    <3> QED
      BY <2>1, <3>1, <3>3 DEF IsDue
  <2> QED
    BY <1>12, <2>1, <2>2, <2>3 DEF BackedAt
<1>15. ASSUME NEW j \in L + 1 .. Len(m)
       PROVE  \/ j = L + 1
              \/ \E k \in 1 .. n : j = L + 1 + k
  <2>1. j # L + 1 => j - (L + 1) \in 1 .. n /\ j = L + 1 + (j - (L + 1))
    BY <1>1, <1>5
  <2> QED
    BY <2>1
<1>16. Fresh(m) /\ Backed(m)
  <2>1. ASSUME NEW j \in L + 1 .. Len(m)
        PROVE  /\ m[j].type = "message" => FreshAt(m, j)
               /\ m[j].type = "dispatch" => BackedAt(m, j)
    <3>1. CASE j = L + 1
      BY <1>3, <1>5, <1>13, <3>1
    <3>2. CASE \E k \in 1 .. n : j = L + 1 + k
      BY <1>11, <1>14, <3>2
    <3> QED
      BY <1>15, <3>1, <3>2
  <2> QED
    BY <1>5, <1>7, <2>1, ExtendedInOrder
<1>17. LivedAt(m, L + 1, current, failed)
  <2> SUFFICES ASSUME n = Len(due), NEW o \in m[L + 1].occurrences
               PROVE  \E x \in (L + 1) + 1 .. Len(m) : RecordsIn(m, x, o)
    BY <1>3, <1>5 DEF LivedAt
  <2>1. PICK k \in 1 .. n : o = O(k)
    BY <1>3, <1>5
  <2>2. L + 1 + k \in (L + 1) + 1 .. Len(m)
    BY <1>1, <1>5
  <2> QED
    BY <1>12, <2>1, <2>2
<1>18. Lived(m, current, failed)
  <2> SUFFICES ASSUME NEW i \in DOMAIN m, Message(m, i)
               PROVE  LivedAt(m, i, current, failed)
    BY DEF Lived
  <2>1. CASE i \in 1 .. L
    <3>1. LivedAt(l, i, current, FALSE)
      BY <1>1, <1>5, <2>1 DEF Lived, Message
    <3>2. LivedAt(m, i, current, FALSE)
      BY <1>5, <1>7, <2>1, <3>1, LivedKept
    <3> QED
      BY <3>2 DEF LivedAt
  <2>2. CASE i = L + 1
    BY <1>17, <2>2
  <2>3. CASE \E k \in 1 .. n : i = L + 1 + k
    BY <1>11, <2>3 DEF Message
  <2>4. i \in 1 .. L \/ i \in L + 1 .. Len(m)
    BY <1>1, <1>5, <1>6
  <2> QED
    BY <1>15, <2>1, <2>2, <2>3, <2>4
<1> QED
  BY <1>1, <1>5, <1>7, <1>8, <1>16, <1>18

\* One event of a tool keeps the log in order.
LEMMA AppendInOrder ==
  ASSUME NEW l \in Seq(Events), Accepted(l), Fresh(l), Backed(l),
         NEW current, NEW failed, Lived(l, current, failed),
         NEW e \in Events, e.type \in {"create", "delete"}, Accepts(l, e),
         NEW m, m = Append(l, e)
  PROVE  /\ m \in Seq(Events) /\ Len(m) = Len(l) + 1
         /\ Accepted(m) /\ Fresh(m) /\ Backed(m) /\ Lived(m, current, failed)
<1>1. /\ m \in Seq(Events) /\ Len(l) \in Nat /\ Len(m) = Len(l) + 1
      /\ DOMAIN l = 1 .. Len(l) /\ DOMAIN m = 1 .. Len(l) + 1
      /\ m[Len(l) + 1] = e
      /\ \A i \in DOMAIN l : m[i] = l[i]
  BY Appended
<1>2. Prefixed(l, m)
  BY <1>1 DEF Prefixed
<1>3. Accepted(m)
  BY AcceptedAppend
<1>4. \A j \in Len(l) + 1 .. Len(m) : m[j].type \notin {"message", "dispatch"}
  BY <1>1
<1>5. Fresh(m) /\ Backed(m)
  BY <1>1, <1>2, <1>4, ExtendedInOrder
<1>6. Lived(m, current, failed)
  <2> SUFFICES ASSUME NEW i \in DOMAIN m, Message(m, i)
               PROVE  LivedAt(m, i, current, failed)
    BY DEF Lived
  <2>1. i \in 1 .. Len(l) /\ Message(l, i)
    BY <1>1, <1>4 DEF Message
  <2>2. LivedAt(l, i, current, failed)
    BY <1>1, <2>1 DEF Lived
  <2> QED
    BY <1>1, <1>2, <2>1, <2>2, LivedKept
<1> QED
  BY <1>1, <1>3, <1>5, <1>6

\* Every step keeps the log in order.
LEMMA LogStep == ASSUME RInv, [Next]_vars PROVE LogOK' /\ LivesOK' /\ RemindedOnce'
<1> USE DEF LogOK, RInv, owner, agent, disk, manager, Elsewhere
<1>0. /\ log \in Seq(Events) /\ Len(log) \in Nat /\ life \in Nat
      /\ Fresh(log) /\ Backed(log) /\ Accepted(log) /\ Lived(log, life, faulted)
  BY RemindedFacts, LenProperties
<1>1. CASE Quiet
  <2>1. log' = log /\ life' = life /\ (faulted => faulted')
    BY <1>1 DEF Quiet
  <2>2. Lived(log', life', faulted')
    BY <1>0, <2>1 DEF Lived, LivedAt
  <2>3. LogOK'
    BY <1>0, <1>1 DEF Quiet
  <2> QED
    BY <1>0, <2>1, <2>2, <2>3, RemindedFacts
<1>2. CASE Creates \/ Deletes
  <2>1. PICK e \in Events : /\ e.type \in {"create", "delete"}
                            /\ log' = Append(log, e) /\ Accepts(log, e)
    BY <1>0, <1>2, CreateAppends, DeleteAppends
  <2>2. life' = life /\ faulted' = faulted /\ now' = now /\ stored' = Len(log)
    BY <1>2 DEF Creates, Deletes, CallAppends, Flushed
  <2>3. /\ log' \in Seq(Events) /\ Len(log') = Len(log) + 1
        /\ Accepted(log') /\ Fresh(log') /\ Backed(log') /\ Lived(log', life, faulted)
    BY <1>0, <2>1, AppendInOrder
  <2>4. LogOK'
    BY <1>0, <2>2, <2>3
  <2> QED
    BY <2>2, <2>3, <2>4, RemindedFacts
<1>3. CASE \E due, t, n : Delivers(due, t, n)
  <2>1. PICK due, t, n : Delivers(due, t, n)
    BY <1>3
  <2>2. /\ t \in Instants /\ due \in Due(Active(log), t) /\ n \in 0 .. Len(due)
        /\ run = "preflight" /\ stored' = Len(log) /\ now' = t /\ life' = life
        /\ n = Len(due) \/ faulted'
        /\ Queues(due, t, n)
    BY <2>1 DEF Delivers, Drives, Flushed
  <2>3. t \in Nat /\ FoldOK(log)
    BY <1>0, <2>2, AcceptedFolds DEF Instants
  <2>4. IsDue(log, due, t)
    BY <1>0, <2>2, <2>3, DueFacts DEF IsDue
  <2>5. ~faulted
    BY <2>2 DEF FaultOK
  <2>6. Lived(log, life, FALSE)
    BY <1>0, <2>5 DEF Lived, LivedAt
  <2> DEFINE r == Reminder({<<due[k].id, latest(due[k], t)>> : k \in DOMAIN due})
             failed == n # Len(due)
  <2>7. IsReminder(r, due, t, life)
    <3>1. DOMAIN due = 1 .. Len(due)
      BY <2>4, LenProperties DEF IsDue
    <3> QED
      BY <3>1 DEF IsReminder, ReminderOf, Reminder
  <2>8. IsBatch(log', log, r, due, t, n)
    BY <2>1 DEF Delivers, Queues, IsBatch, Batch
  <2> HIDE DEF r
  <2>9. /\ log' \in Seq(Events) /\ Len(log) < Len(log')
        /\ Accepted(log') /\ Fresh(log') /\ Backed(log') /\ Lived(log', life, failed)
    BY <1>0, <2>2, <2>3, <2>4, <2>6, <2>7, <2>8, BatchInOrder
  <2>10. Lived(log', life', faulted')
    <3>1. n = Len(due) \/ faulted'
      BY <2>1 DEF Delivers
    <3> QED
      BY <2>2, <2>9, <3>1 DEF Lived, LivedAt
  <2>11. LogOK'
    BY <1>0, <2>2, <2>9, LenProperties
  <2> QED
    BY <2>9, <2>10, <2>11, RemindedFacts
<1>4. CASE CrashAndResume
  <2>1. PICK n \in stored .. Len(log) : log' = SubSeq(log, 1, n)
    BY <1>4 DEF CrashAndResume
  <2>2. n \in 0 .. Len(log)
    BY <1>0, <2>1
  <2>3. /\ log' \in Seq(Events) /\ Len(log') = n /\ DOMAIN log' = 1 .. n
        /\ \A i \in 1 .. n : log'[i] = log[i]
    BY <1>0, <2>1, <2>2, PrefixFacts
  <2>4. life' = life + 1 /\ stored' = Len(log') /\ now' = now
    BY <1>4 DEF CrashAndResume
  <2>5. Prefixed(log', log)
    BY <1>0, <2>2, <2>3 DEF Prefixed
  <2>6. Fresh(log') /\ Backed(log')
    BY <1>0, <2>3, <2>5, PrefixInOrder
  <2>7. Accepted(log')
    BY <1>0, <2>1, <2>2, AcceptedPrefix
  <2>8. Lived(log', life', faulted')
    <3> SUFFICES ASSUME NEW i \in 1 .. n, Message(log', i)
                 PROVE  log'[i].life < life + 1 /\ log'[i].life \in Nat
      BY <1>0, <2>3, <2>4 DEF Lived, LivedAt
    <3>1. i \in DOMAIN log /\ log[i] \in Events /\ log'[i] = log[i]
      BY <1>0, <2>2, <2>3, LenProperties
    <3>2. log[i].type = "message"
      BY <3>1 DEF Message
    <3>3. log[i].life \in Nat
      BY <3>1, <3>2, EventShape
    <3>4. log[i].life <= life
      BY <1>0, <3>1, <3>2 DEF Lived, LivedAt, Message
    <3> QED
      BY <1>0, <3>1, <3>3, <3>4
  <2>9. LogOK'
    BY <1>0, <2>2, <2>3, <2>4
  <2> QED
    BY <2>6, <2>7, <2>8, <2>9, RemindedFacts
<1> QED
  BY <1>1, <1>2, <1>3, <1>4, StepKinds

\* The log starts empty.
LEMMA InitRInv == Init => RInv
<1> SUFFICES ASSUME Init PROVE RInv
  OBVIOUS
<1>1. log = <<>> /\ life \in Nat /\ stored = 0 /\ now \in Instants /\ call = NoCall
      /\ ~faulted
  BY BoundsAssumption DEF Init, Instants
<1>2. LogOK /\ CallOK /\ FaultOK
  BY <1>1 DEF LogOK, CallOK, FaultOK, NoCall
<1>3. DOMAIN log = {}
  BY <1>1
<1>4. LivesOK /\ RemindedOnce
  BY <1>3 DEF LivesOK, RemindedOnce, Positions
<1> QED
  BY <1>2, <1>4, InitInv DEF RInv

\* The invariant of the log, with that of the control.
LEMMA RInvariance == Spec => []RInv
<1>1. RInv /\ [Next]_vars => RInv'
  <2> SUFFICES ASSUME RInv, [Next]_vars PROVE RInv'
    OBVIOUS
  <2>1. IInv'
    BY TypeStep, ChainStep, TriggerStep DEF RInv, IInv
  <2>2. FaultOK'
    BY FaultStep DEF RInv, IInv
  <2> QED
    BY <2>1, <2>2, CallStep, LogStep DEF RInv
<1> QED BY InitRInv, <1>1, PTL DEF Spec

\* An occurrence is queued again only by a later life that found no dispatch of
\* it; each dispatch follows the reminder it records; replay accepts the log
\* (runtime.ts queues, then appends; domain.ts folds; a crash keeps a prefix).
THEOREM RemindersCorrect == Spec => []RemindedOnce
<1>1. RInv => RemindedOnce
  BY DEF RInv
<1> QED BY RInvariance, <1>1, PTL

\* A call that confirms does so from the log that is durable with its answer.
LEMMA ConfirmStep ==
  ASSUME RInv, [Next]_vars, call # NoCall, call' = NoCall
  PROVE  Confirms(answer', Active(SubSeq(log', 1, stored')))
<1> USE DEF owner, agent, disk, manager, Elsewhere
<1> LogOK /\ CallOK /\ TypeOK
  BY DEF RInv, IInv
<1>0. SubSeq(log, 1, Len(log)) = log
  <2>1. Len(log) \in 0 .. Len(log)
    BY LenProperties DEF LogOK
  <2> QED
    BY <2>1, Prefixes DEF LogOK
<1>1. CASE answer'.kind \in {"none", "aborted", "uncertain", "invalid", "internal"}
  BY <1>1 DEF Confirms
<1>2. CASE List
  <2>1. /\ stored' = Len(log) /\ log' = log
        /\ answer' = [kind |-> "list", active |-> Active(log)]
    BY <1>2 DEF List, CallEnds, Answers, Flushed
  <2> QED
    BY <1>0, <2>1 DEF Confirms
<1>3. CASE Create
  <2>1. ~(\E e, id : CallAppends(e, id))
    BY DEF CallAppends, NoCall, TypeOK
  <2>2. answer'.kind \in {"invalid", "aborted", "internal"}
    BY <1>3, <2>1 DEF Create, CallEnds, Answers
  <2> QED
    BY <1>1, <2>2
<1>4. CASE Delete
  <2>1. ~(\E e, id : CallAppends(e, id))
    BY DEF CallAppends, NoCall, TypeOK
  <2>2. CASE CallEnds([kind |-> "not_found", id |-> call.input], 0)
             /\ ~Holds(Active(log), call.input)
    <3>1. /\ stored' = Len(log) /\ log' = log
          /\ answer' = [kind |-> "not_found", id |-> call.input]
      BY <2>2 DEF CallEnds, Answers, Flushed
    <3> QED
      BY <1>0, <2>2, <3>1 DEF Confirms
  <2>3. CASE answer'.kind \in {"aborted", "internal"}
    BY <1>1, <2>3
  <2> QED
    BY <1>4, <2>1, <2>2, <2>3 DEF Delete, CallEnds, Answers
<1>5. CASE CallStored
  <2>1. /\ stored' = Len(log) /\ log' = log /\ call.step = "barrier"
        /\ answer' = [kind |-> call.op, id |-> call.id]
    BY <1>5 DEF CallStored, Calls, Answers, Flushed
  <2>2. /\ call.op \in {"create", "delete", "list"} /\ call.op # "list"
        /\ call.op = "create" => Holds(Active(log), call.id)
        /\ call.op = "delete" => ~Holds(Active(log), call.id)
    BY <2>1 DEF CallOK, Requests
  <2> QED
    BY <1>0, <2>1, <2>2 DEF Confirms
<1>6. CASE CallStarts \/ CallFlushFails \/ CrashAndResume
  <2>1. answer'.kind \in {"none", "aborted", "uncertain"}
    BY <1>6 DEF CallStarts, Calls, CallFlushFails, CrashAndResume, Answers, NoCall, TypeOK
  <2> QED
    BY <1>1, <2>1
<1>7. CASE call' = call
  BY <1>7
<1>8. CASE AbortCall
  BY <1>8 DEF AbortCall, NoCall, TypeOK
<1>9. CASE \E op, input : Call(op, input)
  BY <1>9 DEF Call, NoCall
<1>10. CASE Tick \/ ClockJumps \/ TimerFires \/ IdleReached \/ EndTurn \/ EndMaintenance
  BY <1>7, <1>10 DEF Tick, ClockJumps, TimerFires, IdleReached, EndTurn, EndMaintenance
<1>11. CASE \E kind \in {"running", "job"} : StartActivity(kind)
  BY <1>7, <1>11 DEF StartActivity
<1>12. CASE DriveStarts \/ DriveFlushFails \/ PreflightStops \/ NothingDue \/ AgentBusy
  BY <1>7, <1>12 DEF DriveStarts, DriveFlushFails, PreflightStops, NothingDue, AgentBusy
<1>13. CASE \E t \in Instants : JobWaits(t) \/ FollowupFails(t) \/ JobDelivers(t) \/ JobFaults(t)
  BY <1>7, <1>13 DEF JobWaits, FollowupFails, JobDelivers, JobFaults, Claims
<1>14. CASE MaintenanceReturns \/ DispatchStored \/ RunContinues \/ retire \/ dispose \/ Disposed
  BY <1>7, <1>14 DEF MaintenanceReturns, DispatchStored, RunContinues, retire, dispose, Disposed
<1>15. CASE UNCHANGED vars
  BY <1>7, <1>15 DEF vars
<1> QED
  BY <1>2, <1>3, <1>4, <1>5, <1>6, <1>8, <1>9, <1>10, <1>11, <1>12, <1>13, <1>14, <1>15
  DEF Next, Progress, Driver, Manager, Failure, Input

\* A reminder is queued for records that the durable log holds active.
LEMMA QueueStep ==
  ASSUME RInv, [Next]_vars, NEW i \in Len(log) + 1 .. Len(log'),
         log'[i].type = "message", NEW o \in log'[i].occurrences
  PROVE  Holds(Active(SubSeq(log', 1, stored')), o[1])
<1> USE DEF LogOK, RInv, owner, agent, disk, manager, Elsewhere
<1>0. log \in Seq(Events) /\ Len(log) \in Nat /\ Accepted(log) /\ life \in Nat
  BY RemindedFacts, LenProperties
<1>1. log' # log /\ ~CrashAndResume
  <2>1. log' # log
    BY <1>0
  <2>2. ASSUME CrashAndResume PROVE FALSE
    <3>1. PICK n \in stored .. Len(log) : log' = SubSeq(log, 1, n)
      BY <2>2 DEF CrashAndResume
    <3>2. n \in 0 .. Len(log)
      BY <1>0, <3>1
    <3>3. Len(log') = n
      BY <1>0, <3>1, <3>2, PrefixFacts
    <3> QED
      BY <1>0, <3>2, <3>3
  <2> QED
    BY <2>1, <2>2
<1>2. ~Quiet
  BY <1>1 DEF Quiet
<1>3. ~(Creates \/ Deletes)
  <2> SUFFICES ASSUME Creates \/ Deletes PROVE FALSE
    OBVIOUS
  <2>1. PICK e \in Events : e.type \in {"create", "delete"} /\ log' = Append(log, e)
    BY <1>0, CreateAppends, DeleteAppends
  <2>2. Len(log') = Len(log) + 1 /\ log'[Len(log) + 1] = e
    BY <1>0, <2>1, AppendProperties
  <2>3. i = Len(log) + 1
    BY <1>0, <2>2
  <2> QED
    BY <2>1, <2>2, <2>3
<1>4. PICK due, t, n : Delivers(due, t, n)
  BY <1>1, <1>2, <1>3, StepKinds
<1>5. /\ t \in Instants /\ due \in Due(Active(log), t) /\ n \in 0 .. Len(due)
      /\ stored' = Len(log) /\ Queues(due, t, n)
  BY <1>4 DEF Delivers, Flushed
<1>6. t \in Nat /\ FoldOK(log)
  BY <1>0, <1>5, AcceptedFolds DEF Instants
<1>7. IsDue(log, due, t)
  BY <1>0, <1>5, <1>6, DueFacts DEF IsDue
<1> DEFINE r == Reminder({<<due[k].id, latest(due[k], t)>> : k \in DOMAIN due})
<1>8. due \in Seq(Schedules) /\ DOMAIN due = 1 .. Len(due)
      /\ \A k \in 1 .. Len(due) : due[k] \in Schedules /\ due[k].at <= t
  BY <1>7, LenProperties DEF IsDue
<1>9. r \in Events /\ r.occurrences = {<<due[k].id, latest(due[k], t)>> : k \in 1 .. Len(due)}
  <2>1. \A k \in 1 .. Len(due) : latest(due[k], t) \in Nat /\ due[k].id \in Nat
    BY <1>6, <1>8, LatestBounds DEF Schedules
  <2> QED
    BY <1>0, <1>8, <2>1 DEF Reminder, Events
<1>10. log' = Batch(log, r, due, t, n)
  BY <1>5 DEF Queues, Batch
<1> HIDE DEF r
<1>11. BatchShape(log', log, r, due, t, n)
  BY <1>0, <1>5, <1>6, <1>8, <1>9, <1>10, BatchFacts
<1>12. i = Len(log) + 1 /\ log'[i] = r
  <2>1. ASSUME i # Len(log) + 1 PROVE FALSE
    <3> DEFINE k == i - (Len(log) + 1)
    <3>1. k \in 1 .. n /\ i = Len(log) + 1 + k
      BY <1>0, <1>5, <1>11, <2>1 DEF BatchShape
    <3> HIDE DEF k
    <3>2. log'[i] = Nth(due, t, k)
      BY <1>11, <3>1 DEF BatchShape
    <3> QED
      BY <3>2 DEF Nth, Dispatched
  <2> QED
    BY <1>11, <2>1 DEF BatchShape
<1>13. PICK k \in 1 .. Len(due) : o = <<due[k].id, latest(due[k], t)>>
  BY <1>9, <1>12
<1>14. o[1] = due[k].id
  BY <1>13
<1>15. PICK j \in Creations(log) : Left(log, j) = due[k] /\ due[k].at # Over
  BY <1>7 DEF IsDue
<1>16. j \in DOMAIN Active(log) /\ Active(log)[j].id = o[1]
  BY <1>14, <1>15, ActiveFacts
<1>17. SubSeq(log', 1, stored') = log
  <2>1. log' \in Seq(Events) /\ Len(log') = Len(log) + 1 + n
        /\ \A x \in 1 .. Len(log) : log'[x] = log[x]
    BY <1>11 DEF BatchShape
  <2>2. Len(log) \in 0 .. Len(log')
    BY <1>0, <1>5, <2>1
  <2>3. /\ SubSeq(log', 1, Len(log)) \in Seq(Events)
        /\ Len(SubSeq(log', 1, Len(log))) = Len(log)
        /\ \A x \in 1 .. Len(log) : SubSeq(log', 1, Len(log))[x] = log'[x]
    BY <2>1, <2>2, PrefixFacts
  <2>4. SubSeq(log', 1, Len(log)) = log
    BY <1>0, <2>1, <2>3, SeqEqual
  <2> QED
    BY <1>5, <2>4
<1> QED
  BY <1>16, <1>17 DEF Holds

\* What a call answers, and what is queued for the model, agrees with what a
\* resume from the durable log would fold (tools.ts, runtime.ts).
THEOREM ToldCorrect == Spec => ToldIsDurable
<1> DEFINE Told == LET active == Active(SubSeq(log', 1, stored'))
                   IN  /\ call # NoCall /\ call' = NoCall => Confirms(answer', active)
                       /\ \A i \in Len(log) + 1 .. Len(log') : log'[i].type = "message" =>
                            \A o \in log'[i].occurrences : Holds(active, o[1])
<1>1. RInv /\ [Next]_vars => [Told]_vars
  BY ConfirmStep, QueueStep
<1> QED BY RInvariance, <1>1, PTL DEF Spec, ToldIsDurable

=============================================================================
