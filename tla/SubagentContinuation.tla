------------------------ MODULE SubagentContinuation ------------------------
(***************************************************************************)
(* The manager of continuable subagents                                    *)
(* (packages/subagent/subagent/src/continuation.ts): a tree of durable     *)
(* children below one root agent, each with at most one Activation, that   *)
(* is, a resident epoch of its Agent.  Callers start children, send them   *)
(* messages and may abort; a watcher per Activation disposes it when it is *)
(* quiet and childless; a settled child tells its parent; the manager, or  *)
(* the host for its own root, drains the tree.                             *)
(*                                                                         *)
(* An Agent is reduced to its phase and its inbox (AgentDriver is the      *)
(* detail), a call of a provider, of the store or of agent creation to one *)
(* step that may fail.  The root has no Activation and is always live.     *)
(***************************************************************************)
EXTENDS Naturals, Sequences, FiniteSets, FiniteSetsExt

CONSTANTS Children,    \* the durable children
          Root,        \* the agent above them
          Parent,      \* the parentSession of each child
          Callers,     \* concurrent callers of start and followup
          watcher,     \* the name of a watcher in a queue
          Stored,      \* the children an earlier process left behind
          Limit        \* bound on each kind of input

Kinds == {"calls",     \* a start, a followup or a report
          "faults"}    \* a failure, an abort, an interrupt, a maintenance
\* A child is created by an agent that already exists: no cycle of parents.
ASSUME TreeAssumption == /\ Root \notin Children
                         /\ Parent \in [Children -> Children \cup {Root}]
                         /\ \A S \in (SUBSET Children) \ {{}} :
                              \E c \in S : Parent[c] \notin S
ASSUME NamesAssumption == watcher \notin Callers /\ Limit \in [Kinds -> Nat]

VARIABLES agent,       \* the Agent of each child, its latest one
          activation,  \* activations.get(child)
          lock,        \* ChildLock: the operations on a child, in order
          caller,      \* the callers' places and local variables
          drain,       \* how far the drain is, and what it waits for
          sent,        \* how many messages there have been: the next id
          used         \* how often each kind of input has happened

vars == <<agent, activation, lock, caller, drain, sent, used>>

NoAgent == [live |-> FALSE, epoch |-> 0, phase |-> "idle", opens |-> FALSE,
            aborted |-> FALSE, latched |-> FALSE, turns |-> {}, steps |-> {}]
Absent  == [resident |-> FALSE, disposal |-> "none", owned |-> {},
            waits |-> {}, accepted |-> {}, announced |-> FALSE,
            watch |-> "none", poked |-> FALSE]
Outside == [at |-> "outside", op |-> "none", child |-> Root, epoch |-> 0,
            aborted |-> FALSE]

Agents == [live : BOOLEAN, epoch : Nat, opens : BOOLEAN, aborted : BOOLEAN,
           phase : {"idle", "running", "leaving", "maintenance"},
           latched : BOOLEAN, turns : SUBSET Nat, steps : SUBSET Nat]
Activations == [resident : BOOLEAN, owned : SUBSET Children,
                disposal : {"none", "undo", "quiesce", "flush", "released"},
                waits : SUBSET Children, accepted : SUBSET Nat,
                announced : BOOLEAN, poked : BOOLEAN,
                watch : {"none", "race", "queued", "decided", "await"}]
Places == {"outside", "prepare", "queued", "wait", "inspect", "create",
           "undo", "submit", "rollback"}

TypeOK == /\ agent \in [Children -> Agents]
          /\ activation \in [Children -> Activations]
          /\ lock \in [Children ->
                         Seq([who : Callers \cup {watcher}, epoch : Nat])]
          /\ caller \in [Callers ->
               [at : Places, op : {"none", "start", "followup"},
                child : Children \cup {Root}, epoch : Nat, aborted : BOOLEAN]]
          /\ drain \in [at : {"none", "barrier", "release", "done"},
                        kind : {"none", "manager", "scope"},
                        roots : SUBSET Children]
          /\ sent \in Nat /\ used \in [Kinds -> Nat]

\* Epoch 1 without an Agent is a child that an earlier process left behind.
Init == /\ agent = [c \in Children |-> IF c \in Stored
                      THEN [NoAgent EXCEPT !.epoch = 1] ELSE NoAgent]
        /\ activation = [c \in Children |-> Absent]
        /\ lock = [c \in Children |-> <<>>]
        /\ caller = [k \in Callers |-> Outside]
        /\ drain = [at |-> "none", kind |-> "none", roots |-> {}]
        /\ sent = 0 /\ used = [kind \in Kinds |-> 0]

Spend(kind) ==
  used[kind] < Limit[kind] /\ used' = [used EXCEPT ![kind] = @ + 1]

(***************************************************************************)
(* The Agent.                                                              *)
(***************************************************************************)
status(a) == IF a.phase \in {"running", "leaving"} THEN "running" ELSE "idle"
Inbox(a) == a.turns \cup a.steps

\* Agent.send with the target and wakeup of followup, steer and inject.
followup(a, id) == [a EXCEPT !.turns = @ \cup {id}]
inject(a, id)   == [a EXCEPT !.steps = @ \cup {id}]

wakeDriver(a) ==
  IF a.phase = "idle"
  THEN [a EXCEPT !.phase = "running", !.opens = TRUE, !.aborted = FALSE]
  ELSE IF a.phase = "maintenance" \/ a.aborted
  THEN [a EXCEPT !.latched = TRUE]
  ELSE a

cancel(a, keepInbox) ==
  [a EXCEPT !.aborted = a.phase # "idle",
            !.turns   = IF keepInbox THEN @ ELSE {},
            !.steps   = IF keepInbox THEN @ ELSE {},
            !.latched = @ /\ keepInbox]

\* The end of a driver or of a maintenance; a latched wake is replayed.
Converged(a) ==
  LET idle == [a EXCEPT !.phase = "idle", !.aborted = FALSE,
                        !.latched = FALSE, !.opens = FALSE]
  IN  IF a.latched /\ Inbox(a) # {} THEN wakeDriver(idle) ELSE idle

(***************************************************************************)
(* Admission, ownership and accounting.                                    *)
(***************************************************************************)
\* closingTeardownFor: every agent of the tree is below the one root.
Closing == drain.at # "none"

Managed(c) == Parent[c] \in Children
Resident(c) == Managed(c) /\ activation[Parent[c]].resident

\* The exact parent Agent the caller holds is the registered one.
authorizeLineage(k) ==
  LET p == Parent[caller[k].child]
  IN  p \in Children => agent[p].live /\ agent[p].epoch = caller[k].epoch

\* A plausible bug: a parent that is being disposed takes another child.
ClosingParentBug(c) == TRUE

ParentAdmits(c) ==
  Resident(c) => activation[Parent[c]].disposal = "none"

acquireOwnership(c, table) ==
  IF Resident(c) THEN [table EXCEPT ![Parent[c]].owned = @ \cup {c}]
  ELSE table

\* With it the owner's disposal stops waiting and its watcher looks again.
releaseOwnership(c, table) ==
  [d \in Children |->
     IF c \in table[d].owned
     THEN [table[d] EXCEPT !.owned = @ \ {c}, !.waits = @ \ {c},
                           !.poked = TRUE]
     ELSE table[d]]

\* A plausible bug: what was sent is not accounted.
UnaccountedBug(id, d) == [d EXCEPT !.poked = TRUE]

admitWaking(id, d) ==
  IF d.resident THEN [d EXCEPT !.accepted = @ \cup {id}, !.poked = TRUE]
  ELSE d

\* The ids that leave the inbox of a child leave its account.
Accounted(ids, d) ==
  [d EXCEPT !.accepted = @ \ ids, !.poked = @ \/ d.accepted \cap ids # {}]

stateOf(c) ==
  IF status(agent[c]) = "running" \/ activation[c].accepted # {}
  THEN "running"
  ELSE IF activation[c].owned # {} THEN "waiting" ELSE "settled"

(***************************************************************************)
(* dispose: the transaction is installed and the Agent stopped for the     *)
(* child and, top-down in the same step, for every child it owns.          *)
(***************************************************************************)
\* The owned trees below a set of children: what every closed set contains.
Below(roots) ==
  {d \in Children :
     \A closed \in SUBSET Children :
       /\ roots \subseteq closed
       /\ \A e \in closed : activation[e].owned \subseteq closed
       => d \in closed}

Opened(roots) == {d \in Below(roots) : /\ activation[d].resident
                                       /\ activation[d].disposal = "none"}

dispose(roots) ==
  /\ agent' = [d \in Children |->
       IF d \in Opened(roots) THEN cancel(agent[d], FALSE) ELSE agent[d]]
  /\ activation' = [d \in Children |->
       IF d \in Opened(roots)
       THEN [Accounted(Inbox(agent[d]), activation[d]) EXCEPT
               !.disposal = "quiesce", !.waits = activation[d].owned,
               !.poked = TRUE]
       ELSE activation[d]]

\* Its own children first, and its Agent idle.
Quiesce(c) ==
  /\ activation[c].disposal = "quiesce"
  /\ activation[c].waits = {} /\ agent[c].phase = "idle"
  /\ activation' = [activation EXCEPT ![c].disposal = "flush"]
  /\ UNCHANGED <<agent, lock, caller, drain, sent, used>>

Unregistered(a) == [NoAgent EXCEPT !.epoch = a.epoch]

Release(c) ==
  /\ activation[c].disposal = "flush"
  /\ activation' = [activation EXCEPT ![c].disposal = "released"]
  /\ agent' = [agent EXCEPT ![c] = Unregistered(@)]
  /\ UNCHANGED <<lock, caller, drain, sent, used>>

Removed(c) == releaseOwnership(c, [activation EXCEPT ![c] = Absent])

\* notifySettlement, before the ownership of the child is released.
notifySettlement(c) ==
  LET p  == Parent[c]
      id == sent + 1
      notice == IF status(agent[p]) = "idle" THEN followup(agent[p], id)
                ELSE inject(agent[p], id)
  IN  /\ sent' = id
      /\ IF Closing
         THEN /\ agent' = [agent EXCEPT ![p] = inject(@, id)]
              /\ activation' = Removed(c)
         ELSE /\ agent' = [agent EXCEPT ![p] = wakeDriver(notice)]
              /\ activation' =
                   [Removed(c) EXCEPT ![p] = admitWaking(id, @)]

Settle(c) ==
  /\ activation[c].disposal = "released"
  /\ \/ /\ activation[c].announced /\ Managed(c) /\ agent[Parent[c]].live
        /\ notifySettlement(c)
     \/ /\ ~(activation[c].announced /\ Managed(c) /\ agent[Parent[c]].live)
        /\ activation' = Removed(c) /\ UNCHANGED <<agent, sent>>
  /\ UNCHANGED <<lock, caller, drain, used>>

(***************************************************************************)
(* The callers of startContinuable and followup.                           *)
(***************************************************************************)
Holds(k) == LET c == caller[k].child
            IN  lock[c] # <<>> /\ Head(lock[c]).who = k

Queue(c, who, epoch) ==
  lock' = [lock EXCEPT ![c] = Append(@, [who |-> who, epoch |-> epoch])]
Unlock(c) == lock' = [lock EXCEPT ![c] = Tail(@)]
At(k, place) == caller' = [caller EXCEPT ![k].at = place]
Returns(k) == caller' = [caller EXCEPT ![k] = Outside]

\* A call comes from a turn of the parent or from its host, in a task of its
\* own: not in the microtasks between the creation of the parent's Agent and
\* what is submitted to it.
Submitting(c) == \E k \in Callers : caller[k].at = "submit" /\ caller[k].child = c
ParentLive(c) ==
  Managed(c) => agent[Parent[c]].live /\ ~Submitting(Parent[c])

Request(c, op, place) ==
  [at |-> place, op |-> op, child |-> c, aborted |-> FALSE,
   epoch |-> IF Managed(c) THEN agent[Parent[c]].epoch ELSE 0]

startContinuable(k, c) ==
  /\ caller[k].at = "outside" /\ Spend("calls")
  /\ agent[c].epoch = 0 /\ \A j \in Callers : caller[j].child # c
  /\ ParentLive(c) /\ ~Closing
  /\ caller' = [caller EXCEPT ![k] = Request(c, "start", "prepare")]
  /\ UNCHANGED <<agent, activation, lock, drain, sent>>

Followup(k, c) ==
  /\ caller[k].at = "outside" /\ Spend("calls")
  /\ agent[c].epoch > 0 /\ ParentLive(c) /\ ~Closing
  /\ caller' = [caller EXCEPT ![k] = Request(c, "followup", "queued")]
  /\ Queue(c, k, 0)
  /\ UNCHANGED <<agent, activation, drain, sent>>

Abort(k) ==
  /\ caller[k].at # "outside" /\ ~caller[k].aborted /\ Spend("faults")
  /\ caller' = [caller EXCEPT ![k].aborted = TRUE]
  /\ UNCHANGED <<agent, activation, lock, drain, sent>>

Prepared(k) ==
  /\ caller[k].at = "prepare"
  /\ \/ /\ ~caller[k].aborted /\ ~Closing
        /\ At(k, "queued") /\ Queue(caller[k].child, k, 0) /\ UNCHANGED used
     \/ /\ \/ (caller[k].aborted \/ Closing) /\ UNCHANGED used
           \/ Spend("faults")
        /\ Returns(k) /\ UNCHANGED lock
  /\ UNCHANGED <<agent, activation, drain, sent>>

\* submitAdmitted and submit: the last cutoff and the send, without an await.
Admits(k) ==
  LET c == caller[k].child
  IN  /\ ~caller[k].aborted /\ ~Closing
      /\ activation[c].resident /\ activation[c].disposal = "none"
      /\ authorizeLineage(k) /\ ParentAdmits(c)

submit(c) ==
  LET id == sent + 1
  IN  /\ sent' = id
      /\ agent' = [agent EXCEPT ![c] = wakeDriver(followup(@, id))]
      /\ activation' =
           [acquireOwnership(c, activation) EXCEPT
              ![c] = [admitWaking(id, @) EXCEPT !.announced = TRUE]]

\* The start of the critical section.
Locked(k) ==
  /\ caller[k].at = "queued" /\ Holds(k)
  /\ LET c == caller[k].child
         d == activation[c]
     IN  \/ /\ caller[k].op = "start" /\ ~Closing /\ ~caller[k].aborted
            /\ At(k, "create") /\ UNCHANGED <<agent, activation, lock, sent>>
         \/ /\ caller[k].op = "start" /\ (Closing \/ caller[k].aborted)
            /\ Returns(k) /\ Unlock(c) /\ UNCHANGED <<agent, activation, sent>>
         \/ /\ caller[k].op = "followup" /\ ~d.resident
            /\ At(k, "inspect") /\ UNCHANGED <<agent, activation, lock, sent>>
         \/ /\ caller[k].op = "followup" /\ d.resident /\ d.disposal # "none"
            /\ At(k, "wait") /\ UNCHANGED <<agent, activation, lock, sent>>
         \/ /\ caller[k].op = "followup" /\ d.resident /\ d.disposal = "none"
            /\ IF Admits(k) THEN submit(c)
               ELSE UNCHANGED <<agent, activation, sent>>
            /\ Returns(k) /\ Unlock(c)
  /\ UNCHANGED <<drain, used>>

\* A delivery that lost the race with a disposal begins again.
Waited(k) ==
  LET c == caller[k].child
  IN  /\ caller[k].at = "wait" /\ ~activation[c].resident
      /\ \/ /\ ~Closing /\ ~caller[k].aborted /\ At(k, "queued")
            /\ lock' = [lock EXCEPT ![c] =
                          Append(Tail(@), [who |-> k, epoch |-> 0])]
         \/ (Closing \/ caller[k].aborted) /\ Returns(k) /\ Unlock(c)
      /\ UNCHANGED <<agent, activation, drain, sent, used>>

Inspected(k) ==
  LET c  == caller[k].child
      ok == ~caller[k].aborted /\ ~Closing /\ authorizeLineage(k)
  IN  /\ caller[k].at = "inspect"
      /\ \/ ok /\ At(k, "create") /\ UNCHANGED <<lock, used>>
         \/ /\ \/ ~ok /\ UNCHANGED used
               \/ Spend("faults")
            /\ Returns(k) /\ Unlock(c)
      /\ UNCHANGED <<agent, activation, drain, sent>>

\* materialize: the Agent is created, installed and handed to its owner, or
\* released before it was published.
Created(k) ==
  LET c  == caller[k].child
      ok == ~caller[k].aborted /\ ~Closing /\ ParentAdmits(c)
      fresh == [Absent EXCEPT !.resident = TRUE]
  IN  /\ caller[k].at = "create"
      /\ \/ /\ agent' = [agent EXCEPT ![c] =
                           [NoAgent EXCEPT !.live = TRUE, !.epoch = agent[c].epoch + 1]]
            /\ \/ /\ ok /\ At(k, "submit")
                  /\ activation' = acquireOwnership(c, [activation EXCEPT
                                     ![c] = [fresh EXCEPT !.watch = "race"]])
               \/ /\ ~ok /\ At(k, "undo")
                  /\ activation' = [activation EXCEPT ![c] =
                                      [fresh EXCEPT !.disposal = "undo"]]
            /\ UNCHANGED <<lock, used>>
         \/ /\ \/ caller[k].aborted /\ UNCHANGED used
               \/ Spend("faults")
            /\ Returns(k) /\ Unlock(c) /\ UNCHANGED <<agent, activation>>
      /\ UNCHANGED <<drain, sent>>

\* The end of rollbackUnpublished.
Undone(k) ==
  LET c == caller[k].child
  IN  /\ caller[k].at = "undo"
      /\ agent' = [agent EXCEPT ![c] = Unregistered(@)]
      /\ activation' = Removed(c)
      /\ Returns(k) /\ Unlock(c)
      /\ UNCHANGED <<drain, sent, used>>

submitMaterialized(k) ==
  LET c == caller[k].child
  IN  /\ caller[k].at = "submit"
      /\ \/ Admits(k) /\ submit(c) /\ Returns(k) /\ Unlock(c)
         \/ /\ ~Admits(k) /\ dispose({c}) /\ At(k, "rollback")
            /\ UNCHANGED <<lock, sent>>
      /\ UNCHANGED <<drain, used>>

RolledBack(k) ==
  LET c == caller[k].child
  IN  /\ caller[k].at = "rollback" /\ ~activation[c].resident
      /\ Returns(k) /\ Unlock(c)
      /\ UNCHANGED <<agent, activation, drain, sent, used>>

(***************************************************************************)
(* The Agent's own steps, and what reaches it from outside.                *)
(***************************************************************************)
Claims(c, ids, a) ==
  /\ agent' = [agent EXCEPT ![c] = a]
  /\ activation' = [activation EXCEPT ![c] = Accounted(ids, @)]
  /\ UNCHANGED <<lock, caller, drain, sent, used>>

\* A claim takes all steering and, where a turn opens, its first message.
OpenTurn(c) ==
  LET a == agent[c]
      first == IF a.turns = {} THEN {} ELSE {Min(a.turns)}
  IN  /\ a.phase = "running" /\ a.opens /\ ~a.aborted
      /\ Claims(c, first \cup a.steps,
                [a EXCEPT !.opens = FALSE, !.steps = {},
                          !.turns = @ \ first])

ClaimSteps(c) ==
  LET a == agent[c]
  IN  /\ a.phase = "running" /\ ~a.opens /\ ~a.aborted /\ a.steps # {}
      /\ Claims(c, a.steps, [a EXCEPT !.steps = {}])

Moves(c, a) == /\ agent' = [agent EXCEPT ![c] = a]
               /\ UNCHANGED <<activation, lock, caller, drain, sent>>

\* The last look at the inbox; the phase ends one step later.
EndTurn(c) ==
  LET a == agent[c]
  IN  /\ a.phase = "running" /\ ~a.opens /\ ~a.aborted /\ a.steps = {}
      /\ Moves(c, IF a.turns # {} THEN [a EXCEPT !.opens = TRUE]
                  ELSE [a EXCEPT !.phase = "leaving"])
      /\ UNCHANGED used

\* A turn that fails or is refused leaves with its inbox pending.
FailTurn(c) ==
  /\ agent[c].phase = "running" /\ ~agent[c].opens /\ Spend("faults")
  /\ Moves(c, [agent[c] EXCEPT !.phase = "leaving"])

Converge(c) ==
  /\ \/ agent[c].phase \in {"leaving", "maintenance"}
     \/ agent[c].phase = "running" /\ agent[c].aborted
  /\ Moves(c, Converged(agent[c])) /\ UNCHANGED used

runMaintenance(c) ==
  /\ agent[c].live /\ agent[c].phase = "idle" /\ Spend("faults")
  /\ Moves(c, [agent[c] EXCEPT !.phase = "maintenance", !.aborted = FALSE])

interrupt(c) ==
  /\ activation[c].resident /\ activation[c].disposal = "none"
  /\ Spend("faults") /\ Moves(c, cancel(agent[c], TRUE))

\* A report, from a turn of the child, to a parent that is a child itself.
reportFrom(c, delivery) ==
  LET p  == Parent[c]
      id == sent + 1
  IN  /\ activation[c].resident /\ activation[c].disposal = "none"
      /\ agent[c].phase = "running" /\ ~agent[c].opens
      /\ ~Closing /\ Managed(c) /\ agent[p].live /\ Spend("calls")
      /\ sent' = id
      /\ \/ /\ delivery = "wakeup"
            /\ agent' = [agent EXCEPT ![p] = wakeDriver(followup(@, id))]
            /\ activation' = [activation EXCEPT ![p] = admitWaking(id, @)]
         \/ /\ delivery = "quiet"
            /\ agent' = [agent EXCEPT ![p] = inject(@, id)]
            /\ UNCHANGED activation
      /\ UNCHANGED <<lock, caller, drain>>

(***************************************************************************)
(* watchSettlement: the promise it captured before it looked is the one it *)
(* waits for.                                                              *)
(***************************************************************************)
Race(c) ==
  /\ activation[c].watch = "race"
  /\ activation[c].poked \/ agent[c].phase = "idle"
  /\ IF activation[c].disposal # "none"
     THEN activation' = [activation EXCEPT ![c].watch = "none"]
          /\ UNCHANGED lock
     ELSE /\ activation' = [activation EXCEPT ![c].watch = "queued"]
          /\ Queue(c, watcher, agent[c].epoch)
  /\ UNCHANGED <<agent, caller, drain, sent, used>>

\* In the lock.  A watcher that outlived its epoch finds nothing to do.
Decide(c) ==
  /\ lock[c] # <<>> /\ Head(lock[c]).who = watcher /\ Unlock(c)
  /\ LET mine == /\ activation[c].resident /\ activation[c].watch = "queued"
                 /\ Head(lock[c]).epoch = agent[c].epoch
         settles == /\ activation[c].disposal = "none"
                    /\ stateOf(c) = "settled"
     IN  \/ ~mine /\ UNCHANGED <<agent, activation>>
         \/ /\ mine /\ ~settles /\ UNCHANGED agent
            /\ activation' = [activation EXCEPT ![c].watch = "decided"]
         \/ mine /\ settles /\ dispose({c})
  /\ UNCHANGED <<caller, drain, sent, used>>

Loops(c, watch) ==
  /\ activation' = [activation EXCEPT ![c].watch = watch, ![c].poked = FALSE]
  /\ UNCHANGED <<agent, lock, caller, drain, sent, used>>

\* A plausible bug: the promise to wait for is taken after the decision.
LatePokeBug(c) ==
  /\ activation[c].watch = "decided"
  /\ Loops(c, IF status(agent[c]) = "running" THEN "race" ELSE "await")

Decided(c) ==
  /\ activation[c].watch = "decided"
  /\ \/ status(agent[c]) = "running" /\ Loops(c, "race")
     \/ /\ status(agent[c]) # "running"
        /\ activation' = [activation EXCEPT ![c].watch = "await"]
        /\ UNCHANGED <<agent, lock, caller, drain, sent, used>>

Awaited(c) ==
  activation[c].watch = "await" /\ activation[c].poked /\ Loops(c, "race")

(***************************************************************************)
(* drain and drainDescendants.                                             *)
(***************************************************************************)
Residents == {c \in Children : activation[c].resident}
Roots == Residents \ UNION {activation[c].owned : c \in Residents}
Materializing == {k \in Callers : caller[k].at \in {"create", "undo"}}

Drain(kind) ==
  /\ drain.at = "none"
  /\ \/ /\ kind = "manager" /\ UNCHANGED <<agent, activation>>
        /\ drain' = [at |-> "barrier", kind |-> kind, roots |-> {}]
     \/ /\ kind = "scope" /\ dispose(Residents)
        /\ drain' = [at |-> "barrier", kind |-> kind, roots |-> Roots]
  /\ UNCHANGED <<lock, caller, sent, used>>

\* A plausible bug: the drain does not wait for what is being materialized.
NoBarrierBug ==
  /\ drain.at = "barrier" /\ dispose(Roots)
  /\ drain' = [drain EXCEPT !.at = "release", !.roots = Roots]
  /\ UNCHANGED <<lock, caller, sent, used>>

Barrier ==
  /\ drain.at = "barrier" /\ Materializing = {}
  /\ \/ /\ drain.kind = "manager" /\ dispose(Roots)
        /\ drain' = [drain EXCEPT !.at = "release", !.roots = Roots]
     \/ /\ drain.kind = "scope" /\ dispose(drain.roots)
        /\ drain' = [drain EXCEPT !.at = "release"]
  /\ UNCHANGED <<lock, caller, sent, used>>

Drained ==
  /\ drain.at = "release" /\ drain.roots \cap Residents = {}
  /\ drain' = [drain EXCEPT !.at = "done"]
  /\ UNCHANGED <<agent, activation, lock, caller, sent, used>>

(***************************************************************************)
(* The specification.                                                      *)
(***************************************************************************)
CallerStep(k) == \/ Prepared(k) \/ Locked(k) \/ Waited(k) \/ Inspected(k)
                 \/ Created(k) \/ Undone(k) \/ submitMaterialized(k)
                 \/ RolledBack(k)
ChildStep(c) == \/ Quiesce(c) \/ Release(c) \/ Settle(c)
                \/ OpenTurn(c) \/ ClaimSteps(c) \/ EndTurn(c) \/ Converge(c)
                \/ Race(c) \/ Decide(c) \/ Decided(c) \/ Awaited(c)

Progress == \/ \E k \in Callers : CallerStep(k)
            \/ \E c \in Children : ChildStep(c)
            \/ Barrier \/ Drained

Input == \/ \E k \in Callers :
              \/ \E c \in Children : startContinuable(k, c) \/ Followup(k, c)
              \/ Abort(k)
         \/ \E c \in Children :
              \/ FailTurn(c) \/ runMaintenance(c) \/ interrupt(c)
              \/ \E delivery \in {"quiet", "wakeup"} : reportFrom(c, delivery)
         \/ \E kind \in {"manager", "scope"} : Drain(kind)

Next == Progress \/ Input

Spec == Init /\ [][Next]_vars

\* Every call settles, every turn and every maintenance ends, every promise
\* that is settled continues; in which order does not matter.
FairSpec == Spec /\ WF_vars(Progress)

(***************************************************************************)
(* Properties.                                                             *)
(***************************************************************************)
\* A child whose caller got an id keeps its parent: the parent's Activation
\* owns it, is not past the point where it waits for its children, and is not
\* being disposed without it.
ParentOutlivesChild ==
  \A c \in Children :
    activation[c].announced /\ Managed(c) =>
      LET owner == activation[Parent[c]]
      IN  /\ owner.resident /\ c \in owner.owned /\ agent[Parent[c]].live
          /\ owner.disposal \in {"none", "quiesce"}
          /\ owner.disposal # "none" => activation[c].disposal # "none"

\* Settling loses nothing: what a caller, a report or a settled child sent to
\* a child that then disposes itself has been claimed, wherever its Agent is:
\* parked by an interrupt or a failure, or behind a maintenance.
NothingLostBySettling ==
  [][\A c \in Children :
       /\ activation[c].watch = "queued" /\ ~Closing
       /\ activation[c].disposal = "none" /\ activation'[c].disposal # "none"
       /\ caller' = caller /\ lock'[c] # lock[c]
       => Inbox(agent[c]) = {}]_vars

\* When a drain has returned, nothing is resident, registered or on its way.
DrainReleasesAll ==
  drain.at = "done" =>
    /\ Residents = {} /\ Materializing = {}
    /\ \A c \in Children : ~agent[c].live

\* Every call returns, every drain ends, and every Activation is released once
\* it is quiet, except one whose Agent is parked with work and its owners.
Parked(c) == agent[c].phase = "idle" /\ activation[c].accepted # {}

Settled ==
  /\ \A k \in Callers : caller[k].at = "outside"
  /\ drain.at \in {"none", "done"}
  /\ \A c \in Residents : Parked(c) \/ activation[c].owned # {}

AllSettled == []<>Settled
=============================================================================
