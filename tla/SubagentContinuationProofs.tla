--------------------- MODULE SubagentContinuationProofs ---------------------
(***************************************************************************)
(* The manager of subagents for any tree of children, any number of        *)
(* callers and of messages, failures, aborts, interrupts and reports.      *)
(*                                                                         *)
(* What is proved is who owns whom while Activations are created, disposed *)
(* and released, that a drain releases them all and, in the last part,     *)
(* that an Activation which settles leaves no message unclaimed.  When a   *)
(* watcher looks again does not matter to any of it.                       *)
(***************************************************************************)
EXTENDS SubagentContinuation, TLAPS

\* The places at which a caller holds the lock of its child.
Holding == {"wait", "inspect", "create", "undo", "submit", "rollback"}

\* Who is in a critical section is first in the queue of its child, and
\* reserves the child while nothing of it is resident; a child that is being
\* started is known to its caller only.
Starting(k) == caller[k].op = "start" /\ caller[k].at \in {"prepare", "queued"}

CallerOK(k) ==
  /\ caller[k].at # "outside" => caller[k].child \in Children
  /\ caller[k].at \in Holding => Holds(k)
  /\ caller[k].at \in {"inspect", "create"} =>
       ~activation[caller[k].child].resident
  /\ caller[k].at = "undo" =>
       /\ activation[caller[k].child].disposal = "undo"
       /\ activation[caller[k].child].resident
  /\ Starting(k) => /\ agent[caller[k].child].epoch = 0
                    /\ \A j \in Callers \ {k} : caller[j].child # caller[k].child
  /\ caller[k].at = "wait" => caller[k].op = "followup"

LockOK == \A k \in Callers : CallerOK(k)

\* A child is owned by its parent only, and only while both are resident; its
\* caller has an id only once it is owned.
OwnerOK ==
  \A c \in Children :
    /\ \A d \in activation[c].owned :
         /\ Parent[d] = c
         /\ activation[c].resident /\ activation[d].resident
    /\ activation[c].announced =>
         /\ activation[c].resident
         /\ Managed(c) => c \in activation[Parent[c]].owned

\* A disposal waits for every child, and every child is being disposed.
StageOK ==
  \A c \in Children :
    /\ ~activation[c].resident => activation[c].disposal = "none"
    /\ activation[c].disposal = "undo" => activation[c].owned = {}
    /\ activation[c].disposal = "quiesce" =>
         activation[c].owned \subseteq activation[c].waits
    /\ activation[c].disposal \in {"flush", "released"} =>
         activation[c].owned = {}
    /\ activation[c].disposal # "none" =>
         \A d \in activation[c].owned : activation[d].disposal # "none"

\* The registered Agents are those of the Activations not yet released, and
\* an Activation has an epoch of its own.
LiveOK ==
  \A c \in Children :
    /\ agent[c].live <=> /\ activation[c].resident
                         /\ activation[c].disposal # "released"
    /\ activation[c].resident => agent[c].epoch # 0

TreeInv == OwnerOK /\ StageOK /\ LiveOK
IInv    == TypeOK /\ LockOK /\ TreeInv
-----------------------------------------------------------------------------
\* What the operations on an Agent leave alone.
Like(b, a) == b \in Agents /\ b.live = a.live /\ b.epoch = a.epoch

\* Waking an Agent moves only its phase, flags and inbox.
LEMMA WakeLike == ASSUME NEW a \in Agents PROVE Like(wakeDriver(a), a)
BY DEF Like, wakeDriver, Agents

\* So does a send, whatever its target.
LEMMA SendLike ==
  ASSUME NEW a \in Agents, NEW id \in Nat
  PROVE  Like(followup(a, id), a) /\ Like(inject(a, id), a)
BY DEF Like, followup, inject, Agents

\* So does a cancel.
LEMMA CancelLike ==
  ASSUME NEW a \in Agents, NEW keep \in BOOLEAN
  PROVE  Like(cancel(a, keep), a)
BY DEF Like, cancel, Agents

\* So does the end of a driver, with a latched wake replayed.
LEMMA ConvergedLike == ASSUME NEW a \in Agents PROVE Like(Converged(a), a)
<1> DEFINE idle == [a EXCEPT !.phase = "idle", !.aborted = FALSE,
                             !.latched = FALSE, !.opens = FALSE]
<1>1. Like(idle, a)
  BY DEF Like, Agents
<1>2. Like(wakeDriver(idle), idle)
  BY <1>1, WakeLike DEF Like
<1> QED
  BY <1>1, <1>2 DEF Like, Converged

\* The part of an Activation that ownership and disposal are about.
Frame(e, d) ==
  /\ e \in Activations
  /\ e.resident = d.resident /\ e.disposal = d.disposal /\ e.owned = d.owned
  /\ e.waits = d.waits /\ e.announced = d.announced

\* Accounting for an accepted message does not touch the tree.
LEMMA AdmitFrame ==
  ASSUME NEW d \in Activations, NEW id \in Nat
  PROVE  Frame(admitWaking(id, d), d)
BY DEF Frame, admitWaking, Activations

\* Nor does striking claimed messages from the account.
LEMMA AccountedFrame ==
  ASSUME NEW d \in Activations, NEW ids PROVE Frame(Accounted(ids, d), d)
BY DEF Frame, Accounted, Activations

\* Messages are numbers.
LEMMA InboxNat == ASSUME NEW a \in Agents PROVE Inbox(a) \subseteq Nat
BY DEF Inbox, Agents
-----------------------------------------------------------------------------
(***************************************************************************)
(* The ways a step changes the tree.                                       *)
(***************************************************************************)
Same(c) == agent'[c].live = agent[c].live /\ agent'[c].epoch = agent[c].epoch
USE DEF Same

KeepsLive == \A c \in Children : Same(c)

Steady == KeepsLive /\ \A c \in Children : Frame(activation'[c], activation[c])

\* Every child whose transaction is opened waits for all it owns.
Disposes(roots) ==
  /\ KeepsLive
  /\ \A c \in Children :
       LET e == activation'[c]
           d == activation[c]
       IN  IF c \in Opened(roots)
           THEN /\ e.resident = d.resident /\ e.announced = d.announced
                /\ e.owned = d.owned /\ e.waits = d.owned
                /\ e.disposal = "quiesce"
           ELSE Frame(e, d)

\* The disposal of one child goes on, here to its flush and its release.
Advances(c, from, to) ==
  /\ activation[c].disposal = from
  /\ activation' = [activation EXCEPT ![c].disposal = to]

Removes(c) ==
  /\ activation[c].owned = {}
  /\ \A d \in Children \ {c} :
       /\ Same(d)
       /\ Frame(activation'[d], releaseOwnership(c, activation)[d])
  /\ ~agent'[c].live /\ agent'[c].epoch = agent[c].epoch
  /\ Frame(activation'[c], Absent)

Owning(c, d) == [activation[d] EXCEPT !.owned = @ \cup {c}]

Publishes(c) ==
  /\ ~activation[c].resident /\ agent'[c].live /\ agent'[c].epoch # 0
  /\ activation'[c].resident /\ ~activation'[c].announced
  /\ activation'[c].owned = {} /\ activation'[c].disposal \in {"none", "undo"}
  /\ \A d \in Children \ {c} :
       /\ Same(d)
       /\ \/ activation'[d] = activation[d]
          \/ /\ d = Parent[c] /\ activation[d].resident
             /\ activation[d].disposal = "none"
             /\ activation'[d] = Owning(c, d)

Submits(c) ==
  /\ KeepsLive
  /\ activation[c].resident /\ activation[c].disposal = "none"
  /\ Managed(c) => /\ activation[Parent[c]].resident
                   /\ activation[Parent[c]].disposal = "none"
  /\ \A d \in Children :
       LET e == activation'[d]
       IN  /\ e.resident = activation[d].resident
           /\ e.disposal = activation[d].disposal
           /\ e.waits = activation[d].waits
           /\ d # c => e.announced = activation[d].announced
           /\ d = Parent[c] => e.owned = activation[d].owned \cup {c}
           /\ d # Parent[c] => e.owned = activation[d].owned

Effect ==
  /\ agent' \in [Children -> Agents] /\ activation' \in [Children -> Activations]
  /\ \/ Steady
     \/ \E roots \in SUBSET Children : Disposes(roots)
     \/ \E c \in Children :
          \/ KeepsLive /\ Advances(c, "quiesce", "flush")
             /\ activation[c].waits = {}
          \/ /\ Advances(c, "flush", "released") /\ ~agent'[c].live
             /\ agent'[c].epoch = agent[c].epoch
             /\ \A d \in Children \ {c} : Same(d)
          \/ Removes(c) \/ Publishes(c) \/ Submits(c)

\* Nobody is its own parent.
LEMMA NotItself == \A c \in Children : Parent[c] # c
<1> SUFFICES ASSUME NEW c \in Children PROVE Parent[c] # c
  OBVIOUS
<1>1. {c} \in (SUBSET Children) \ {{}}
  OBVIOUS
<1>2. PICK d \in {c} : Parent[d] \notin {c}
  BY <1>1, TreeAssumption
<1> QED
  BY <1>2

\* Every set of children that contains a set and what its members own contains
\* the owned trees below it, and these contain both themselves.
LEMMA BelowClosed ==
  ASSUME TypeOK, NEW roots \in SUBSET Children
  PROVE  /\ roots \subseteq Below(roots)
         /\ \A e \in Below(roots) : activation[e].owned \subseteq Below(roots)
<1>1. \A e \in Children : activation[e].owned \subseteq Children
  BY DEF TypeOK, Activations
<1> QED
  BY <1>1 DEF Below

\* A step that leaves residency, ownership and disposal alone keeps the tree.
LEMMA SteadyTree == ASSUME TypeOK, TreeInv, Steady PROVE TreeInv'
<1> USE DEF Steady, KeepsLive, Frame
<1>1. \A c \in Children : Parent[c] \in Children \cup {Root}
  BY TreeAssumption
<1>2. OwnerOK'
  BY <1>1 DEF TreeInv, OwnerOK, Managed, TypeOK, Activations
<1>3. StageOK'
  BY DEF TreeInv, StageOK, TypeOK, Activations
<1>4. LiveOK'
  BY DEF TreeInv, LiveOK
<1> QED
  BY <1>2, <1>3, <1>4 DEF TreeInv

\* Opening the transactions of whole subtrees keeps it.
LEMMA DisposesTree ==
  ASSUME TypeOK, TreeInv, NEW roots \in SUBSET Children, Disposes(roots)
  PROVE  TreeInv'
<1> USE DEF Disposes, KeepsLive, Frame
<1>1. \A c \in Children : /\ Parent[c] \in Children \cup {Root}
                          /\ activation[c].owned \subseteq Children
  BY TreeAssumption DEF TypeOK, Activations
<1>2. \A c \in Children :
        /\ activation'[c].owned = activation[c].owned
        /\ activation'[c].resident = activation[c].resident
        /\ activation'[c].announced = activation[c].announced
  OBVIOUS
<1>3. OwnerOK'
  BY <1>1, <1>2 DEF TreeInv, OwnerOK, Managed
<1>4. ASSUME NEW c \in Children, activation'[c].disposal # "none",
             NEW d \in activation[c].owned
      PROVE  activation'[d].disposal # "none"
  <2>1. d \in Children /\ activation[d].resident
    BY <1>1 DEF TreeInv, OwnerOK
  <2>2. CASE c \in Opened(roots)
    <3>1. d \in Below(roots)
      BY <2>2, BelowClosed DEF Opened
    <3> QED
      BY <3>1, <2>1 DEF Opened
  <2>3. CASE c \notin Opened(roots)
    <3>1. activation[d].disposal # "none"
      BY <2>3, <1>4 DEF TreeInv, StageOK
    <3> QED
      BY <3>1, <2>1
  <2> QED
    BY <2>2, <2>3
<1>5. StageOK'
  BY <1>2, <1>4 DEF TreeInv, StageOK, Opened
<1>6. LiveOK'
  BY <1>2 DEF TreeInv, LiveOK, Opened
<1> QED
  BY <1>3, <1>5, <1>6 DEF TreeInv

\* A disposal that has nothing left to wait for goes on.
LEMMA AdvancesTree ==
  ASSUME TypeOK, TreeInv, NEW c \in Children,
         \/ KeepsLive /\ Advances(c, "quiesce", "flush")
            /\ activation[c].waits = {}
         \/ /\ Advances(c, "flush", "released") /\ ~agent'[c].live
             /\ agent'[c].epoch = agent[c].epoch
             /\ \A d \in Children \ {c} : Same(d)
  PROVE  TreeInv'
<1> USE DEF Advances, KeepsLive
<1>1. \A d \in Children : /\ Parent[d] \in Children \cup {Root}
                          /\ activation[d].owned \subseteq Children
                          /\ activation[d] \in Activations
  BY TreeAssumption DEF TypeOK, Activations
<1>0. PICK to \in {"flush", "released"} :
        activation' = [activation EXCEPT ![c].disposal = to]
  OBVIOUS
<1>3. \A d \in Children : d # c => activation'[d] = activation[d]
  BY <1>0 DEF TypeOK
<1>8. activation'[c] = [activation[c] EXCEPT !.disposal = to]
  BY <1>0 DEF TypeOK
<1>9. /\ activation'[c].owned = activation[c].owned
      /\ activation'[c].waits = activation[c].waits
      /\ activation'[c].resident = activation[c].resident
      /\ activation'[c].announced = activation[c].announced
      /\ activation'[c].disposal = to
  BY <1>8, <1>1 DEF Activations
<1>2. \A d \in Children :
        /\ activation'[d].owned = activation[d].owned
        /\ activation'[d].waits = activation[d].waits
        /\ activation'[d].resident = activation[d].resident
        /\ activation'[d].announced = activation[d].announced
  BY <1>3, <1>9
<1>4. OwnerOK'
  BY <1>1, <1>2 DEF TreeInv, OwnerOK, Managed
<1>5. /\ activation[c].owned = {} /\ activation[c].resident
      /\ activation'[c].disposal \in {"flush", "released"}
      /\ activation[c].disposal \in {"quiesce", "flush"}
  BY <1>1, <1>9 DEF TreeInv, StageOK
<1>6. StageOK'
  BY <1>1, <1>2, <1>3, <1>5 DEF TreeInv, StageOK
<1>7. LiveOK'
  <2>1. CASE KeepsLive /\ Advances(c, "quiesce", "flush")
    <3>1. activation'[c].disposal = "flush" /\ activation[c].disposal = "quiesce"
      BY <2>1, <1>1, <1>3 DEF TypeOK, Activations
    <3> QED
      BY <3>1, <2>1, <1>2, <1>3 DEF TreeInv, LiveOK
  <2>2. CASE Advances(c, "flush", "released") /\ ~agent'[c].live
             /\ agent'[c].epoch = agent[c].epoch
             /\ \A d \in Children \ {c} : Same(d)
    <3>1. activation'[c].disposal = "released"
      BY <2>2, <1>1, <1>3 DEF TypeOK, Activations
    <3> QED
      BY <3>1, <2>2, <1>2, <1>3 DEF TreeInv, LiveOK
  <2> QED
    BY <2>1, <2>2
<1> QED
  BY <1>4, <1>6, <1>7 DEF TreeInv

\* Who is removed owns nothing and is owned by nobody afterwards.
LEMMA RemovesTree ==
  ASSUME TypeOK, TreeInv, NEW c \in Children, Removes(c)
  PROVE  TreeInv'
<1>1. \A d \in Children : /\ Parent[d] \in Children \cup {Root}
                          /\ activation[d].owned \subseteq Children
                          /\ activation[d] \in Activations
  BY TreeAssumption DEF TypeOK, Activations
<1>2. \A d \in Children \ {c} :
        /\ activation'[d].owned = activation[d].owned \ {c}
        /\ activation'[d].waits = activation[d].waits
             \/ activation'[d].waits = activation[d].waits \ {c}
        /\ activation'[d].resident = activation[d].resident
        /\ activation'[d].announced = activation[d].announced
        /\ activation'[d].disposal = activation[d].disposal
        /\ Same(d)
  <2> SUFFICES ASSUME NEW d \in Children \ {c}
               PROVE  /\ activation'[d].owned = activation[d].owned \ {c}
                      /\ \/ activation'[d].waits = activation[d].waits
                         \/ activation'[d].waits = activation[d].waits \ {c}
                      /\ activation'[d].resident = activation[d].resident
                      /\ activation'[d].announced = activation[d].announced
                      /\ activation'[d].disposal = activation[d].disposal
                      /\ Same(d)
    OBVIOUS
  <2> DEFINE e == releaseOwnership(c, activation)[d]
  <2>1. Frame(activation'[d], e) /\ Same(d)
    BY DEF Removes
  <2>2. activation[d] \in Activations
    BY <1>1
  <2>3. CASE c \in activation[d].owned
    <3>1. e = [activation[d] EXCEPT !.owned = @ \ {c}, !.waits = @ \ {c},
                                    !.poked = TRUE]
      BY <2>3 DEF releaseOwnership
    <3>2. /\ e.owned = activation[d].owned \ {c}
          /\ e.waits = activation[d].waits \ {c}
          /\ e.resident = activation[d].resident
          /\ e.announced = activation[d].announced
          /\ e.disposal = activation[d].disposal
      BY <3>1, <2>2 DEF Activations
    <3> QED
      BY <3>2, <2>1 DEF Frame
  <2>4. CASE c \notin activation[d].owned
    <3>1. e = activation[d]
      BY <2>4 DEF releaseOwnership
    <3> QED
      BY <3>1, <2>4, <2>1 DEF Frame
  <2> QED
    BY <2>3, <2>4
<1>3. /\ activation'[c].owned = {} /\ ~activation'[c].resident
      /\ ~activation'[c].announced /\ activation'[c].disposal = "none"
      /\ activation[c].owned = {} /\ ~agent'[c].live
  BY DEF Removes, Frame, Absent
<1>4. ASSUME NEW d \in Children PROVE OwnerOK!(d)'
  <2>1. CASE d = c
    BY <2>1, <1>3
  <2>2. CASE d # c
    <3>1. \A e \in activation'[d].owned :
             /\ Parent[e] = d /\ activation'[d].resident
             /\ activation'[e].resident
      BY <2>2, <1>1, <1>2 DEF TreeInv, OwnerOK
    <3>2. activation'[d].announced =>
             /\ activation'[d].resident
             /\ Managed(d) => d \in activation'[Parent[d]].owned
      BY <2>2, <1>1, <1>2, <1>3 DEF TreeInv, OwnerOK, Managed
    <3> QED
      BY <3>1, <3>2 DEF Managed
  <2> QED
    BY <2>1, <2>2
<1>5. OwnerOK'
  BY <1>4 DEF OwnerOK
<1>6. ASSUME NEW d \in Children PROVE StageOK!(d)'
  <2>1. CASE d = c
    BY <2>1, <1>3
  <2>2. CASE d # c
    BY <2>2, <1>1, <1>2 DEF TreeInv, StageOK
  <2> QED
    BY <2>1, <2>2
<1>7. StageOK'
  BY <1>6 DEF StageOK
<1>8. LiveOK'
  BY <1>2, <1>3 DEF TreeInv, LiveOK
<1> QED
  BY <1>5, <1>7, <1>8 DEF TreeInv

\* What is published was owned by nobody; its parent takes no child late.
LEMMA PublishesTree ==
  ASSUME TypeOK, TreeInv, NEW c \in Children, Publishes(c)
  PROVE  TreeInv'
<1>1. \A d \in Children : /\ Parent[d] \in Children \cup {Root}
                          /\ activation[d].owned \subseteq Children
                          /\ activation[d] \in Activations
  BY TreeAssumption DEF TypeOK, Activations
<1>0. \A d \in Children : /\ Owning(c, d).owned = activation[d].owned \cup {c}
                          /\ Owning(c, d).waits = activation[d].waits
                          /\ Owning(c, d).resident = activation[d].resident
                          /\ Owning(c, d).announced = activation[d].announced
                          /\ Owning(c, d).disposal = activation[d].disposal
  BY <1>1 DEF Owning, Activations
<1>2. \A d \in Children \ {c} :
        /\ activation'[d].waits = activation[d].waits
        /\ activation'[d].resident = activation[d].resident
        /\ activation'[d].announced = activation[d].announced
        /\ activation'[d].disposal = activation[d].disposal
        /\ Same(d)
  BY <1>0 DEF Publishes
<1>3. \A d \in Children \ {c} :
        \/ activation'[d].owned = activation[d].owned
        \/ /\ activation'[d].owned = activation[d].owned \cup {c}
           /\ d = Parent[c] /\ activation[d].resident
           /\ activation[d].disposal = "none"
  BY <1>0 DEF Publishes
<1>4. /\ activation'[c].owned = {} /\ activation'[c].resident
      /\ ~activation'[c].announced /\ ~activation[c].resident
      /\ activation'[c].disposal \in {"none", "undo"} /\ agent'[c].live
      /\ agent'[c].epoch # 0
  BY DEF Publishes
<1>5. \A d \in Children : c \notin activation[d].owned
  BY <1>4 DEF TreeInv, OwnerOK
<1>6. ASSUME NEW d \in Children PROVE OwnerOK!(d)'
  <2>1. CASE d = c
    BY <2>1, <1>4
  <2>2. CASE d # c
    <3>1. \A e \in activation'[d].owned :
             /\ Parent[e] = d /\ activation'[d].resident
             /\ activation'[e].resident
      BY <2>2, <1>1, <1>2, <1>3, <1>4 DEF TreeInv, OwnerOK
    <3>2. activation'[d].announced =>
             /\ activation'[d].resident
             /\ Managed(d) => d \in activation'[Parent[d]].owned
      BY <2>2, <1>1, <1>2, <1>3, <1>4 DEF TreeInv, OwnerOK, Managed
    <3> QED
      BY <3>1, <3>2 DEF Managed
  <2> QED
    BY <2>1, <2>2
<1>7. OwnerOK'
  BY <1>6 DEF OwnerOK
<1>8. ASSUME NEW d \in Children PROVE StageOK!(d)'
  <2>1. CASE d = c
    BY <2>1, <1>4
  <2>2. CASE d # c
    BY <2>2, <1>1, <1>2, <1>3, <1>5 DEF TreeInv, StageOK
  <2> QED
    BY <2>1, <2>2
<1>9. StageOK'
  BY <1>8 DEF StageOK
<1>10. LiveOK'
  BY <1>2, <1>4 DEF TreeInv, LiveOK
<1> QED
  BY <1>7, <1>9, <1>10 DEF TreeInv

\* Submitting to a child hands it to its resident parent.
LEMMA SubmitsTree ==
  ASSUME TypeOK, TreeInv, NEW c \in Children, Submits(c)
  PROVE  TreeInv'
<1>1. \A d \in Children : /\ Parent[d] \in Children \cup {Root}
                          /\ activation[d].owned \subseteq Children
  BY TreeAssumption DEF TypeOK, Activations
<1>2. \A d \in Children :
        /\ Same(d)
        /\ activation'[d].resident = activation[d].resident
        /\ activation'[d].disposal = activation[d].disposal
        /\ activation'[d].waits = activation[d].waits
        /\ d # c => activation'[d].announced = activation[d].announced
        /\ d = Parent[c] => activation'[d].owned = activation[d].owned \cup {c}
        /\ d # Parent[c] => activation'[d].owned = activation[d].owned
  BY DEF Submits, KeepsLive
<1>3. /\ activation[c].resident /\ activation[c].disposal = "none"
      /\ Managed(c) => /\ activation[Parent[c]].resident
                       /\ activation[Parent[c]].disposal = "none"
  BY DEF Submits
<1>4. ASSUME NEW d \in Children PROVE OwnerOK!(d)'
  <2>1. \A e \in activation'[d].owned :
          /\ Parent[e] = d /\ activation'[d].resident
          /\ activation'[e].resident
    <3>1. \A e \in activation[d].owned :
            /\ e \in Children /\ Parent[e] = d /\ activation[d].resident
            /\ activation[e].resident
      BY <1>1 DEF TreeInv, OwnerOK
    <3>2. CASE d = Parent[c]
      BY <3>1, <3>2, <1>2, <1>3 DEF Managed
    <3>3. CASE d # Parent[c]
      BY <3>1, <3>3, <1>2
    <3> QED
      BY <3>2, <3>3
  <2>2. ASSUME activation'[d].announced
        PROVE  /\ activation'[d].resident
               /\ Managed(d) => d \in activation'[Parent[d]].owned
    <3>1. d # c => /\ activation[d].resident
                   /\ Managed(d) => d \in activation[Parent[d]].owned
      BY <2>2, <1>2 DEF TreeInv, OwnerOK
    <3>2. CASE d = c
      BY <3>2, <1>2, <1>3 DEF Managed
    <3>3. CASE d # c
      <4>1. Managed(d) => Parent[d] \in Children
        BY DEF Managed
      <4> QED
        BY <3>1, <3>3, <4>1, <1>2
    <3> QED
      BY <3>2, <3>3
  <2> QED
    BY <2>1, <2>2 DEF Managed
<1>5. OwnerOK'
  BY <1>4 DEF OwnerOK
<1>6. ASSUME NEW d \in Children PROVE StageOK!(d)'
  <2>1. CASE d = Parent[c]
    BY <2>1, <1>1, <1>2, <1>3 DEF TreeInv, StageOK, Managed
  <2>2. CASE d # Parent[c]
    <3>1. /\ activation'[d].owned = activation[d].owned
          /\ \A e \in activation[d].owned :
               activation'[e].disposal = activation[e].disposal
      BY <2>2, <1>1, <1>2
    <3> QED
      BY <3>1, <1>2 DEF TreeInv, StageOK
  <2> QED
    BY <2>1, <2>2
<1>7. StageOK'
  BY <1>6 DEF StageOK
<1>8. LiveOK'
  BY <1>2 DEF TreeInv, LiveOK
<1> QED
  BY <1>5, <1>7, <1>8 DEF TreeInv

\* The ways a step can change the tree all keep its invariant.
LEMMA EffectTree == ASSUME TypeOK, TreeInv, Effect PROVE TreeInv'
BY SteadyTree, DisposesTree, AdvancesTree, RemovesTree, PublishesTree,
   SubmitsTree DEF Effect
-----------------------------------------------------------------------------
(***************************************************************************)
(* Every step has one of these effects.                                    *)
(***************************************************************************)
Tables == /\ agent' \in [Children -> Agents]
          /\ activation' \in [Children -> Activations]

Frames == /\ activation' \in [Children -> Activations]
          /\ \A c \in Children : Frame(activation'[c], activation[c])

\* Changing one Agent within its life changes no tree.
LEMMA AgentUpdate ==
  ASSUME TypeOK, NEW c \in Children, NEW b, Like(b, agent[c]),
         agent' = [agent EXCEPT ![c] = b]
  PROVE  agent' \in [Children -> Agents] /\ KeepsLive
BY DEF TypeOK, Like, KeepsLive

\* Changing one Activation outside its frame changes no tree.
LEMMA ActivationUpdate ==
  ASSUME TypeOK, NEW c \in Children, NEW e, Frame(e, activation[c]),
         activation' = [activation EXCEPT ![c] = e]
  PROVE  Frames
BY DEF TypeOK, Frame, Frames

\* Changing neither changes no tree.
LEMMA NoUpdate ==
  ASSUME TypeOK
  PROVE  /\ agent' = agent => agent' \in [Children -> Agents] /\ KeepsLive
         /\ activation' = activation => Frames
BY DEF TypeOK, KeepsLive, Frame, Frames

\* A steady step is one of the effects.
LEMMA SteadyEffect ==
  ASSUME agent' \in [Children -> Agents], KeepsLive, Frames PROVE Effect
BY DEF Effect, Steady, Frames

\* dispose opens the transactions of the whole subtrees, and stops their
\* Agents.
LEMMA DisposeEffect ==
  ASSUME TypeOK, NEW roots \in SUBSET Children, dispose(roots)
  PROVE  Effect
<1>1. ASSUME NEW c \in Children
      PROVE  Like(agent'[c], agent[c])
  BY CancelLike DEF dispose, TypeOK, Like
<1>2. agent' \in [Children -> Agents] /\ KeepsLive
  BY <1>1 DEF dispose, Like, KeepsLive
<1>3. ASSUME NEW c \in Children
      PROVE  /\ activation'[c] \in Activations
             /\ IF c \in Opened(roots)
                THEN /\ activation'[c].resident = activation[c].resident
                     /\ activation'[c].announced = activation[c].announced
                     /\ activation'[c].owned = activation[c].owned
                     /\ activation'[c].waits = activation[c].owned
                     /\ activation'[c].disposal = "quiesce"
                ELSE Frame(activation'[c], activation[c])
  <2>1. activation[c] \in Activations
    BY DEF TypeOK
  <2>2. CASE c \in Opened(roots)
    <3> DEFINE e == Accounted(Inbox(agent[c]), activation[c])
    <3>1. activation'[c] = [e EXCEPT !.disposal = "quiesce",
                              !.waits = activation[c].owned, !.poked = TRUE]
      BY <2>2 DEF dispose
    <3>2. Frame(e, activation[c])
      BY <2>1, AccountedFrame
    <3> HIDE DEF e
    <3> QED
      BY <2>2, <3>1, <3>2, <2>1 DEF Frame, Activations
  <2>3. CASE c \notin Opened(roots)
    BY <2>3, <2>1 DEF dispose, Frame
  <2> QED
    BY <2>2, <2>3
<1>4. activation' \in [Children -> Activations]
  BY <1>3 DEF dispose
<1>5. Disposes(roots)
  BY <1>2, <1>3 DEF Disposes
<1> QED
  BY <1>2, <1>4, <1>5 DEF Effect

\* Acquiring ownership adds one child to its owner and changes nothing else.
LEMMA AcquireTyped ==
  ASSUME NEW c \in Children, NEW table \in [Children -> Activations]
  PROVE  /\ acquireOwnership(c, table) \in [Children -> Activations]
         /\ \A d \in Children : ~(Resident(c) /\ d = Parent[c]) =>
              acquireOwnership(c, table)[d] = table[d]
         /\ Resident(c) => /\ Parent[c] \in Children
                           /\ acquireOwnership(c, table)[Parent[c]] =
                                [table[Parent[c]] EXCEPT !.owned = @ \cup {c}]
<1> DEFINE p == Parent[c]
           e == [table[p] EXCEPT !.owned = @ \cup {c}]
<1>1. CASE Resident(c)
  <2>1. p \in Children
    BY <1>1 DEF Resident, Managed
  <2>2. table[p] \in Activations
    BY <2>1
  <2>3. e \in Activations
    BY <2>2 DEF Activations
  <2>4. acquireOwnership(c, table) = [table EXCEPT ![p] = e]
    BY <1>1, <2>1 DEF acquireOwnership
  <2> HIDE DEF e
  <2>5. /\ [table EXCEPT ![p] = e] \in [Children -> Activations]
        /\ [table EXCEPT ![p] = e][p] = e
        /\ \A d \in Children : d # p => [table EXCEPT ![p] = e][d] = table[d]
    BY <2>1, <2>3
  <2> QED
    BY <1>1, <2>1, <2>4, <2>5 DEF e
<1>2. CASE ~Resident(c)
  BY <1>2 DEF acquireOwnership
<1> QED
  BY <1>1, <1>2

\* An admitted submit has the effect of handing the child to its owner.
LEMMA SubmitEffect ==
  ASSUME TypeOK, TreeInv, NEW c \in Children, submit(c),
         activation[c].resident, activation[c].disposal = "none",
         Managed(c) => agent[Parent[c]].live, ParentAdmits(c)
  PROVE  Effect /\ Submits(c)
<1> DEFINE id    == sent + 1
           table == acquireOwnership(c, activation)
<1>1. /\ table \in [Children -> Activations]
      /\ \A d \in Children : ~(Resident(c) /\ d = Parent[c]) =>
           table[d] = activation[d]
      /\ Resident(c) => /\ Parent[c] \in Children
                        /\ table[Parent[c]] = Owning(c, Parent[c])
  BY AcquireTyped DEF TypeOK, Owning
<1>2. id \in Nat /\ agent[c] \in Agents
  BY DEF TypeOK
<1>3. agent' \in [Children -> Agents] /\ KeepsLive
  <2>1. Like(followup(agent[c], id), agent[c])
    BY <1>2, SendLike
  <2>2. Like(wakeDriver(followup(agent[c], id)), agent[c])
    BY <2>1, WakeLike DEF Like
  <2>3. agent' = [agent EXCEPT ![c] = wakeDriver(followup(agent[c], id))]
    BY DEF submit
  <2> QED
    BY <2>2, <2>3, AgentUpdate
<1>4. Parent[c] # c
  BY NotItself
<1>5. table[c] = activation[c]
  BY <1>1, <1>4
<1> DEFINE e == admitWaking(id, activation[c])
<1>6. Frame(e, activation[c])
  BY <1>2, AdmitFrame DEF TypeOK
<1>7. activation' = [table EXCEPT ![c] = [e EXCEPT !.announced = TRUE]]
  BY <1>1, <1>5 DEF submit
<1> HIDE DEF table, e, id
<1>8. /\ activation'[c] = [e EXCEPT !.announced = TRUE]
      /\ \A d \in Children \ {c} : activation'[d] = table[d]
  BY <1>7, <1>1
<1>9. activation'[c] \in Activations
  BY <1>8, <1>6 DEF Frame, Activations
<1>10. activation' \in [Children -> Activations]
  BY <1>7, <1>9, <1>1, <1>8
<1>11. Resident(c) <=> Managed(c)
  BY DEF Resident, Managed, TreeInv, LiveOK
<1>12. Managed(c) => /\ activation[Parent[c]].resident
                     /\ activation[Parent[c]].disposal = "none"
  BY <1>11 DEF Resident, ParentAdmits
<1>13. \A d \in Children : activation[d] \in Activations
  BY DEF TypeOK
<1>14. \A d \in Children :
         /\ activation'[d].resident = activation[d].resident
         /\ activation'[d].disposal = activation[d].disposal
         /\ activation'[d].waits = activation[d].waits
         /\ d # c => activation'[d].announced = activation[d].announced
         /\ d = Parent[c] => activation'[d].owned = activation[d].owned \cup {c}
         /\ d # Parent[c] => activation'[d].owned = activation[d].owned
  <2> SUFFICES ASSUME NEW d \in Children
               PROVE  /\ activation'[d].resident = activation[d].resident
                      /\ activation'[d].disposal = activation[d].disposal
                      /\ activation'[d].waits = activation[d].waits
                      /\ d # c => activation'[d].announced = activation[d].announced
                      /\ d = Parent[c] => activation'[d].owned = activation[d].owned \cup {c}
                      /\ d # Parent[c] => activation'[d].owned = activation[d].owned
    OBVIOUS
  <2>1. CASE d = c
    BY <2>1, <1>8, <1>6, <1>4 DEF Frame, Activations
  <2>2. CASE d # c /\ d = Parent[c]
    <3>1. activation'[d] = Owning(c, d)
      BY <2>2, <1>8, <1>1, <1>11 DEF Managed
    <3> QED
      BY <3>1, <2>2, <1>13 DEF Owning, Activations
  <2>3. CASE d # c /\ d # Parent[c]
    BY <2>3, <1>8, <1>1
  <2> QED
    BY <2>1, <2>2, <2>3
<1>15. Submits(c)
  BY <1>3, <1>12, <1>14 DEF Submits
<1> QED
  BY <1>3, <1>10, <1>15 DEF Effect

\* Removing an Activation takes it from every owner and leaves the others
\* alone.
LEMMA RemovedShape ==
  ASSUME TypeOK, NEW c \in Children
  PROVE  /\ Removed(c) \in [Children -> Activations]
         /\ Frame(Removed(c)[c], Absent)
         /\ \A d \in Children \ {c} :
              Removed(c)[d] = releaseOwnership(c, activation)[d]
<1> DEFINE table == [activation EXCEPT ![c] = Absent]
<1>1. Absent \in Activations
  BY DEF Absent, Activations
<1>2. table \in [Children -> Activations]
  BY <1>1 DEF TypeOK
<1>3. table[c] = Absent /\ \A d \in Children \ {c} : table[d] = activation[d]
  BY DEF TypeOK
<1>4. Removed(c) = releaseOwnership(c, table)
  BY DEF Removed
<1> HIDE DEF table
<1>5. ASSUME NEW d \in Children PROVE releaseOwnership(c, table)[d] \in Activations
  <2>1. table[d] \in Activations
    BY <1>2
  <2>2. CASE c \in table[d].owned
    <3>1. releaseOwnership(c, table)[d] =
            [table[d] EXCEPT !.owned = @ \ {c}, !.waits = @ \ {c},
                             !.poked = TRUE]
      BY <2>2 DEF releaseOwnership
    <3> QED
      BY <3>1, <2>1 DEF Activations
  <2>3. CASE c \notin table[d].owned
    BY <2>1, <2>3 DEF releaseOwnership
  <2> QED
    BY <2>2, <2>3
<1>6. releaseOwnership(c, table) \in [Children -> Activations]
  BY <1>5 DEF releaseOwnership
<1>7. releaseOwnership(c, table)[c] = Absent
  BY <1>3 DEF releaseOwnership, Absent
<1>8. \A d \in Children \ {c} :
        releaseOwnership(c, table)[d] = releaseOwnership(c, activation)[d]
  BY <1>3 DEF releaseOwnership
<1>9. Frame(Absent, Absent)
  BY <1>1 DEF Frame
<1> QED
  BY <1>4, <1>6, <1>7, <1>8, <1>9

\* The end of a disposal removes a childless Activation, noticed or not.
LEMMA SettleEffect ==
  ASSUME TypeOK, TreeInv, NEW c \in Children, Settle(c)
  PROVE  Tables /\ Removes(c)
<1>1. activation[c].owned = {} /\ ~agent[c].live
  BY DEF Settle, TreeInv, StageOK, LiveOK
<1>2. /\ Removed(c) \in [Children -> Activations]
      /\ Frame(Removed(c)[c], Absent)
      /\ \A d \in Children \ {c} :
           Removed(c)[d] = releaseOwnership(c, activation)[d]
  BY RemovedShape
<1>3. \A d \in Children : Frame(Removed(c)[d], Removed(c)[d])
  BY <1>2 DEF Frame
<1>4. CASE activation' = Removed(c) /\ UNCHANGED agent
  BY <1>1, <1>2, <1>3, <1>4 DEF Removes, Tables, TypeOK
<1>5. CASE Managed(c) /\ notifySettlement(c)
  <2> DEFINE p  == Parent[c]
             id == sent + 1
  <2>1. p \in Children /\ p # c /\ id \in Nat
    BY <1>5, NotItself DEF Managed, TypeOK
  <2>2. agent[p] \in Agents
    BY <2>1 DEF TypeOK
  <2>3. \E b : Like(b, agent[p]) /\ agent' = [agent EXCEPT ![p] = b]
    <3> DEFINE notice == IF status(agent[p]) = "idle"
                         THEN followup(agent[p], id) ELSE inject(agent[p], id)
    <3>1. Like(inject(agent[p], id), agent[p]) /\ Like(notice, agent[p])
      BY <2>1, <2>2, SendLike
    <3>2. Like(wakeDriver(notice), agent[p])
      BY <3>1, WakeLike DEF Like
    <3>3. \/ agent' = [agent EXCEPT ![p] = inject(agent[p], id)]
          \/ agent' = [agent EXCEPT ![p] = wakeDriver(notice)]
      BY <1>5 DEF notifySettlement
    <3> QED
      BY <3>1, <3>2, <3>3
  <2>4. agent' \in [Children -> Agents] /\ KeepsLive
    BY <2>1, <2>3, AgentUpdate
  <2>5. \/ activation' = Removed(c)
        \/ activation' = [Removed(c) EXCEPT
                            ![p] = admitWaking(id, Removed(c)[p])]
    BY <1>5 DEF notifySettlement
  <2>6. Frame(admitWaking(id, Removed(c)[p]), Removed(c)[p])
    BY <2>1, <1>2, AdmitFrame
  <2>7. \A d \in Children : Frame(activation'[d], Removed(c)[d])
    BY <2>5, <2>6, <2>1, <1>2, <1>3
  <2>8. activation' \in [Children -> Activations]
    BY <2>5, <2>6, <2>1, <1>2 DEF Frame
  <2>9. Frame(activation'[c], Absent)
    BY <2>7, <1>2 DEF Frame
  <2> QED
    BY <2>4, <2>7, <2>8, <2>9, <1>1, <1>2 DEF Removes, Tables, KeepsLive
<1> QED
  BY <1>4, <1>5 DEF Settle

\* An unregistered Agent is an Agent.
LEMMA UnregisteredTyped ==
  ASSUME NEW a \in Agents
  PROVE  /\ Unregistered(a) \in Agents /\ ~Unregistered(a).live
         /\ Unregistered(a).epoch = a.epoch
BY DEF Unregistered, NoAgent, Agents

\* The end of a rollback removes an Activation nobody owned.
LEMMA UndoneEffect ==
  ASSUME TypeOK, LockOK, TreeInv, NEW k \in Callers, Undone(k)
  PROVE  Tables /\ caller[k].child \in Children /\ Removes(caller[k].child)
<1> DEFINE c == caller[k].child
<1>1. /\ c \in Children
      /\ activation[c].disposal = "undo"
  BY DEF LockOK, CallerOK, Undone
<1>2. activation[c].owned = {}
  BY <1>1 DEF TreeInv, StageOK
<1>3. /\ Removed(c) \in [Children -> Activations]
      /\ Frame(Removed(c)[c], Absent)
      /\ \A d \in Children \ {c} :
           Removed(c)[d] = releaseOwnership(c, activation)[d]
  BY <1>1, RemovedShape
<1>4. activation' = Removed(c)
      /\ agent' = [agent EXCEPT ![c] = Unregistered(agent[c])]
  BY DEF Undone
<1>5. agent[c] \in Agents
  BY <1>1 DEF TypeOK
<1>6. /\ agent' \in [Children -> Agents] /\ ~agent'[c].live
      /\ agent'[c].epoch = agent[c].epoch
      /\ \A d \in Children \ {c} : Same(d)
  BY <1>1, <1>4, <1>5, UnregisteredTyped DEF TypeOK
<1>7. \A d \in Children : Frame(Removed(c)[d], Removed(c)[d])
  BY <1>3 DEF Frame
<1> QED
  BY <1>1, <1>2, <1>3, <1>4, <1>6, <1>7 DEF Removes, Tables

\* The two outcomes of a materialization that created its Agent.
LEMMA CreatedEffect ==
  ASSUME TypeOK, LockOK, TreeInv, NEW k \in Callers, Created(k),
         caller'[k].at \in {"submit", "undo"}
  PROVE  /\ Tables /\ caller[k].child \in Children
         /\ Publishes(caller[k].child)
         /\ caller'[k].at = "undo" =>
              activation'[caller[k].child].disposal = "undo"
<1> DEFINE c == caller[k].child
           born == [NoAgent EXCEPT !.live = TRUE, !.epoch = agent[c].epoch + 1]
           fresh == [Absent EXCEPT !.resident = TRUE]
           ready == [fresh EXCEPT !.watch = "race"]
           undo  == [fresh EXCEPT !.disposal = "undo"]
<1>1. c \in Children /\ ~activation[c].resident
  BY DEF LockOK, CallerOK, Created
<1>2. caller[k] \in [at : Places, op : {"none", "start", "followup"},
                     child : Children \cup {Root}, epoch : Nat,
                     aborted : BOOLEAN]
  BY DEF TypeOK
<1>3. Returns(k) => caller'[k].at = "outside"
  BY DEF Returns, TypeOK, Outside
<1>4. /\ agent' = [agent EXCEPT ![c] = born]
      /\ \/ /\ ParentAdmits(c) /\ At(k, "submit")
            /\ activation' = acquireOwnership(c,
                               [activation EXCEPT ![c] = ready])
         \/ At(k, "undo") /\ activation' = [activation EXCEPT ![c] = undo]
  BY <1>3 DEF Created
<1>5. born \in Agents /\ born.live /\ born.epoch # 0
  <2>1. agent[c] \in Agents
    BY <1>1 DEF TypeOK
  <2>2. agent[c].epoch + 1 \in Nat /\ agent[c].epoch + 1 # 0
    BY <2>1 DEF Agents
  <2> QED
    BY <2>2 DEF NoAgent, Agents
<1>6. /\ agent' \in [Children -> Agents] /\ agent'[c].live
      /\ agent'[c].epoch # 0
      /\ \A d \in Children \ {c} : Same(d)
  <2> HIDE DEF born
  <2> QED
    BY <1>1, <1>4, <1>5 DEF TypeOK
<1>7. /\ ready \in Activations /\ ready.resident /\ ~ready.announced
      /\ ready.owned = {} /\ ready.disposal = "none"
  BY DEF Absent, Activations
<1>8. /\ undo \in Activations /\ undo.resident /\ ~undo.announced
      /\ undo.owned = {} /\ undo.disposal = "undo"
  BY DEF Absent, Activations
<1> HIDE DEF born, ready, undo
<1>9. Parent[c] # c
  BY <1>1, NotItself
<1>10. CASE /\ ParentAdmits(c) /\ At(k, "submit")
            /\ activation' = acquireOwnership(c,
                               [activation EXCEPT ![c] = ready])
  <2> DEFINE table == [activation EXCEPT ![c] = ready]
  <2>1. /\ table \in [Children -> Activations] /\ table[c] = ready
        /\ \A d \in Children \ {c} : table[d] = activation[d]
    BY <1>1, <1>7 DEF TypeOK
  <2>6. activation' = acquireOwnership(c, table)
    BY <1>10
  <2> HIDE DEF table
  <2>2. /\ activation' \in [Children -> Activations]
        /\ \A d \in Children : ~(Resident(c) /\ d = Parent[c]) =>
              activation'[d] = table[d]
        /\ Resident(c) => /\ Parent[c] \in Children
                          /\ activation'[Parent[c]] =
                               [table[Parent[c]] EXCEPT !.owned = @ \cup {c}]
    BY <1>1, <2>6, <2>1, AcquireTyped
  <2>3. activation'[c] = ready
    BY <2>1, <2>2, <1>1, <1>9
  <2>4. ASSUME NEW d \in Children \ {c}
        PROVE  \/ activation'[d] = activation[d]
               \/ /\ d = Parent[c] /\ activation[d].resident
                  /\ activation[d].disposal = "none"
                  /\ activation'[d] = Owning(c, d)
    <3>1. CASE Resident(c) /\ d = Parent[c]
      BY <3>1, <2>1, <2>2, <1>10 DEF Owning, Resident, ParentAdmits
    <3>2. CASE ~(Resident(c) /\ d = Parent[c])
      BY <3>2, <2>1, <2>2
    <3> QED
      BY <3>1, <3>2
  <2>5. caller'[k].at = "submit"
    BY <1>10, <1>2 DEF At, TypeOK
  <2> QED
    BY <1>1, <1>6, <1>7, <2>2, <2>3, <2>4, <2>5 DEF Publishes, Tables
<1>11. CASE At(k, "undo") /\ activation' = [activation EXCEPT ![c] = undo]
  <2>1. /\ activation' \in [Children -> Activations] /\ activation'[c] = undo
        /\ \A d \in Children \ {c} : activation'[d] = activation[d]
    BY <1>1, <1>8, <1>11 DEF TypeOK
  <2> QED
    BY <1>1, <1>6, <1>8, <2>1 DEF Publishes, Tables
<1> QED
  BY <1>4, <1>10, <1>11
-----------------------------------------------------------------------------
(***************************************************************************)
(* The locks.  A step is one of a caller or, where it is named watcher, of *)
(* nobody who is in a critical section.                                    *)
(***************************************************************************)
\* Another operation at the head of a queue stays there.
HeadKept(w) ==
  \A c \in Children :
    lock[c] # <<>> /\ Head(lock[c]).who # w =>
      lock'[c] # <<>> /\ Head(lock'[c]).who = Head(lock[c]).who

\* And what it relies on is not taken from it.
Relied(c) ==
  /\ agent'[c].epoch = agent[c].epoch
  /\ activation'[c].resident => activation[c].resident
  /\ activation[c].resident /\ activation[c].disposal = "undo" =>
       activation'[c].resident /\ activation'[c].disposal = "undo"

Calm == \A c \in Children : Relied(c)

LockStep(w) ==
  /\ \A j \in Callers \ {w} : caller'[j] = caller[j]
  /\ HeadKept(w)
  /\ \A c \in Children :
       \/ lock[c] # <<>> /\ Head(lock[c]).who # w
       \/ w \in Callers => caller[w].child # c
       => Relied(c)

\* A caller turns to no child that another one is starting.
Stranger(w) ==
  \/ caller'[w].child \in {caller[w].child, Root}
  \/ agent[caller'[w].child].epoch # 0
  \/ \A j \in Callers : caller[j].child # caller'[w].child

\* Who acts keeps its own part of the invariant; the others keep theirs.
LEMMA LockKept ==
  ASSUME TypeOK, LockOK, NEW w \in Callers \cup {watcher}, LockStep(w),
         w \in Callers => CallerOK(w)' /\ Stranger(w)
  PROVE  LockOK'
<1> SUFFICES ASSUME NEW j \in Callers, j # w PROVE CallerOK(j)'
  BY DEF LockOK
<1>1. caller'[j] = caller[j]
  BY DEF LockStep
<1> DEFINE c == caller[j].child
<1>2. caller[j].at \in Holding =>
        /\ c \in Children /\ lock[c] # <<>> /\ Head(lock[c]).who = j
        /\ lock'[c] # <<>> /\ Head(lock'[c]).who = j /\ Relied(c)
  BY DEF LockOK, CallerOK, LockStep, HeadKept, Holds, Holding
<1>3. Starting(j) => /\ agent'[c].epoch = 0
                     /\ \A i \in Callers \ {j} : caller'[i].child # c
  <2> SUFFICES ASSUME Starting(j)
               PROVE  /\ agent'[c].epoch = 0
                      /\ \A i \in Callers \ {j} : caller'[i].child # c
    OBVIOUS
  <2>1. /\ c \in Children /\ agent[c].epoch = 0
        /\ \A i \in Callers \ {j} : caller[i].child # c
    BY DEF LockOK, CallerOK, Starting
  <2>2. w \in Callers => caller[w].child # c /\ caller'[w].child # c
    BY <2>1, TreeAssumption DEF Stranger
  <2>3. agent'[c].epoch = 0
    BY <2>1, <2>2 DEF LockStep, Relied
  <2> QED
    BY <2>1, <2>2, <2>3 DEF LockStep
<1>4. CallerOK(j) /\ caller[j].child = caller'[j].child
  BY <1>1 DEF LockOK
<1> QED
  BY <1>1, <1>2, <1>3, <1>4
     DEF CallerOK, Relied, Holds, Holding, Starting

\* These effects leave alone what a caller in its critical section relies on.
LEMMA CalmEffect ==
  ASSUME TypeOK, NEW c \in Children, NEW roots \in SUBSET Children,
         \A d \in Children : agent'[d].epoch = agent[d].epoch,
         \/ Steady \/ Disposes(roots) \/ Advances(c, "quiesce", "flush")
         \/ Advances(c, "flush", "released") \/ Submits(c)
  PROVE  Calm
<1> SUFFICES ASSUME NEW d \in Children PROVE Relied(d)
  BY DEF Calm
<1>1. CASE Steady
  BY <1>1 DEF Steady, Frame, Relied
<1>2. CASE Disposes(roots)
  BY <1>2 DEF Disposes, Frame, Opened, Relied
<1>3. ASSUME NEW from \in {"quiesce", "flush"},
             NEW to \in {"flush", "released"}, Advances(c, from, to)
      PROVE  Relied(d)
  <2>1. CASE d = c
    <3>1. /\ activation'[d] = [activation[d] EXCEPT !.disposal = to]
          /\ activation[d] \in Activations /\ activation[d].disposal # "undo"
      BY <1>3, <2>1 DEF Advances, TypeOK
    <3>2. activation'[d].resident = activation[d].resident
      BY <3>1 DEF Activations
    <3> QED
      BY <3>1, <3>2 DEF Relied
  <2>2. CASE d # c
    BY <1>3, <2>2 DEF Advances, TypeOK, Relied
  <2> QED
    BY <2>1, <2>2
<1>4. CASE Submits(c)
  BY <1>4 DEF Submits, Relied
<1> QED
  BY <1>1, <1>2, <1>3, <1>4

\* A child that is removed or published is at most in its caller's hands.
LEMMA OneRelied ==
  ASSUME TypeOK, NEW c \in Children, Removes(c) \/ Publishes(c),
         NEW d \in Children \ {c}
  PROVE  Relied(d)
<1>1. activation[d] \in Activations /\ agent'[d].epoch = agent[d].epoch
  BY DEF TypeOK, Removes, Publishes
<1>2. CASE Publishes(c)
  <2>1. CASE activation'[d] = activation[d]
    BY <1>1, <2>1 DEF Relied
  <2>2. CASE activation'[d] = Owning(c, d)
    <3>1. /\ Owning(c, d).resident = activation[d].resident
          /\ Owning(c, d).disposal = activation[d].disposal
      BY <1>1 DEF Owning, Activations
    <3> QED
      BY <1>1, <2>2, <3>1 DEF Relied
  <2> QED
    BY <1>2, <2>1, <2>2 DEF Publishes
<1>3. CASE Removes(c)
  <2> DEFINE e == releaseOwnership(c, activation)[d]
  <2>1. Frame(activation'[d], e)
    BY <1>3 DEF Removes
  <2>2. CASE c \in activation[d].owned
    <3>1. e = [activation[d] EXCEPT !.owned = @ \ {c}, !.waits = @ \ {c},
                                    !.poked = TRUE]
      BY <2>2 DEF releaseOwnership
    <3>2. e.resident = activation[d].resident /\ e.disposal = activation[d].disposal
      BY <3>1, <1>1 DEF Activations
    <3> QED
      BY <1>1, <2>1, <3>2 DEF Frame, Relied
  <2>3. CASE c \notin activation[d].owned
    <3>1. e = activation[d]
      BY <2>3 DEF releaseOwnership
    <3> QED
      BY <1>1, <2>1, <3>1 DEF Frame, Relied
  <2> QED
    BY <2>2, <2>3
<1> QED
  BY <1>2, <1>3

Entry == [who : Callers \cup {watcher}, epoch : Nat]
Requests == [at : Places, op : {"none", "start", "followup"},
             child : Children \cup {Root}, epoch : Nat, aborted : BOOLEAN]
Queues == lock \in [Children -> Seq(Entry)]

\* What the operations on a queue do to its head.
LEMMA QueueHead ==
  ASSUME TypeOK, NEW c \in Children, NEW who \in Callers \cup {watcher},
         NEW epoch \in Nat, Queue(c, who, epoch)
  PROVE  Queues' /\ \A w : HeadKept(w)
<1> DEFINE e == [who |-> who, epoch |-> epoch]
<1>1. e \in Entry /\ lock[c] \in Seq(Entry)
  BY DEF Entry, TypeOK
<1> HIDE DEF e
<1>2. /\ Append(lock[c], e) \in Seq(Entry)
      /\ lock[c] # <<>> => /\ Append(lock[c], e) # <<>>
                           /\ Head(Append(lock[c], e)) = Head(lock[c])
  BY <1>1
<1>3. lock' = [lock EXCEPT ![c] = Append(lock[c], e)]
  BY DEF Queue, e
<1>4. \A d \in Children : d # c => lock'[d] = lock[d]
  BY <1>3 DEF TypeOK
<1>5. lock'[c] = Append(lock[c], e)
  BY <1>3 DEF TypeOK
<1> QED
  BY <1>2, <1>3, <1>4, <1>5 DEF HeadKept, Queues, TypeOK, Entry

\* Leaving the lock takes away its head and displaces no other holder.
LEMMA UnlockHead ==
  ASSUME TypeOK, NEW c \in Children, lock[c] # <<>>, Unlock(c)
  PROVE  Queues' /\ HeadKept(Head(lock[c]).who)
<1>1. lock[c] \in Seq(Entry)
  BY DEF Entry, TypeOK
<1>2. Tail(lock[c]) \in Seq(Entry)
  BY <1>1
<1>3. lock'[c] = Tail(lock[c]) /\ \A d \in Children : d # c => lock'[d] = lock[d]
  BY DEF Unlock, TypeOK
<1> QED
  BY <1>2, <1>3 DEF HeadKept, Queues, TypeOK, Unlock, Entry

\* A lock that is left alone keeps every holder.
LEMMA SameHead ==
  ASSUME TypeOK, UNCHANGED lock PROVE Queues' /\ \A w : HeadKept(w)
BY DEF TypeOK, HeadKept, Queues, Entry
-----------------------------------------------------------------------------
(***************************************************************************)
(* The steps that no caller takes.                                         *)
(***************************************************************************)
Others == /\ caller \in [Callers -> Requests]
          /\ drain \in [at : {"none", "barrier", "release", "done"},
                        kind : {"none", "manager", "scope"},
                        roots : SUBSET Children]
          /\ sent \in Nat /\ used \in [Kinds -> Nat]

\* The type invariant contains what is known of callers and queues.
LEMMA Typed == TypeOK => Others /\ Queues
BY DEF TypeOK, Others, Queues, Requests, Entry

\* The type invariant follows from its parts.
LEMMA TypedNext ==
  ASSUME agent' \in [Children -> Agents], Queues', Others',
         activation' \in [Children -> Activations]
  PROVE  TypeOK'
BY DEF TypeOK, Others, Queues, Requests, Entry

Quiet == Effect /\ Calm /\ UNCHANGED caller /\ Queues' /\ HeadKept(watcher)
         /\ Others'

\* A step in which no caller takes part keeps what callers rely on.
LEMMA QuietNext ==
  ASSUME TypeOK, LockOK, Quiet PROVE TypeOK' /\ LockOK'
<1>1. TypeOK'
  BY TypedNext DEF Quiet, Effect
<1>2. LockStep(watcher)
  BY DEF Quiet, Calm, LockStep
<1> QED
  BY <1>1, <1>2, LockKept, NamesAssumption DEF Quiet

\* A step on Agents and on what Frame leaves open.
LEMMA SteadyQuiet ==
  ASSUME TypeOK, agent' \in [Children -> Agents], KeepsLive, Frames,
         UNCHANGED caller, Queues', HeadKept(watcher), Others'
  PROVE  Quiet
<1>1. Effect /\ Steady
  BY SteadyEffect DEF Steady, Frames
<1>2. CASE Children = {}
  BY <1>1, <1>2 DEF Calm, Quiet
<1>3. CASE Children # {}
  BY <1>1, <1>3, CalmEffect DEF Quiet, KeepsLive
<1> QED
  BY <1>2, <1>3

\* What is already being disposed is not disposed again.
LEMMA DisposeCalm ==
  ASSUME TypeOK, NEW roots \in SUBSET Children, dispose(roots) PROVE Calm
<1> SUFFICES ASSUME NEW c \in Children PROVE Relied(c)
  BY DEF Calm
<1>1. activation[c] \in Activations /\ agent[c] \in Agents
  BY DEF TypeOK
<1>4. agent'[c].epoch = agent[c].epoch
  BY <1>1, CancelLike DEF dispose, Like
<1>2. CASE c \in Opened(roots)
  <2>1. activation'[c].resident = activation[c].resident
    <3> DEFINE e == Accounted(Inbox(agent[c]), activation[c])
    <3>1. e \in Activations /\ e.resident = activation[c].resident
      BY <1>1, AccountedFrame DEF Frame
    <3>2. activation'[c] = [e EXCEPT !.disposal = "quiesce",
                              !.waits = activation[c].owned, !.poked = TRUE]
      BY <1>2 DEF dispose
    <3> HIDE DEF e
    <3> QED
      BY <3>1, <3>2 DEF Activations
  <2> QED
    BY <1>2, <1>4, <2>1 DEF Opened, Relied
<1>3. CASE c \notin Opened(roots)
  BY <1>3, <1>4 DEF dispose, Relied
<1> QED
  BY <1>2, <1>3

\* Opening transactions is such a step.
LEMMA DisposeQuiet ==
  ASSUME TypeOK, NEW roots \in SUBSET Children, dispose(roots),
         UNCHANGED caller, Queues', HeadKept(watcher), Others'
  PROVE  Quiet
<1>1. Effect
  BY DisposeEffect
<1>2. Calm
  BY DisposeCalm
<1> QED
  BY <1>1, <1>2 DEF Quiet

\* Counting an input keeps the counters natural.
LEMMA SpendTyped ==
  ASSUME TypeOK, NEW kind \in Kinds, Spend(kind) PROVE used' \in [Kinds -> Nat]
BY DEF Spend, TypeOK

\* The disposal of one child goes on.
LEMMA QuiesceQuiet ==
  ASSUME TypeOK, NEW c \in Children, Quiesce(c) PROVE Quiet
<1>1. Advances(c, "quiesce", "flush") /\ KeepsLive
  BY DEF Quiesce, Advances, KeepsLive
<1>2. activation[c] \in Activations
  BY DEF TypeOK
<1>3. [activation[c] EXCEPT !.disposal = "flush"] \in Activations
  BY <1>2 DEF Activations
<1>4. activation' \in [Children -> Activations] /\ agent' \in [Children -> Agents]
  BY <1>3 DEF Quiesce, TypeOK
<1>5. Effect
  BY <1>1, <1>4 DEF Effect, Quiesce
<1>6. Calm /\ Queues' /\ HeadKept(watcher)
  BY <1>1, CalmEffect, SameHead DEF Quiesce
<1> QED
  BY <1>5, <1>6, Typed DEF Quiet, Quiesce, Others

\* The release of a handle is quiet.
LEMMA ReleaseQuiet ==
  ASSUME TypeOK, NEW c \in Children, Release(c) PROVE Quiet
<1>1. Advances(c, "flush", "released")
  BY DEF Release, Advances
<1>2. activation[c] \in Activations /\ agent[c] \in Agents
  BY DEF TypeOK
<1>3. [activation[c] EXCEPT !.disposal = "released"] \in Activations
  BY <1>2 DEF Activations
<1>4. activation' \in [Children -> Activations]
  BY <1>3 DEF Release, TypeOK
<1>7. /\ agent' \in [Children -> Agents] /\ ~agent'[c].live
      /\ agent'[c].epoch = agent[c].epoch
      /\ \A d \in Children \ {c} : Same(d)
  BY <1>2, UnregisteredTyped DEF Release, TypeOK
<1>5. Effect
  BY <1>1, <1>4, <1>7 DEF Effect
<1>6. Calm /\ Queues' /\ HeadKept(watcher)
  BY <1>1, <1>7, CalmEffect, SameHead DEF Release
<1> QED
  BY <1>5, <1>6, Typed DEF Quiet, Release, Others

\* The end of a disposal is quiet.
LEMMA SettleQuiet ==
  ASSUME TypeOK, TreeInv, NEW c \in Children, Settle(c) PROVE Quiet
<1>1. Tables /\ Removes(c)
  BY SettleEffect
<1>2. Relied(c)
  BY <1>1 DEF Removes, Frame, Absent, Relied, Settle
<1>3. Calm
  BY <1>1, <1>2, OneRelied DEF Calm
<1>4. Effect
  BY <1>1 DEF Effect, Tables
<1>5. sent' \in Nat
  BY DEF Settle, notifySettlement, TypeOK
<1>6. Queues' /\ HeadKept(watcher)
  BY SameHead DEF Settle
<1> QED
  BY <1>3, <1>4, <1>5, <1>6, Typed DEF Quiet, Settle, Others

\* The steps of the Agent itself.
LEMMA MovesQuiet ==
  ASSUME TypeOK, NEW c \in Children, NEW b, Like(b, agent[c]), Moves(c, b),
         used' \in [Kinds -> Nat]
  PROVE  Quiet
<1>1. agent' \in [Children -> Agents] /\ KeepsLive
  BY AgentUpdate DEF Moves
<1>2. Frames /\ Queues' /\ HeadKept(watcher)
  BY NoUpdate, SameHead DEF Moves
<1>3. UNCHANGED caller /\ Others'
  BY Typed DEF Moves, Others
<1> QED
  BY <1>1, <1>2, <1>3, SteadyQuiet

\* Claiming messages is quiet.
LEMMA ClaimsQuiet ==
  ASSUME TypeOK, NEW c \in Children, NEW ids, NEW b, Like(b, agent[c]),
         Claims(c, ids, b)
  PROVE  Quiet
<1>1. agent' \in [Children -> Agents] /\ KeepsLive
  BY AgentUpdate DEF Claims
<1>2. Frame(Accounted(ids, activation[c]), activation[c])
  BY AccountedFrame DEF TypeOK
<1>3. Frames
  BY <1>2, ActivationUpdate DEF Claims
<1>4. UNCHANGED caller /\ Others' /\ Queues' /\ HeadKept(watcher)
  BY Typed, SameHead DEF Claims, Others
<1> QED
  BY <1>1, <1>3, <1>4, SteadyQuiet

\* The other steps of an Agent are quiet.
LEMMA AgentQuiet ==
  ASSUME TypeOK, NEW c \in Children,
         \/ OpenTurn(c) \/ ClaimSteps(c) \/ EndTurn(c) \/ Converge(c)
         \/ FailTurn(c) \/ runMaintenance(c) \/ interrupt(c)
  PROVE  Quiet
<1> DEFINE a == agent[c]
<1>1. a \in Agents /\ used \in [Kinds -> Nat]
  BY DEF TypeOK
<1>2. \A ids : /\ Like([a EXCEPT !.opens = FALSE, !.steps = {},
                                 !.turns = @ \ ids], a)
               /\ Like([a EXCEPT !.steps = {}], a)
               /\ Like([a EXCEPT !.opens = TRUE], a)
               /\ Like([a EXCEPT !.phase = "leaving"], a)
               /\ Like([a EXCEPT !.phase = "maintenance", !.aborted = FALSE], a)
  BY <1>1 DEF Like, Agents
<1>3. CASE OpenTurn(c)
  BY <1>2, <1>3, ClaimsQuiet DEF OpenTurn
<1>4. CASE ClaimSteps(c)
  BY <1>2, <1>4, ClaimsQuiet DEF ClaimSteps
<1>5. CASE EndTurn(c)
  BY <1>1, <1>2, <1>5, MovesQuiet DEF EndTurn
<1>6. CASE Converge(c)
  BY <1>1, <1>6, MovesQuiet, ConvergedLike DEF Converge
<1>7. CASE FailTurn(c) \/ runMaintenance(c)
  <2>1. used' \in [Kinds -> Nat]
    BY <1>7, SpendTyped DEF FailTurn, runMaintenance, Kinds
  <2> QED
    BY <1>2, <1>7, <2>1, MovesQuiet DEF FailTurn, runMaintenance
<1>8. CASE interrupt(c)
  <2>1. used' \in [Kinds -> Nat]
    BY <1>8, SpendTyped DEF interrupt, Kinds
  <2> QED
    BY <1>1, <1>8, <2>1, MovesQuiet, CancelLike DEF interrupt
<1> QED
  BY <1>3, <1>4, <1>5, <1>6, <1>7, <1>8

\* A report to the parent is quiet.
LEMMA ReportQuiet ==
  ASSUME TypeOK, NEW c \in Children, NEW delivery, reportFrom(c, delivery)
  PROVE  Quiet
<1> DEFINE p  == Parent[c]
           id == sent + 1
<1>1. p \in Children /\ id \in Nat /\ agent[p] \in Agents
      /\ activation[p] \in Activations
  BY DEF reportFrom, Managed, TypeOK
<1>2. /\ Like(inject(agent[p], id), agent[p])
      /\ Like(wakeDriver(followup(agent[p], id)), agent[p])
  <2>1. /\ Like(inject(agent[p], id), agent[p])
        /\ Like(followup(agent[p], id), agent[p])
    BY <1>1, SendLike
  <2> QED
    BY <2>1, WakeLike DEF Like
<1>3. \/ agent' = [agent EXCEPT ![p] = inject(agent[p], id)]
      \/ agent' = [agent EXCEPT ![p] = wakeDriver(followup(agent[p], id))]
  BY DEF reportFrom
<1>4. agent' \in [Children -> Agents] /\ KeepsLive
  BY <1>1, <1>2, <1>3, AgentUpdate
<1>5. Frame(admitWaking(id, activation[p]), activation[p])
  BY <1>1, AdmitFrame
<1>6. \/ activation' = activation
      \/ activation' = [activation EXCEPT ![p] = admitWaking(id, activation[p])]
  BY DEF reportFrom
<1>7. Frames
  BY <1>1, <1>5, <1>6, ActivationUpdate, NoUpdate
<1>8. used' \in [Kinds -> Nat] /\ sent' \in Nat
  BY <1>1, SpendTyped DEF reportFrom, Kinds
<1>9. UNCHANGED caller /\ Others' /\ Queues' /\ HeadKept(watcher)
  BY <1>8, Typed, SameHead DEF reportFrom, Others
<1> QED
  BY <1>4, <1>7, <1>9, SteadyQuiet

\* The steps of a watcher.
LEMMA WatchFrame ==
  ASSUME NEW d \in Activations, NEW poked \in BOOLEAN,
         NEW watch \in {"none", "race", "queued", "decided", "await"}
  PROVE  /\ Frame([d EXCEPT !.watch = watch], d)
         /\ Frame([d EXCEPT !.watch = watch, !.poked = poked], d)
BY DEF Frame, Activations

\* A watcher that looks again is quiet.
LEMMA LoopsQuiet ==
  ASSUME TypeOK, NEW c \in Children, Decided(c) \/ Awaited(c) PROVE Quiet
<1>1. activation[c] \in Activations
  BY DEF TypeOK
<1>2. PICK watch \in {"race", "await"}, poked \in BOOLEAN :
        \/ activation' = [activation EXCEPT ![c].watch = watch]
        \/ activation' = [activation EXCEPT ![c].watch = watch,
                                            ![c].poked = FALSE]
  BY DEF Decided, Awaited, Loops
<1>3. \/ activation' = [activation EXCEPT ![c] = [activation[c] EXCEPT !.watch = watch]]
      \/ activation' = [activation EXCEPT ![c] =
           [activation[c] EXCEPT !.watch = watch, !.poked = FALSE]]
  BY <1>2
<1>4. Frames
  BY <1>1, <1>3, WatchFrame, ActivationUpdate
<1>5. UNCHANGED <<agent, lock, caller, drain, sent, used>>
  BY DEF Decided, Awaited, Loops
<1>6. Others' /\ Queues' /\ HeadKept(watcher)
  BY <1>5, Typed, SameHead DEF Others
<1> QED
  BY <1>4, <1>5, <1>6, NoUpdate, SteadyQuiet

\* A watcher that joins the queue of the lock is quiet.
LEMMA RaceQuiet ==
  ASSUME TypeOK, NEW c \in Children, Race(c) PROVE Quiet
<1>1. activation[c] \in Activations /\ agent[c].epoch \in Nat
  BY DEF TypeOK, Agents
<1>2. \/ activation' = [activation EXCEPT ![c] = [activation[c] EXCEPT !.watch = "none"]]
      \/ activation' = [activation EXCEPT ![c] = [activation[c] EXCEPT !.watch = "queued"]]
  BY DEF Race
<1>3. Frames
  BY <1>1, <1>2, WatchFrame, ActivationUpdate
<1>4. UNCHANGED lock \/ Queue(c, watcher, agent[c].epoch)
  BY DEF Race
<1>5. Queues' /\ HeadKept(watcher)
  BY <1>1, <1>4, SameHead, QueueHead
<1>6. UNCHANGED <<agent, caller, drain, sent, used>>
  BY DEF Race
<1> QED
  BY <1>3, <1>5, <1>6, NoUpdate, Typed, SteadyQuiet DEF Others

\* A decision in the lock, and the disposal it may begin, are quiet.
LEMMA DecideQuiet ==
  ASSUME TypeOK, NEW c \in Children, Decide(c) PROVE Quiet
<1>1. activation[c] \in Activations
  BY DEF TypeOK
<1>2. Queues' /\ HeadKept(watcher)
  BY UnlockHead DEF Decide
<1>3. UNCHANGED <<caller, drain, sent, used>> /\ Others'
  BY Typed DEF Decide, Others
<1>4. \/ UNCHANGED <<agent, activation>>
      \/ /\ UNCHANGED agent
         /\ activation' = [activation EXCEPT ![c] =
                             [activation[c] EXCEPT !.watch = "decided"]]
      \/ dispose({c})
  BY DEF Decide
<1>5. CASE dispose({c})
  BY <1>2, <1>3, <1>5, DisposeQuiet
<1>6. CASE UNCHANGED agent /\ ~dispose({c})
  <2>1. Frames
    BY <1>1, <1>4, <1>6, WatchFrame, ActivationUpdate, NoUpdate
  <2> QED
    BY <1>2, <1>3, <1>6, <2>1, NoUpdate, SteadyQuiet
<1> QED
  BY <1>4, <1>5, <1>6

\* The drain.
LEMMA RootsTyped == Residents \subseteq Children /\ Roots \subseteq Children
BY DEF Residents, Roots

\* The steps of a drain are quiet.
LEMMA DrainQuiet ==
  ASSUME TypeOK, (\E kind \in {"manager", "scope"} : Drain(kind))
                 \/ Barrier \/ Drained
  PROVE  Quiet
<1>1. UNCHANGED <<lock, caller, sent, used>>
  BY DEF Drain, Barrier, Drained
<1>2. drain' \in [at : {"none", "barrier", "release", "done"},
                  kind : {"none", "manager", "scope"},
                  roots : SUBSET Children]
  <2>1. CASE \E kind \in {"manager", "scope"} : Drain(kind)
    BY <2>1, RootsTyped DEF Drain
  <2>2. CASE Barrier \/ Drained
    <3>1. drain' \in {[drain EXCEPT !.at = "release", !.roots = Roots],
                      [drain EXCEPT !.at = "release"],
                      [drain EXCEPT !.at = "done"]}
      BY <2>2 DEF Barrier, Drained
    <3> QED
      BY <3>1, RootsTyped DEF TypeOK
  <2> QED
    BY <2>1, <2>2
<1>3. Others' /\ Queues' /\ HeadKept(watcher)
  BY <1>1, <1>2, Typed, SameHead DEF Others
<1>4. \/ UNCHANGED <<agent, activation>>
      \/ \E roots \in SUBSET Children : dispose(roots)
  BY RootsTyped DEF Drain, Barrier, Drained, TypeOK
<1> QED
  BY <1>1, <1>3, <1>4, DisposeQuiet, NoUpdate, SteadyQuiet

\* Every step of a child is quiet.
LEMMA ChildQuiet ==
  ASSUME TypeOK, TreeInv, NEW c \in Children, ChildStep(c) PROVE Quiet
BY QuiesceQuiet, ReleaseQuiet, SettleQuiet, AgentQuiet, RaceQuiet,
   DecideQuiet, LoopsQuiet DEF ChildStep
-----------------------------------------------------------------------------
(***************************************************************************)
(* The steps of a caller.                                                  *)
(***************************************************************************)
Own(k) == /\ Effect /\ Queues' /\ Others'
          /\ LockStep(k) /\ Stranger(k) /\ CallerOK(k)'

\* A caller's own step keeps what the other callers rely on.
LEMMA OwnNext ==
  ASSUME TypeOK, LockOK, NEW k \in Callers, Own(k) PROVE TypeOK' /\ LockOK'
BY TypedNext, LockKept DEF Own, Effect

\* What a caller knows at its place.
LEMMA Place ==
  ASSUME TypeOK, LockOK, NEW k \in Callers, caller[k].at # "outside"
  PROVE  /\ caller[k] \in Requests /\ caller[k].child \in Children
         /\ caller[k].at \in Holding =>
              /\ lock[caller[k].child] # <<>>
              /\ Head(lock[caller[k].child]).who = k
BY DEF TypeOK, LockOK, CallerOK, Requests, Holds

\* Moving to another place changes one caller only.
LEMMA AtMoves ==
  ASSUME TypeOK, NEW k \in Callers, NEW place \in Places, At(k, place)
  PROVE  /\ caller' \in [Callers -> Requests]
         /\ \A j \in Callers \ {k} : caller'[j] = caller[j]
         /\ caller'[k].at = place /\ caller'[k].child = caller[k].child
         /\ caller'[k].op = caller[k].op /\ Stranger(k)
<1>1. caller[k] \in Requests
  BY DEF TypeOK, Requests
<1>2. /\ caller'[k] = [caller[k] EXCEPT !.at = place]
      /\ \A j \in Callers \ {k} : caller'[j] = caller[j]
      /\ caller' = [j \in Callers |-> caller'[j]]
  BY DEF At, TypeOK
<1>3. caller'[k] \in Requests /\ caller'[k].at = place
      /\ caller'[k].child = caller[k].child /\ caller'[k].op = caller[k].op
  BY <1>1, <1>2 DEF Requests
<1>4. \A j \in Callers : caller'[j] \in Requests
  BY <1>2, <1>3 DEF TypeOK, Requests
<1> QED
  BY <1>2, <1>3, <1>4 DEF Stranger

\* So does returning.
LEMMA ReturnsMoves ==
  ASSUME TypeOK, NEW k \in Callers, Returns(k)
  PROVE  /\ caller' \in [Callers -> Requests]
         /\ \A j \in Callers \ {k} : caller'[j] = caller[j]
         /\ Stranger(k) /\ CallerOK(k)'
<1>1. Outside \in Requests /\ Outside.at = "outside" /\ Outside.child = Root
  BY DEF Outside, Requests, Places
<1>2. caller'[k] = Outside
  BY DEF Returns, TypeOK
<1>3. Stranger(k) /\ CallerOK(k)'
  BY <1>1, <1>2 DEF CallerOK, Holding, Starting, Stranger
<1>4. caller' \in [Callers -> Requests]
  BY <1>1 DEF Returns, TypeOK, Requests
<1> QED
  BY <1>3, <1>4 DEF Returns, TypeOK

\* A step that changes neither table takes nothing a caller relies on.
LEMMA Still ==
  ASSUME TypeOK, UNCHANGED <<agent, activation>> PROVE Effect /\ Calm
<1>1. Effect
  BY NoUpdate, SteadyEffect
<1> QED
  BY <1>1 DEF Calm, Relied

\* A new call is a step of its caller.
LEMMA InputOwn ==
  ASSUME TypeOK, LockOK, NEW k \in Callers, NEW c \in Children,
         startContinuable(k, c) \/ Followup(k, c) \/ Abort(k)
  PROVE  Own(k)
<1>1. UNCHANGED <<agent, activation, drain, sent>> /\ used' \in [Kinds -> Nat]
  BY SpendTyped DEF startContinuable, Followup, Abort, Kinds
<1>2. Effect /\ Calm
  BY <1>1, Still
<1>3. UNCHANGED lock \/ Queue(c, k, 0)
  BY DEF startContinuable, Followup, Abort
<1>4. Queues' /\ HeadKept(k)
  BY <1>3, SameHead, QueueHead
<1>5. CASE startContinuable(k, c) \/ Followup(k, c)
  <2>1. PICK op \in {"start", "followup"}, place \in {"prepare", "queued"} :
          /\ caller' = [caller EXCEPT ![k] = Request(c, op, place)]
          /\ op = "start" => agent[c].epoch = 0
          /\ op = "start" => \A j \in Callers : caller[j].child # c
          /\ op = "followup" => agent[c].epoch > 0
    BY <1>5 DEF startContinuable, Followup
  <2>2. (Managed(c) => agent[Parent[c]].epoch \in Nat) /\ agent[c].epoch \in Nat
    BY DEF Managed, TypeOK, Agents
  <2>3. /\ Request(c, op, place) \in Requests
        /\ Request(c, op, place).at \in {"prepare", "queued"}
        /\ Request(c, op, place).child = c
        /\ Request(c, op, place).op = op
    BY <2>2 DEF Request, Requests, Places
  <2>4. /\ caller' \in [Callers -> Requests]
        /\ \A j \in Callers \ {k} : caller'[j] = caller[j]
        /\ caller'[k] = Request(c, op, place)
    BY <2>1, <2>3 DEF TypeOK, Requests
  <2>5. CallerOK(k)'
    BY <1>1, <2>1, <2>3, <2>4 DEF CallerOK, Holding, Starting
  <2>6. op = "followup" => agent[c].epoch # 0
    BY <2>1, <2>2
  <2>7. Stranger(k)
    BY <2>1, <2>3, <2>4, <2>6 DEF Stranger
  <2> QED
    BY <1>1, <1>2, <1>4, <2>4, <2>5, <2>7, Typed
       DEF Own, Others, LockStep, Calm
<1>6. CASE Abort(k)
  <2>1. caller[k] \in Requests
    BY DEF TypeOK, Requests
  <2>2. /\ caller'[k] = [caller[k] EXCEPT !.aborted = TRUE]
        /\ \A j \in Callers \ {k} : caller'[j] = caller[j]
    BY <1>6 DEF Abort, TypeOK
  <2>3. /\ caller'[k] \in Requests /\ caller'[k].at = caller[k].at
        /\ caller'[k].child = caller[k].child /\ caller'[k].op = caller[k].op
    BY <2>1, <2>2 DEF Requests
  <2>4. caller' \in [Callers -> Requests]
    BY <1>6, <2>1 DEF Abort, TypeOK, Requests
  <2>5. UNCHANGED lock
    BY <1>6 DEF Abort
  <2>7. CallerOK(k)
    BY DEF LockOK
  <2>6. CallerOK(k)' /\ Stranger(k)
    BY <1>1, <2>2, <2>3, <2>5, <2>7 DEF CallerOK, Holds, Starting, Stranger
  <2> QED
    BY <1>1, <1>2, <1>4, <2>2, <2>4, <2>6, Typed
       DEF Own, Others, LockStep, Calm
<1> QED
  BY <1>5, <1>6

\* A caller in its critical section leaves it, or goes on in it.
Within(k) == /\ caller[k].at # "outside" /\ Holds(k)
             /\ Effect /\ UNCHANGED drain /\ sent' \in Nat /\ used' \in [Kinds -> Nat]
             /\ \A d \in Children \ {caller[k].child} : Relied(d)

\* A return out of the lock is a step of its caller.
LEMMA ReturnOwn ==
  ASSUME TypeOK, LockOK, NEW k \in Callers, Within(k),
         Returns(k), Unlock(caller[k].child)
  PROVE  Own(k)
<1> DEFINE c == caller[k].child
<1>1. c \in Children /\ lock[c] # <<>> /\ Head(lock[c]).who = k
  BY Place DEF Within, Holds
<1>2. Queues' /\ HeadKept(k)
  BY <1>1, UnlockHead
<1>3. LockStep(k)
  BY <1>1, <1>2, ReturnsMoves DEF LockStep, Within
<1>4. Others'
  BY ReturnsMoves, Typed DEF Others, Within
<1> QED
  BY <1>2, <1>3, <1>4, ReturnsMoves DEF Own, Within

\* A move within the lock is a step of its caller.
LEMMA MoveOwn ==
  ASSUME TypeOK, LockOK, NEW k \in Callers, Within(k), UNCHANGED lock,
         NEW place \in Holding, At(k, place),
         place \in {"inspect", "create"} =>
           ~activation'[caller[k].child].resident,
         place = "undo" => /\ activation'[caller[k].child].disposal = "undo"
                           /\ activation'[caller[k].child].resident,
         place = "wait" => caller[k].op = "followup"
  PROVE  Own(k)
<1> DEFINE c == caller[k].child
<1>1. c \in Children /\ lock[c] # <<>> /\ Head(lock[c]).who = k
  BY Place DEF Within, Holds
<1>2. place \in Places /\ place # "outside"
  BY DEF Holding, Places
<1>3. /\ caller' \in [Callers -> Requests]
      /\ \A j \in Callers \ {k} : caller'[j] = caller[j]
      /\ caller'[k].at = place /\ caller'[k].child = caller[k].child
      /\ caller'[k].op = caller[k].op /\ Stranger(k)
  BY <1>2, AtMoves
<1>4. Queues' /\ HeadKept(k)
  BY SameHead
<1>5. LockStep(k)
  BY <1>1, <1>3, <1>4 DEF LockStep, Within
<1>6. CallerOK(k)'
  BY <1>1, <1>3 DEF CallerOK, Holds, Starting, Holding
<1>7. Others'
  BY <1>3, Typed DEF Others, Within
<1> QED
  BY <1>3, <1>4, <1>5, <1>6, <1>7 DEF Own, Within

\* Nor does a step of its holder that only counts an input.
LEMMA StillWithin ==
  ASSUME TypeOK, NEW k \in Callers, caller[k].at # "outside", Holds(k),
         UNCHANGED <<agent, activation, drain, sent>>, used' \in [Kinds -> Nat]
  PROVE  Within(k)
BY Still, Typed DEF Within, Calm, Others

\* The last cutoff lets no caller submit to a child whose parent has gone.
LEMMA SubmitWithin ==
  ASSUME TypeOK, LockOK, TreeInv, NEW k \in Callers, caller[k].at # "outside",
         Holds(k), Admits(k), submit(caller[k].child), UNCHANGED <<drain, used>>
  PROVE  Within(k)
<1> DEFINE c == caller[k].child
<1>1. c \in Children
  BY Place
<1>2. Managed(c) => agent[Parent[c]].live
  BY DEF Admits, authorizeLineage, Managed
<1>3. activation[c].resident /\ activation[c].disposal = "none" /\ ParentAdmits(c)
  BY DEF Admits
<1>4. Effect /\ Submits(c)
  BY <1>1, <1>2, <1>3, SubmitEffect
<1>5. Calm
  BY <1>1, <1>4, CalmEffect DEF Submits, KeepsLive
<1>6. sent' \in Nat
  BY DEF submit, TypeOK
<1> QED
  BY <1>4, <1>5, <1>6, Typed DEF Within, Calm, Others

\* The end of the provider's preparation is a step of its caller.
LEMMA PreparedOwn ==
  ASSUME TypeOK, LockOK, NEW k \in Callers, Prepared(k) PROVE Own(k)
<1>1. UNCHANGED <<agent, activation, drain, sent>> /\ used' \in [Kinds -> Nat]
  BY SpendTyped DEF Prepared, Kinds, TypeOK
<1>2. Effect /\ Calm /\ caller[k].child \in Children
  BY <1>1, Still, Place DEF Prepared
<1>3. UNCHANGED lock \/ Queue(caller[k].child, k, 0)
  BY DEF Prepared
<1>4. Queues' /\ HeadKept(k)
  BY <1>2, <1>3, SameHead, QueueHead
<1>5. At(k, "queued") \/ Returns(k)
  BY DEF Prepared
<1>6. /\ caller' \in [Callers -> Requests]
      /\ \A j \in Callers \ {k} : caller'[j] = caller[j]
      /\ Stranger(k) /\ CallerOK(k)'
  <2>1. CASE At(k, "queued")
    <3>1. /\ caller' \in [Callers -> Requests]
          /\ \A j \in Callers \ {k} : caller'[j] = caller[j]
          /\ caller'[k].at = "queued" /\ caller'[k].child = caller[k].child
          /\ caller'[k].op = caller[k].op /\ Stranger(k)
      BY <2>1, AtMoves DEF Places
    <3>2. CallerOK(k) /\ caller[k].at = "prepare"
      BY DEF LockOK, Prepared
    <3> QED
      BY <1>1, <1>2, <3>1, <3>2 DEF CallerOK, Holding, Starting
  <2>2. CASE Returns(k)
    BY <2>2, ReturnsMoves
  <2> QED
    BY <1>5, <2>1, <2>2
<1> QED
  BY <1>1, <1>2, <1>4, <1>6, Typed DEF Own, Others, LockStep, Calm

\* So is the start of the critical section.
LEMMA LockedOwn ==
  ASSUME TypeOK, LockOK, TreeInv, NEW k \in Callers, Locked(k) PROVE Own(k)
<1> DEFINE c == caller[k].child
<1>1. caller[k].at # "outside" /\ Holds(k) /\ UNCHANGED <<drain, used>>
  BY DEF Locked
<1>2. used' \in [Kinds -> Nat]
  BY <1>1 DEF TypeOK
<1>3. \/ /\ caller[k].op = "start" /\ At(k, "create")
         /\ UNCHANGED <<agent, activation, lock, sent>>
      \/ /\ Returns(k) /\ Unlock(c) /\ UNCHANGED <<agent, activation, sent>>
      \/ /\ ~activation[c].resident /\ At(k, "inspect")
         /\ UNCHANGED <<agent, activation, lock, sent>>
      \/ /\ caller[k].op = "followup" /\ At(k, "wait")
         /\ UNCHANGED <<agent, activation, lock, sent>>
      \/ Admits(k) /\ submit(c) /\ Returns(k) /\ Unlock(c)
  BY DEF Locked
<1>4. CASE UNCHANGED <<agent, activation, sent>> /\ Returns(k) /\ Unlock(c)
  BY <1>1, <1>2, <1>4, StillWithin, ReturnOwn
<1>5. CASE Admits(k) /\ submit(c) /\ Returns(k) /\ Unlock(c)
  BY <1>1, <1>5, SubmitWithin, ReturnOwn
<1>6. ASSUME UNCHANGED <<agent, activation, lock, sent>>,
             NEW place \in {"create", "inspect", "wait"}, At(k, place),
             place = "wait" => caller[k].op = "followup",
             place \in {"inspect", "create"} => ~activation[c].resident
      PROVE  Own(k)
  <2>1. Within(k)
    BY <1>1, <1>2, <1>6, StillWithin
  <2>2. place \in Holding /\ activation' = activation /\ place # "undo"
    BY <1>6 DEF Holding
  <2> QED
    BY <1>6, <2>1, <2>2, MoveOwn
<1>7. caller[k].op = "start" => ~activation[c].resident
  <2>1. c \in Children /\ (caller[k].op = "start" => agent[c].epoch = 0)
    BY Place DEF Locked, LockOK, CallerOK, Starting
  <2> QED
    BY <2>1 DEF TreeInv, LiveOK
<1> QED
  BY <1>3, <1>4, <1>5, <1>6, <1>7

\* So is the end of the wait for a disposal, which begins again.
LEMMA WaitedOwn ==
  ASSUME TypeOK, LockOK, NEW k \in Callers, Waited(k) PROVE Own(k)
<1> DEFINE c == caller[k].child
           e == [who |-> k, epoch |-> 0]
<1>1. /\ caller[k].at = "wait" /\ caller[k].op = "followup" /\ Holds(k)
      /\ UNCHANGED <<agent, activation, drain, sent, used>>
      /\ used' \in [Kinds -> Nat]
  BY DEF Waited, LockOK, CallerOK, Holding, TypeOK
<1>2. c \in Children /\ lock[c] # <<>> /\ Head(lock[c]).who = k
  BY <1>1, Place DEF Holding
<1>3. CASE Returns(k) /\ Unlock(c)
  BY <1>1, <1>3, StillWithin, ReturnOwn
<1>4. CASE At(k, "queued") /\ lock' = [lock EXCEPT ![c] = Append(Tail(@), e)]
  <2>1. e \in Entry /\ lock[c] \in Seq(Entry)
    BY <1>2 DEF Entry, TypeOK
  <2> HIDE DEF e
  <2>2. Append(Tail(lock[c]), e) \in Seq(Entry)
    BY <2>1, <1>2
  <2>3. \A d \in Children \ {c} : lock'[d] = lock[d]
    BY <1>4 DEF TypeOK
  <2>4. Queues' /\ HeadKept(k)
    BY <1>2, <1>4, <2>2, <2>3 DEF Queues, HeadKept, TypeOK, Entry
  <2>5. Effect /\ Calm
    BY <1>1, Still
  <2>6. /\ caller' \in [Callers -> Requests]
        /\ \A j \in Callers \ {k} : caller'[j] = caller[j]
        /\ caller'[k].at = "queued" /\ caller'[k].child = c
        /\ caller'[k].op = "followup" /\ Stranger(k)
    BY <1>1, <1>4, AtMoves DEF Places
  <2>7. CallerOK(k)'
    BY <1>2, <2>6 DEF CallerOK, Holding, Starting
  <2> QED
    BY <1>1, <2>4, <2>5, <2>6, <2>7, Typed DEF Own, Others, LockStep, Calm
<1> QED
  BY <1>3, <1>4 DEF Waited

\* So is the end of the inspection.
LEMMA InspectedOwn ==
  ASSUME TypeOK, LockOK, NEW k \in Callers, Inspected(k) PROVE Own(k)
<1> DEFINE c == caller[k].child
<1>1. /\ caller[k].at = "inspect" /\ Holds(k) /\ ~activation[c].resident
      /\ UNCHANGED <<agent, activation, drain, sent>>
  BY DEF Inspected, LockOK, CallerOK, Holding
<1>2. used' \in [Kinds -> Nat]
  BY SpendTyped DEF Inspected, Kinds, TypeOK
<1>3. Within(k)
  BY <1>1, <1>2, StillWithin
<1>4. CASE At(k, "create") /\ UNCHANGED lock
  BY <1>1, <1>3, <1>4, MoveOwn DEF Holding
<1>5. CASE Returns(k) /\ Unlock(c)
  BY <1>3, <1>5, ReturnOwn
<1> QED
  BY <1>4, <1>5 DEF Inspected

\* So is the creation of the Agent, installed or undone.
LEMMA CreatedOwn ==
  ASSUME TypeOK, LockOK, TreeInv, NEW k \in Callers, Created(k) PROVE Own(k)
<1> DEFINE c == caller[k].child
<1>1. /\ caller[k].at = "create" /\ Holds(k) /\ ~activation[c].resident
      /\ UNCHANGED <<drain, sent>> /\ c \in Children
  BY DEF Created, LockOK, CallerOK, Holding
<1>2. used' \in [Kinds -> Nat] /\ sent' \in Nat
  BY <1>1, SpendTyped DEF Created, Kinds, TypeOK
<1>3. CASE Returns(k) /\ Unlock(c) /\ UNCHANGED <<agent, activation>>
  BY <1>1, <1>2, <1>3, StillWithin, ReturnOwn
<1>4. ASSUME NEW place \in {"submit", "undo"}, At(k, place), UNCHANGED lock
      PROVE  Own(k)
  <2>1. caller'[k].at = place
    BY <1>4, AtMoves DEF Places
  <2>2. Tables /\ Publishes(c)
        /\ (place = "undo" => activation'[c].disposal = "undo")
    BY <2>1, CreatedEffect
  <2>3. Effect /\ activation'[c].resident
    BY <1>1, <2>2 DEF Effect, Tables, Publishes
  <2>4. Within(k)
    BY <1>1, <1>2, <2>2, <2>3, OneRelied DEF Within
  <2> QED
    BY <1>4, <2>2, <2>3, <2>4, MoveOwn DEF Holding
<1> QED
  BY <1>3, <1>4 DEF Created

\* So is the end of a rollback.
LEMMA UndoneOwn ==
  ASSUME TypeOK, LockOK, TreeInv, NEW k \in Callers, Undone(k) PROVE Own(k)
<1> DEFINE c == caller[k].child
<1>1. /\ caller[k].at = "undo" /\ Holds(k) /\ UNCHANGED <<drain, sent, used>>
      /\ Returns(k) /\ Unlock(c)
  BY DEF Undone, LockOK, CallerOK, Holding
<1>2. Tables /\ c \in Children /\ Removes(c)
  BY UndoneEffect
<1>3. Within(k)
  BY <1>1, <1>2, OneRelied DEF Within, Effect, Tables, TypeOK
<1> QED
  BY <1>1, <1>3, ReturnOwn

\* So is the submission of the first message, or its rollback.
LEMMA SubmitOwn ==
  ASSUME TypeOK, LockOK, TreeInv, NEW k \in Callers, submitMaterialized(k)
  PROVE  Own(k)
<1> DEFINE c == caller[k].child
<1>1. /\ caller[k].at = "submit" /\ Holds(k) /\ UNCHANGED <<drain, used>>
  BY DEF submitMaterialized, LockOK, CallerOK, Holding
<1>2. c \in Children
  BY <1>1, Place
<1>3. CASE Admits(k) /\ submit(c) /\ Returns(k) /\ Unlock(c)
  BY <1>1, <1>3, SubmitWithin, ReturnOwn
<1>4. CASE dispose({c}) /\ At(k, "rollback") /\ UNCHANGED <<lock, sent>>
  <2>1. Effect /\ Calm
    BY <1>2, <1>4, DisposeEffect, DisposeCalm
  <2>2. Within(k)
    BY <1>1, <1>4, <2>1 DEF Within, Calm, TypeOK
  <2> QED
    BY <1>4, <2>2, MoveOwn DEF Holding
<1> QED
  BY <1>3, <1>4 DEF submitMaterialized

\* So is the return after a rollback.
LEMMA RolledBackOwn ==
  ASSUME TypeOK, LockOK, NEW k \in Callers, RolledBack(k) PROVE Own(k)
<1>1. /\ caller[k].at = "rollback" /\ Holds(k) /\ used' \in [Kinds -> Nat]
      /\ UNCHANGED <<agent, activation, drain, sent>>
      /\ Returns(k) /\ Unlock(caller[k].child)
  BY DEF RolledBack, LockOK, CallerOK, Holding, TypeOK
<1> QED
  BY <1>1, StillWithin, ReturnOwn

\* Every step of a caller is its own.
LEMMA CallerOwn ==
  ASSUME TypeOK, LockOK, TreeInv, NEW k \in Callers, CallerStep(k)
  PROVE  Own(k)
BY PreparedOwn, LockedOwn, WaitedOwn, InspectedOwn, CreatedOwn, UndoneOwn,
   SubmitOwn, RolledBackOwn DEF CallerStep
-----------------------------------------------------------------------------
(***************************************************************************)
(* The invariant and what follows from it.                                 *)
(***************************************************************************)
LEMMA InitInv == Init => IInv
<1> SUFFICES ASSUME Init PROVE IInv
  OBVIOUS
<1>1. /\ NoAgent \in Agents /\ [NoAgent EXCEPT !.epoch = 1] \in Agents
      /\ ~NoAgent.live /\ ~[NoAgent EXCEPT !.epoch = 1].live
  BY DEF NoAgent, Agents
<1>2. /\ Absent \in Activations /\ Absent.owned = {} /\ ~Absent.resident
      /\ Absent.disposal = "none" /\ ~Absent.announced
  BY DEF Absent, Activations
<1>3. Outside \in Requests /\ Outside.at = "outside"
  BY DEF Outside, Requests, Places
<1>4. \A c \in Children : agent[c] \in Agents /\ ~agent[c].live
  BY <1>1 DEF Init
<1>5. \A c \in Children : activation[c] = Absent
  BY DEF Init
<1>6. \A k \in Callers : caller[k] = Outside
  BY DEF Init
<1>7. TypeOK
  <2>1. agent \in [Children -> Agents]
    BY <1>4 DEF Init
  <2>2. activation \in [Children -> Activations]
    BY <1>2 DEF Init
  <2>3. Queues /\ caller \in [Callers -> Requests]
    BY <1>3 DEF Init, Queues
  <2> QED
    BY <2>1, <2>2, <2>3 DEF Init, TypeOK, Queues, Requests, Entry
<1>8. LockOK
  BY <1>3, <1>6 DEF LockOK, CallerOK, Holding, Starting
<1>9. TreeInv
  BY <1>2, <1>4, <1>5 DEF TreeInv, OwnerOK, StageOK, LiveOK
<1> QED
  BY <1>7, <1>8, <1>9 DEF IInv

\* Every step of the specification preserves the invariant.
LEMMA NextInv == IInv /\ [Next]_vars => IInv'
<1> SUFFICES ASSUME IInv, [Next]_vars PROVE IInv'
  OBVIOUS
<1> USE DEF IInv
<1>1. CASE \E k \in Callers : Own(k)
  BY <1>1, OwnNext, EffectTree DEF Own
<1>2. CASE Quiet
  BY <1>2, QuietNext, EffectTree DEF Quiet
<1>3. CASE Progress
  BY <1>1, <1>2, <1>3, CallerOwn, ChildQuiet, DrainQuiet DEF Progress
<1>4. CASE Input
  <2>1. CASE \E k \in Callers, c \in Children :
               startContinuable(k, c) \/ Followup(k, c)
    BY <1>1, <2>1, InputOwn
  <2>2. ASSUME NEW k \in Callers, Abort(k) PROVE IInv'
    <3>1. CASE Children = {}
      <4>1. caller[k].child \in Children
        BY <2>2, Place DEF Abort
      <4> QED
        BY <3>1, <4>1
    <3> QED
      BY <1>1, <2>2, <3>1, InputOwn
  <2>3. CASE \E c \in Children : FailTurn(c) \/ runMaintenance(c) \/ interrupt(c)
    BY <1>2, <2>3, AgentQuiet
  <2>4. CASE \E c \in Children, delivery \in {"quiet", "wakeup"} :
               reportFrom(c, delivery)
    BY <1>2, <2>4, ReportQuiet
  <2>5. CASE \E kind \in {"manager", "scope"} : Drain(kind)
    BY <1>2, <2>5, DrainQuiet
  <2> QED
    BY <1>4, <2>1, <2>2, <2>3, <2>4, <2>5 DEF Input
<1>5. CASE UNCHANGED vars
  <2>1. UNCHANGED <<agent, activation, lock, caller, drain, sent, used>>
    BY <1>5 DEF vars
  <2>2. Others' /\ Queues' /\ HeadKept(watcher)
    BY <2>1, Typed, SameHead DEF Others
  <2> QED
    BY <1>2, <2>1, <2>2, NoUpdate, SteadyQuiet
<1> QED
  BY <1>3, <1>4, <1>5 DEF Next

\* Every variable of the manager keeps its type, for every tree of children:
\* what ChildLock, the activations map and the callers can be.
THEOREM SubagentsTyped == Spec => []TypeOK
<1>1. IInv => TypeOK
  BY DEF IInv
<1> QED
  BY <1>1, InitInv, NextInv, PTL DEF Spec

\* acquireOwnership, dispose and finishDisposal keep every child whose caller
\* got an id below a resident parent that waits for it.
THEOREM OwnershipCorrect == Spec => []ParentOutlivesChild
<1>1. ASSUME IInv PROVE ParentOutlivesChild
  <2> SUFFICES ASSUME NEW c \in Children, activation[c].announced, Managed(c)
               PROVE  LET owner == activation[Parent[c]]
                      IN  /\ owner.resident /\ c \in owner.owned
                          /\ agent[Parent[c]].live
                          /\ owner.disposal \in {"none", "quiesce"}
                          /\ owner.disposal # "none" =>
                               activation[c].disposal # "none"
    BY DEF ParentOutlivesChild
  <2>1. Parent[c] \in Children /\ activation[Parent[c]] \in Activations
    BY <1>1 DEF Managed, IInv, TypeOK
  <2>2. activation[Parent[c]].resident /\ c \in activation[Parent[c]].owned
    BY <1>1, <2>1 DEF IInv, TreeInv, OwnerOK
  <2>3. /\ activation[Parent[c]].disposal \notin {"undo", "flush", "released"}
        /\ activation[Parent[c]].disposal # "none" =>
             activation[c].disposal # "none"
    BY <1>1, <2>1, <2>2 DEF IInv, TreeInv, StageOK
  <2>4. activation[Parent[c]].disposal \in {"none", "quiesce"}
    BY <2>1, <2>3 DEF Activations
  <2>5. agent[Parent[c]].live
    BY <1>1, <2>1, <2>2, <2>3 DEF IInv, TreeInv, LiveOK
  <2> QED
    BY <2>2, <2>3, <2>4, <2>5
<1>2. IInv => ParentOutlivesChild
  BY <1>1
<1> QED
  BY <1>2, InitInv, NextInv, PTL DEF Spec
-----------------------------------------------------------------------------
(***************************************************************************)
(* The drain.  Once it has looked, every resident child is a root that it  *)
(* waits for, or is owned by its parent, or is being undone by the caller  *)
(* that made it, for whom the barrier waits.                               *)
(***************************************************************************)
Undoing(c) == \E k \in Callers : caller[k].at = "undo" /\ caller[k].child = c
UndoOK == \A c \in Children : activation[c].disposal = "undo" => Undoing(c)

Sealed == \/ drain.at \in {"release", "done"}
          \/ drain.at = "barrier" /\ drain.kind = "scope"
Rooted(c) ==
  c \in drain.roots \/ (Managed(c) /\ c \in activation[Parent[c]].owned)
SealOK == Sealed =>
  \A c \in Residents : activation[c].disposal = "undo" \/ Rooted(c)

BarrierOK == drain.at \in {"release", "done"} => Materializing = {}
DoneOK    == drain.at = "done" => Residents = {}
DrainOK   == UndoOK /\ SealOK /\ BarrierOK /\ DoneOK

\* A resident child was so before, and has the owner it had.
Persists(c) ==
  activation'[c].resident =>
    /\ activation[c].resident
    /\ activation'[c].disposal = "undo" => activation[c].disposal = "undo"
    /\ Managed(c) /\ c \in activation[Parent[c]].owned =>
         c \in activation'[Parent[c]].owned

\* Every effect keeps the resident children where they are, but for the one
\* that it publishes.
LEMMA EffectPersists ==
  ASSUME TypeOK, TreeInv, Effect, NEW c \in Children
  PROVE  Persists(c) \/ Publishes(c)
<1>1. /\ Managed(c) => Parent[c] \in Children
      /\ \A d \in Children : activation[d] \in Activations
  BY DEF Managed, TypeOK
<1>2. CASE Steady
  BY <1>1, <1>2 DEF Steady, Frame, Persists
<1>3. ASSUME NEW roots \in SUBSET Children, Disposes(roots) PROVE Persists(c)
  BY <1>1, <1>3 DEF Disposes, Frame, Persists
<1>4. ASSUME NEW d \in Children, NEW from, NEW to \in {"flush", "released"},
             Advances(d, from, to)
      PROVE  Persists(c)
  <2>1. \A e \in Children : /\ activation'[e].resident = activation[e].resident
                            /\ activation'[e].owned = activation[e].owned
                            /\ activation'[e].disposal \in {activation[e].disposal, to}
    BY <1>1, <1>4 DEF Advances, TypeOK, Activations
  <2> QED
    BY <1>1, <2>1 DEF Persists
<1>5. ASSUME NEW d \in Children, Removes(d) PROVE Persists(c)
  <2>1. activation[d].owned = {} /\ ~activation'[d].resident
    BY <1>5 DEF Removes, Frame, Absent
  <2>2. \A e \in Children \ {d} :
          /\ activation'[e].resident = activation[e].resident
          /\ activation'[e].disposal = activation[e].disposal
          /\ activation'[e].owned = activation[e].owned \ {d}
    <3> SUFFICES ASSUME NEW e \in Children \ {d}
                 PROVE  /\ activation'[e].resident = activation[e].resident
                        /\ activation'[e].disposal = activation[e].disposal
                        /\ activation'[e].owned = activation[e].owned \ {d}
      OBVIOUS
    <3>1. Frame(activation'[e], releaseOwnership(d, activation)[e])
      BY <1>5 DEF Removes
    <3>2. CASE d \in activation[e].owned
      BY <1>1, <3>1, <3>2 DEF releaseOwnership, Frame, Activations
    <3>3. CASE d \notin activation[e].owned
      BY <3>1, <3>3 DEF releaseOwnership, Frame
    <3> QED
      BY <3>2, <3>3
  <2> QED
    BY <1>1, <2>1, <2>2 DEF Persists
<1>6. ASSUME NEW d \in Children, Publishes(d), c # d PROVE Persists(c)
  <2>1. \A e \in Children \ {d} :
          /\ activation'[e].resident = activation[e].resident
          /\ activation'[e].disposal = activation[e].disposal
          /\ activation[e].owned \subseteq activation'[e].owned
    <3> SUFFICES ASSUME NEW e \in Children \ {d}
                 PROVE  /\ activation'[e].resident = activation[e].resident
                        /\ activation'[e].disposal = activation[e].disposal
                        /\ activation[e].owned \subseteq activation'[e].owned
      OBVIOUS
    <3>1. activation'[e] = activation[e] \/ activation'[e] = Owning(d, e)
      BY <1>6 DEF Publishes
    <3>2. CASE activation'[e] = Owning(d, e)
      BY <1>1, <3>2 DEF Owning, Activations
    <3> QED
      BY <3>1, <3>2
  <2>2. activation[d].owned = {}
    BY <1>6 DEF Publishes, TreeInv, OwnerOK
  <2> QED
    BY <1>1, <1>6, <2>1, <2>2 DEF Persists
<1>7. ASSUME NEW d \in Children, Submits(d) PROVE Persists(c)
  BY <1>1, <1>7 DEF Submits, Persists
<1> QED
  BY <1>2, <1>3, <1>4, <1>5, <1>6, <1>7 DEF Effect

\* A step of nobody's call.
LEMMA QuietDrain ==
  ASSUME IInv, IInv', DrainOK, Quiet, UNCHANGED drain PROVE DrainOK'
<1>1. \A c \in Children : Persists(c)
  <2> SUFFICES ASSUME NEW c \in Children PROVE Persists(c)
    OBVIOUS
  <2>1. ~Publishes(c)
    BY DEF Quiet, Calm, Relied, Publishes
  <2> QED
    BY <2>1, EffectPersists DEF IInv, Quiet
<1>2. UNCHANGED caller
  BY DEF Quiet
<1>3. \A c \in Children : activation'[c].disposal = "undo" => activation'[c].resident
  BY DEF IInv, TreeInv, StageOK
<1>4. UndoOK'
  BY <1>1, <1>2, <1>3 DEF DrainOK, UndoOK, Undoing, Persists
<1>5. SealOK'
  BY <1>1 DEF DrainOK, SealOK, Sealed, Rooted, Residents, Persists, Quiet, Calm, Relied
<1>6. BarrierOK' /\ DoneOK'
  BY <1>1, <1>2 DEF DrainOK, BarrierOK, DoneOK, Materializing, Residents, Persists
<1> QED
  BY <1>4, <1>5, <1>6 DEF DrainOK

\* What a caller's step may do to a drain: nothing becomes resident behind it
\* but what the caller itself undoes, and only a caller past the cutoff of
\* the drain can still do that.
Yields(k) ==
  /\ UNCHANGED drain
  /\ Closing /\ caller'[k].at \in {"create", "undo"} =>
       caller[k].at \in {"create", "undo"}
  /\ caller[k].at = "undo" =>
       \/ caller'[k].at = "undo" /\ caller'[k].child = caller[k].child
       \/ ~activation'[caller[k].child].resident
  /\ \A c \in Children : Publishes(c) =>
       /\ caller[k].at = "create"
       /\ activation'[c].disposal = "undo" =>
            caller'[k].at = "undo" /\ caller'[k].child = c
       /\ Closing => activation'[c].disposal = "undo"

\* A step of a call.
LEMMA OwnDrain ==
  ASSUME IInv, IInv', DrainOK, NEW k \in Callers, Own(k), Yields(k) PROVE DrainOK'
<1>1. \A c \in Children : Persists(c) \/ Publishes(c)
  BY EffectPersists DEF IInv, Own
<1>2. /\ UNCHANGED drain /\ \A j \in Callers \ {k} : caller'[j] = caller[j]
  BY DEF Yields, Own, LockStep
<1>3. \A c \in Children : activation'[c].disposal = "undo" => activation'[c].resident
  BY DEF IInv, TreeInv, StageOK
<1>4. UndoOK'
  <2> SUFFICES ASSUME NEW c \in Children, activation'[c].disposal = "undo"
               PROVE  Undoing(c)'
    BY DEF UndoOK
  <2>1. CASE Publishes(c)
    BY <2>1 DEF Yields, Undoing
  <2>2. CASE Persists(c)
    <3>1. PICK j \in Callers : caller[j].at = "undo" /\ caller[j].child = c
      BY <1>3, <2>2 DEF Persists, DrainOK, UndoOK, Undoing
    <3>2. caller'[j].at = "undo" /\ caller'[j].child = c
      BY <1>2, <1>3, <3>1 DEF Yields
    <3> QED
      BY <3>2 DEF Undoing
  <2> QED
    BY <1>1, <2>1, <2>2
<1>5. BarrierOK'
  <2>1. drain.at \in {"release", "done"} => Closing
    BY DEF Closing
  <2>2. drain.at \in {"release", "done"} =>
          \A j \in Callers : caller'[j].at \notin {"create", "undo"}
    BY <1>2, <2>1 DEF DrainOK, BarrierOK, Materializing, Yields
  <2> QED
    BY <1>2, <2>2 DEF BarrierOK, Materializing
<1>6. drain.at \in {"release", "done"} => \A c \in Children : Persists(c)
  BY <1>1 DEF DrainOK, BarrierOK, Materializing, Yields
<1>7. DoneOK'
  BY <1>2, <1>6 DEF DrainOK, DoneOK, Residents, Persists
<1>8. SealOK'
  <2> SUFFICES ASSUME Sealed', NEW c \in Children, activation'[c].resident
               PROVE  activation'[c].disposal = "undo" \/ Rooted(c)'
    BY DEF SealOK, Residents
  <2>1. Sealed /\ Closing
    BY <1>2 DEF Sealed, Closing
  <2>2. CASE Publishes(c)
    BY <2>1, <2>2 DEF Yields
  <2>3. CASE Persists(c)
    <3>1. activation[c].disposal = "undo" \/ Rooted(c)
      BY <2>1, <2>3 DEF DrainOK, SealOK, Persists, Residents
    <3>2. CASE Rooted(c)
      BY <1>2, <2>3, <3>2 DEF Rooted, Persists
    <3>3. CASE activation[c].disposal = "undo"
      <4>1. PICK j \in Callers : caller[j].at = "undo" /\ caller[j].child = c
        BY <3>3 DEF DrainOK, UndoOK, Undoing
      <4>2. caller'[j].at = "undo" /\ caller'[j].child = c
        BY <1>2, <4>1 DEF Yields
      <4>3. activation'[c].disposal = "undo"
        BY <4>2 DEF IInv, LockOK, CallerOK
      <4> QED
        BY <4>3
    <3> QED
      BY <3>1, <3>2, <3>3
  <2> QED
    BY <1>1, <2>2, <2>3
<1> QED
  BY <1>4, <1>5, <1>7, <1>8 DEF DrainOK

\* Every step of a call yields to the drain.
LEMMA CallerYields ==
  ASSUME TypeOK, LockOK, TreeInv, NEW k \in Callers,
         \/ CallerStep(k) \/ Abort(k)
         \/ \E c \in Children : startContinuable(k, c) \/ Followup(k, c)
  PROVE  Yields(k)
<1>1. caller[k] \in Requests /\ caller \in [Callers -> Requests]
  BY DEF TypeOK, Requests
<1>2. Outside.at = "outside"
  BY DEF Outside
<1>3. ASSUME NEW place, At(k, place)
      PROVE  caller'[k].at = place /\ caller'[k].child = caller[k].child
  BY <1>1, <1>3 DEF At, Requests
<1>4. ASSUME Returns(k) PROVE caller'[k].at = "outside"
  BY <1>1, <1>2, <1>4 DEF Returns
<1>5. ASSUME UNCHANGED activation, NEW c \in Children PROVE ~Publishes(c)
  BY <1>5 DEF Publishes
<1>6. ASSUME NEW c \in Children, NEW op, NEW place,
             caller' = [caller EXCEPT ![k] = Request(c, op, place)]
      PROVE  caller'[k].at = place
  BY <1>1, <1>6 DEF Request
<1>7. CASE \E c \in Children : startContinuable(k, c) \/ Followup(k, c)
  <2>1. /\ UNCHANGED <<drain, activation>> /\ caller[k].at = "outside"
        /\ caller'[k].at \in {"prepare", "queued"}
    BY <1>6, <1>7 DEF startContinuable, Followup
  <2> QED
    BY <1>5, <2>1 DEF Yields
<1>8. CASE Abort(k)
  <2>1. /\ UNCHANGED <<drain, activation>> /\ caller'[k].at = caller[k].at
        /\ caller'[k].child = caller[k].child
    BY <1>1, <1>8 DEF Abort, Requests
  <2> QED
    BY <1>5, <2>1 DEF Yields
<1>9. CASE Prepared(k)
  <2>1. /\ UNCHANGED <<drain, activation>> /\ caller[k].at = "prepare"
        /\ caller'[k].at \in {"queued", "outside"}
    BY <1>3, <1>4, <1>9 DEF Prepared
  <2> QED
    BY <1>5, <2>1 DEF Yields
<1>10. CASE Waited(k)
  <2>1. /\ UNCHANGED <<drain, activation>> /\ caller[k].at = "wait"
        /\ caller'[k].at \in {"queued", "outside"}
    BY <1>3, <1>4, <1>10 DEF Waited
  <2> QED
    BY <1>5, <2>1 DEF Yields
<1>11. CASE Inspected(k)
  <2>1. /\ UNCHANGED <<drain, activation>> /\ caller[k].at = "inspect"
        /\ caller'[k].at = "outside" \/ (caller'[k].at = "create" /\ ~Closing)
    BY <1>3, <1>4, <1>11 DEF Inspected
  <2> QED
    BY <1>5, <2>1 DEF Yields
<1>12. CASE RolledBack(k)
  <2>1. /\ UNCHANGED <<drain, activation>> /\ caller[k].at = "rollback"
        /\ caller'[k].at = "outside"
    BY <1>4, <1>12 DEF RolledBack
  <2> QED
    BY <1>5, <2>1 DEF Yields
<1>13. ASSUME NEW c \in Children, c = caller[k].child, Own(k), activation[c].resident,
              NEW d \in Children
       PROVE  ~Publishes(d)
  <2>1. d # c => Relied(d)
    BY <1>13 DEF Own, LockStep
  <2> QED
    BY <1>13, <2>1 DEF Relied, Publishes
<1>14. CASE Locked(k)
  <2>1. /\ UNCHANGED drain /\ caller[k].at = "queued"
        /\ caller'[k].at \in {"outside", "inspect", "wait"}
             \/ (caller'[k].at = "create" /\ ~Closing)
        /\ \/ UNCHANGED activation
           \/ activation[caller[k].child].resident
    BY <1>3, <1>4, <1>14 DEF Locked
  <2>2. Own(k) /\ caller[k].child \in Children
    BY <1>14, <2>1, LockedOwn, Place
  <2> QED
    BY <1>5, <1>13, <2>1, <2>2 DEF Yields
<1>15. CASE submitMaterialized(k)
  <2>1. /\ UNCHANGED drain /\ caller[k].at = "submit"
        /\ caller'[k].at \in {"outside", "rollback"}
        /\ Admits(k) \/ dispose({caller[k].child})
    BY <1>3, <1>4, <1>15 DEF submitMaterialized
  <2>2. Own(k) /\ caller[k].child \in Children
    BY <1>15, <2>1, SubmitOwn, Place
  <2>3. ASSUME dispose({caller[k].child}), NEW d \in Children PROVE ~Publishes(d)
    <3>1. Calm
      BY <2>2, <2>3, DisposeCalm
    <3> QED
      BY <3>1 DEF Calm, Relied, Publishes
  <2>4. Admits(k) => activation[caller[k].child].resident
    BY DEF Admits
  <2> QED
    BY <1>13, <2>1, <2>2, <2>3, <2>4 DEF Yields
<1>16. CASE Undone(k)
  <2>1. UNCHANGED drain /\ caller'[k].at = "outside"
    BY <1>4, <1>16 DEF Undone
  <2>2. caller[k].child \in Children /\ Removes(caller[k].child)
    BY <1>16, UndoneEffect
  <2>3. ~activation'[caller[k].child].resident
    BY <2>2 DEF Removes, Frame, Absent
  <2>4. ASSUME NEW d \in Children PROVE ~Publishes(d)
    <3>1. d # caller[k].child => Relied(d)
      BY <2>2, OneRelied
    <3> QED
      BY <2>3, <3>1 DEF Relied, Publishes
  <2> QED
    BY <2>1, <2>3, <2>4 DEF Yields
<1>17. CASE Created(k)
  <2> DEFINE c == caller[k].child
  <2>1. UNCHANGED drain /\ caller[k].at = "create"
    BY <1>17 DEF Created
  <2>2. \/ UNCHANGED activation /\ caller'[k].at = "outside"
        \/ caller'[k].at = "submit" /\ ~Closing
        \/ caller'[k].at = "undo" /\ caller'[k].child = c
    BY <1>3, <1>4, <1>17 DEF Created
  <2>3. CASE UNCHANGED activation /\ caller'[k].at = "outside"
    BY <1>5, <2>1, <2>3 DEF Yields
  <2>4. CASE caller'[k].at \in {"submit", "undo"}
    <3>1. /\ c \in Children /\ Publishes(c)
          /\ caller'[k].at = "undo" => activation'[c].disposal = "undo"
      BY <1>17, <2>4, CreatedEffect
    <3>2. caller'[k].at = "submit" => activation'[c].disposal # "undo"
      <4> SUFFICES ASSUME caller'[k].at = "submit" PROVE activation'[c].disposal # "undo"
        OBVIOUS
      <4>1. activation' = acquireOwnership(c, [activation EXCEPT ![c] =
                             [[Absent EXCEPT !.resident = TRUE] EXCEPT !.watch = "race"]])
        BY <1>3, <1>4, <1>17 DEF Created
      <4>2. [[Absent EXCEPT !.resident = TRUE] EXCEPT !.watch = "race"].disposal = "none"
        BY DEF Absent
      <4> DEFINE e == [[Absent EXCEPT !.resident = TRUE] EXCEPT !.watch = "race"]
                 table == [activation EXCEPT ![c] = e]
      <4>3. table[c] = e /\ e.disposal = "none" /\ activation' = acquireOwnership(c, table)
        BY <3>1, <4>1, <4>2 DEF TypeOK
      <4>4. Parent[c] # c /\ table \in [Children -> Activations]
        BY <3>1, NotItself DEF TypeOK, Activations, Absent
      <4> HIDE DEF table, e
      <4>5. activation'[c] = table[c]
        BY <3>1, <4>3, <4>4, AcquireTyped
      <4> QED
        BY <4>3, <4>5
    <3>3. ASSUME NEW d \in Children, d # c PROVE ~Publishes(d)
      <4>1. Relied(d)
        BY <3>1, <3>3, OneRelied
      <4> QED
        BY <4>1 DEF Relied, Publishes
    <3> QED
      BY <2>1, <2>2, <2>4, <3>1, <3>2, <3>3 DEF Yields
  <2> QED
    BY <2>2, <2>3, <2>4
<1> QED
  BY <1>7, <1>8, <1>9, <1>10, <1>11, <1>12, <1>14, <1>15, <1>16, <1>17 DEF CallerStep

\* Every resident child that is no root is owned by its parent.
LEMMA RootsAll ==
  ASSUME TypeOK, TreeInv, NEW c \in Residents
  PROVE  c \in Roots \/ (Managed(c) /\ c \in activation[Parent[c]].owned)
<1> SUFFICES ASSUME c \notin Roots PROVE Managed(c) /\ c \in activation[Parent[c]].owned
  OBVIOUS
<1>1. PICK d \in Residents : c \in activation[d].owned
  BY DEF Roots
<1>2. d \in Children /\ Parent[c] = d
  BY <1>1 DEF Residents, TreeInv, OwnerOK
<1> QED
  BY <1>1, <1>2 DEF Managed

\* Where all resident children but the roots are owned and no root is left,
\* none is: a set of children has one whose parent is outside it.
LEMMA NoneLeft ==
  ASSUME TypeOK, TreeInv, drain.roots \cap Residents = {},
         \A c \in Residents : Rooted(c)
  PROVE  Residents = {}
<1> SUFFICES ASSUME Residents # {} PROVE FALSE
  OBVIOUS
<1>1. Residents \in (SUBSET Children) \ {{}}
  BY DEF Residents
<1>2. PICK c \in Residents : Parent[c] \notin Residents
  BY <1>1, TreeAssumption
<1>3. Managed(c) /\ c \in activation[Parent[c]].owned
  BY <1>2 DEF Rooted
<1>4. activation[Parent[c]].resident /\ Parent[c] \in Children
  BY <1>3 DEF Managed, TreeInv, OwnerOK
<1> QED
  BY <1>2, <1>4 DEF Residents

\* The steps of a drain.
LEMMA DrainKeeps ==
  ASSUME IInv, IInv', DrainOK,
         (\E kind \in {"manager", "scope"} : Drain(kind)) \/ Barrier \/ Drained
  PROVE  DrainOK'
<1>0. TypeOK /\ TreeInv /\ drain \in [at : {"none", "barrier", "release", "done"},
                                      kind : {"none", "manager", "scope"},
                                      roots : SUBSET Children]
  BY DEF IInv, TypeOK
<1>1. UNCHANGED caller
  BY DEF Drain, Barrier, Drained
<1>2. Quiet
  BY <1>0, DrainQuiet
<1>3. \A c \in Children : Persists(c)
  <2> SUFFICES ASSUME NEW c \in Children PROVE Persists(c)
    OBVIOUS
  <2>1. ~Publishes(c)
    BY <1>2 DEF Quiet, Calm, Relied, Publishes
  <2> QED
    BY <1>0, <1>2, <2>1, EffectPersists DEF Quiet
<1>4. UndoOK'
  <2>1. \A c \in Children : activation'[c].disposal = "undo" => activation'[c].resident
    BY DEF IInv, TreeInv, StageOK
  <2> QED
    BY <1>1, <1>3, <2>1 DEF DrainOK, UndoOK, Undoing, Persists
<1>5. ASSUME drain'.roots = Roots PROVE \A c \in Residents' : Rooted(c)'
  <2> SUFFICES ASSUME NEW c \in Children, activation'[c].resident PROVE Rooted(c)'
    BY DEF Residents
  <2>1. c \in Residents
    BY <1>3 DEF Persists, Residents
  <2>2. c \in Roots \/ (Managed(c) /\ c \in activation[Parent[c]].owned)
    BY <1>0, <2>1, RootsAll
  <2> QED
    BY <1>3, <1>5, <2>2 DEF Rooted, Persists
<1>6. CASE \E kind \in {"manager", "scope"} : Drain(kind)
  <2>1. /\ drain'.at = "barrier"
        /\ drain'.kind = "scope" => drain'.roots = Roots
    BY <1>6 DEF Drain
  <2> QED
    BY <1>4, <1>5, <2>1 DEF DrainOK, SealOK, Sealed, BarrierOK, DoneOK
<1>7. CASE Barrier
  <2>1. /\ drain.at = "barrier" /\ drain'.at = "release" /\ Materializing = {}
        /\ \/ drain'.roots = Roots
           \/ drain.kind = "scope" /\ drain'.roots = drain.roots
    BY <1>0, <1>7 DEF Barrier
  <2>2. Materializing' = {}
    BY <1>1, <2>1 DEF Materializing
  <2>3. \A c \in Children : activation[c].disposal # "undo"
    BY <2>1 DEF DrainOK, UndoOK, Undoing, Materializing
  <2>4. CASE drain'.roots = Roots
    BY <1>4, <1>5, <2>1, <2>2, <2>4 DEF DrainOK, SealOK, BarrierOK, DoneOK
  <2>5. CASE drain.kind = "scope" /\ drain'.roots = drain.roots
    <3>1. \A c \in Residents : Rooted(c)
      BY <2>1, <2>3, <2>5 DEF DrainOK, SealOK, Sealed, Residents
    <3>2. \A c \in Residents' : Rooted(c)'
      BY <1>3, <2>5, <3>1 DEF Rooted, Persists, Residents
    <3> QED
      BY <1>4, <2>1, <2>2, <3>2 DEF DrainOK, SealOK, BarrierOK, DoneOK
  <2> QED
    BY <2>1, <2>4, <2>5
<1>8. CASE Drained
  <2>1. /\ drain.at = "release" /\ drain'.at = "done" /\ drain'.roots = drain.roots
        /\ drain.roots \cap Residents = {} /\ Materializing = {} /\ UNCHANGED activation
    BY <1>0, <1>8 DEF Drained, DrainOK, BarrierOK
  <2>2. \A c \in Children : activation[c].disposal # "undo"
    BY <2>1 DEF DrainOK, UndoOK, Undoing, Materializing
  <2>3. \A c \in Residents : Rooted(c)
    BY <2>1, <2>2 DEF DrainOK, SealOK, Sealed, Residents
  <2>4. Residents = {}
    BY <1>0, <2>1, <2>3, NoneLeft
  <2>5. Residents' = {} /\ Materializing' = {}
    BY <1>1, <2>1, <2>4 DEF Residents, Materializing
  <2> QED
    BY <1>4, <2>5 DEF DrainOK, SealOK, BarrierOK, DoneOK
<1> QED
  BY <1>6, <1>7, <1>8

\* Every step keeps what the drain relies on.
LEMMA NextDrain == IInv /\ IInv' /\ DrainOK /\ [Next]_vars => DrainOK'
<1> SUFFICES ASSUME IInv, IInv', DrainOK, [Next]_vars PROVE DrainOK'
  OBVIOUS
<1>0. TypeOK /\ LockOK /\ TreeInv
  BY DEF IInv
<1>1. ASSUME NEW k \in Callers, CallerStep(k) PROVE DrainOK'
  BY <1>0, <1>1, CallerOwn, CallerYields, OwnDrain
<1>2. ASSUME NEW c \in Children, ChildStep(c) PROVE DrainOK'
  <2>1. UNCHANGED drain
    BY <1>2 DEF ChildStep, Quiesce, Release, Settle, OpenTurn, ClaimSteps, Claims,
         EndTurn, Converge, Moves, Race, Decide, Decided, Awaited, Loops
  <2> QED
    BY <1>0, <1>2, <2>1, ChildQuiet, QuietDrain
<1>3. ASSUME NEW k \in Callers, NEW c \in Children, startContinuable(k, c) \/ Followup(k, c)
      PROVE  DrainOK'
  <2>1. Own(k) /\ Yields(k)
    BY <1>0, <1>3, InputOwn, CallerYields
  <2> QED
    BY <2>1, OwnDrain
<1>4. ASSUME NEW k \in Callers, Abort(k) PROVE DrainOK'
  <2>1. caller[k].child \in Children
    BY <1>0, <1>4, Place DEF Abort
  <2>2. Own(k) /\ Yields(k)
    BY <1>0, <1>4, <2>1, InputOwn, CallerYields
  <2> QED
    BY <2>2, OwnDrain
<1>5. ASSUME NEW c \in Children, FailTurn(c) \/ runMaintenance(c) \/ interrupt(c)
      PROVE  DrainOK'
  <2>1. UNCHANGED drain
    BY <1>5 DEF FailTurn, runMaintenance, interrupt, Moves
  <2> QED
    BY <1>0, <1>5, <2>1, AgentQuiet, QuietDrain
<1>6. ASSUME NEW c \in Children, NEW delivery, reportFrom(c, delivery) PROVE DrainOK'
  <2>1. UNCHANGED drain
    BY <1>6 DEF reportFrom
  <2> QED
    BY <1>0, <1>6, <2>1, ReportQuiet, QuietDrain
<1>7. CASE UNCHANGED vars
  <2>1. UNCHANGED <<agent, activation, lock, caller, drain, sent, used>>
    BY <1>7 DEF vars
  <2> QED
    BY <2>1 DEF DrainOK, UndoOK, Undoing, SealOK, Sealed, Rooted, BarrierOK, DoneOK,
         Residents, Materializing
<1> QED
  BY <1>1, <1>2, <1>3, <1>4, <1>5, <1>6, <1>7, DrainKeeps DEF Next, Progress, Input

\* A drain that has returned (drain, drainDescendants) has left no Activation,
\* no registered Agent and no call that could still make one, for every tree,
\* whatever was being created, submitted, undone or settled when it began.
THEOREM DrainCorrect == Spec => []DrainReleasesAll
<1>1. Init => DrainOK
  BY DEF Init, DrainOK, UndoOK, SealOK, Sealed, BarrierOK, DoneOK, Absent
<1>2. IInv /\ DrainOK => DrainReleasesAll
  BY DEF IInv, TreeInv, LiveOK, DrainOK, BarrierOK, DoneOK, DrainReleasesAll, Residents
<1> QED
  BY <1>1, <1>2, InitInv, NextInv, NextDrain, PTL DEF Spec
-----------------------------------------------------------------------------
(***************************************************************************)
(* Settling loses nothing.  What an open Activation's Agent has not claimed *)
(* is accounted for, or was reported by a child it still owns, whose notice *)
(* will be accounted for.                                                  *)
(***************************************************************************)
Open(c)  == activation[c].resident /\ activation[c].disposal = "none"
Resting  == {"idle", "maintenance"}
AtRest(c) == agent[c].phase \in Resting /\ Inbox(agent[c]) = {}

\* A child without its first message is at rest, and its caller about to submit.
MakerOK == \A c \in Children :
  Open(c) /\ ~activation[c].announced => AtRest(c) /\ Submitting(c)

\* Only a child that was announced itself has announced children.
KnownOK == \A c \in Children :
  /\ activation[c].announced /\ Managed(c) => activation[Parent[c]].announced
  /\ activation[c].disposal = "undo" => ~activation[c].announced

\* A caller that holds the current Agent of an open parent was sent by one
\* that was announced.
AskedOK == \A k \in Callers :
  caller[k].at # "outside" /\ Managed(caller[k].child) =>
    LET p == Parent[caller[k].child]
    IN  /\ caller[k].epoch <= agent[p].epoch
        /\ caller[k].epoch = agent[p].epoch /\ Open(p) => activation[p].announced

\* An inbox holds messages that were sent, each in one place.
BoxOK == \A c \in Children :
  Open(c) => /\ \A id \in Inbox(agent[c]) : id <= sent
             /\ agent[c].turns \cap agent[c].steps = {}

HeldOK == \A c \in Children :
  Open(c) /\ ~Closing =>
    /\ agent[c].turns \subseteq activation[c].accepted
    /\ agent[c].steps # {} =>
         \/ activation[c].accepted # {}
         \/ \E d \in activation[c].owned : activation[d].announced

LossOK == MakerOK /\ KnownOK /\ AskedOK /\ BoxOK /\ HeldOK

\* What a step does to the messages of an open Activation: it leaves them,
\* claims some, adds one to the account, or adds a quiet report of an owned
\* child; or the Activation is new.
Leaves(c) ==
  /\ agent'[c].turns = agent[c].turns /\ agent'[c].steps = agent[c].steps
  /\ activation'[c].accepted = activation[c].accepted
  /\ AtRest(c) => agent'[c].phase \in Resting

Takes(c) ==
  /\ agent[c].phase = "running" /\ agent'[c].steps = {}
  /\ \E ids : /\ agent'[c].turns = agent[c].turns \ ids
              /\ activation'[c].accepted =
                   activation[c].accepted \ (ids \cup agent[c].steps)

Hears(c) ==
  /\ activation'[c].announced /\ sent' = sent + 1
  /\ activation'[c].accepted = activation[c].accepted \cup {sent + 1}
  /\ \/ /\ agent'[c].turns = agent[c].turns \cup {sent + 1}
        /\ agent'[c].steps = agent[c].steps
     \/ /\ agent'[c].turns = agent[c].turns
        /\ agent'[c].steps = agent[c].steps \cup {sent + 1}

Overhears(c) ==
  /\ activation[c].announced /\ sent' = sent + 1
  /\ activation'[c].accepted = activation[c].accepted
  /\ agent'[c].turns = agent[c].turns
  /\ agent'[c].steps = agent[c].steps \cup {sent + 1}
  /\ Closing \/ \E d \in activation[c].owned : activation[d].announced

Born(c) ==
  /\ ~activation[c].resident /\ agent'[c].epoch = agent[c].epoch + 1
  /\ agent'[c].phase = "idle" /\ Inbox(agent'[c]) = {} /\ Submitting(c)'

Mailed(c) ==
  Open(c)' => \/ Born(c)
              \/ Open(c) /\ (Leaves(c) \/ Takes(c) \/ Hears(c) \/ Overhears(c))

\* An announced child leaves its owner's set only with a notice on the account.
Noticed(c) ==
  Open(c) /\ Open(c)' =>
    \A d \in activation[c].owned :
      activation[d].announced =>
        d \in activation'[c].owned \/ activation'[c].accepted # {} \/ Closing

\* Who is announced stays so, and becomes so under a parent that is.
Announced(c) ==
  /\ activation[c].announced /\ activation'[c].resident => activation'[c].announced
  /\ activation'[c].announced /\ ~activation[c].announced /\ Managed(c) =>
       activation[Parent[c]].announced
  /\ activation'[c].disposal = "undo" /\ activation'[c].announced =>
       activation[c].disposal = "undo" /\ activation[c].announced

Aged(c) == \/ agent'[c].epoch = agent[c].epoch
           \/ ~activation[c].resident /\ agent'[c].epoch = agent[c].epoch + 1

Post(c) == Mailed(c) /\ Noticed(c) /\ Announced(c) /\ Aged(c)

\* What a step does to a caller: it returns, goes on with what it asked for, or
\* asks now.
Asks(k) ==
  /\ UNCHANGED <<agent, activation>>
  /\ LET c == caller'[k].child
     IN  Managed(c) =>
           /\ caller'[k].epoch = agent[Parent[c]].epoch
           /\ agent[Parent[c]].live /\ ~Submitting(Parent[c])
Turned(k) ==
  \/ caller'[k].at = "outside"
  \/ /\ caller[k].at # "outside" /\ caller'[k].child = caller[k].child
     /\ caller'[k].epoch = caller[k].epoch
  \/ Asks(k)

\* The caller about to submit to an open Activation goes on to do so.
Awaits(c) ==
  Submitting(c) /\ Open(c)' /\ ~activation'[c].announced => Submitting(c)'

Counted == sent' \in {sent, sent + 1} /\ (Closing => Closing')

\* Steps that move every child and every caller so keep the invariant.
LEMMA PostKeeps ==
  ASSUME TypeOK, TypeOK', TreeInv, TreeInv', LossOK, Counted,
         \A c \in Children : Post(c) /\ Awaits(c),
         \A k \in Callers : Turned(k)
  PROVE  LossOK'
<1>1. /\ \A c \in Children : Managed(c) => Parent[c] \in Children
      /\ sent \in Nat /\ sent' \in Nat
      /\ \A c \in Children : agent[c] \in Agents /\ agent'[c] \in Agents
      /\ \A c \in Children : activation'[c] \in Activations
  BY DEF Managed, TypeOK
<1>2. \A c \in Children : agent[c].epoch \in Nat /\ agent'[c].epoch \in Nat
                          /\ agent[c].turns \subseteq Nat
                          /\ agent[c].steps \subseteq Nat
  BY <1>1 DEF Agents
<1>3. MakerOK'
  <2> SUFFICES ASSUME NEW c \in Children, Open(c)', ~activation'[c].announced
               PROVE  AtRest(c)' /\ Submitting(c)'
    BY DEF MakerOK
  <2>1. Mailed(c) /\ Announced(c) /\ Awaits(c)
    BY DEF Post
  <2>2. CASE Born(c)
    BY <2>2 DEF Born, AtRest, Resting
  <2>3. CASE Open(c) /\ (Leaves(c) \/ Takes(c) \/ Hears(c) \/ Overhears(c))
    <3>1. ~activation[c].announced
      BY <2>1 DEF Announced, Open
    <3>2. AtRest(c) /\ Submitting(c)
      BY <2>3, <3>1 DEF LossOK, MakerOK
    <3>3. Leaves(c)
      BY <2>3, <3>1, <3>2 DEF AtRest, Resting, Takes, Hears, Overhears
    <3> QED
      BY <2>1, <3>2, <3>3 DEF Leaves, AtRest, Inbox, Awaits
  <2> QED
    BY <2>1, <2>2, <2>3 DEF Mailed
<1>4. KnownOK'
  <2> SUFFICES ASSUME NEW c \in Children
               PROVE  /\ activation'[c].announced /\ Managed(c) =>
                           activation'[Parent[c]].announced
                      /\ activation'[c].disposal = "undo" => ~activation'[c].announced
    BY DEF KnownOK, Managed
  <2>1. Announced(c)
    BY DEF Post
  <2>2. ASSUME activation'[c].announced, Managed(c)
        PROVE  activation'[Parent[c]].announced
    <3>1. Parent[c] \in Children /\ activation'[Parent[c]].resident
      BY <1>1, <2>2 DEF TreeInv, OwnerOK, Managed
    <3>2. activation[Parent[c]].announced
      BY <2>1, <2>2 DEF Announced, LossOK, KnownOK
    <3>3. Announced(Parent[c])
      BY <3>1 DEF Post
    <3> QED
      BY <3>1, <3>2, <3>3 DEF Announced
  <2> QED
    BY <2>1, <2>2 DEF Announced, LossOK, KnownOK
<1>5. AskedOK'
  <2> SUFFICES ASSUME NEW k \in Callers, caller'[k].at # "outside",
                      NEW p \in Children, p = Parent[caller'[k].child]
               PROVE  /\ caller'[k].epoch <= agent'[p].epoch
                      /\ caller'[k].epoch = agent'[p].epoch /\ Open(p)' =>
                           activation'[p].announced
    BY DEF AskedOK, Managed, Open
  <2>1. Managed(caller'[k].child)
    BY DEF Managed
  <2> DEFINE c == caller'[k].child
  <2>2. Mailed(p) /\ Announced(p) /\ Aged(p)
    BY <2>1 DEF Post
  <2>3. caller'[k].epoch \in Nat
    BY DEF TypeOK
  <2>4. CASE /\ caller[k].at # "outside" /\ c = caller[k].child
             /\ caller'[k].epoch = caller[k].epoch
    <3>1. /\ caller'[k].epoch <= agent[p].epoch
          /\ caller'[k].epoch = agent[p].epoch /\ Open(p) => activation[p].announced
      BY <2>1, <2>4 DEF LossOK, AskedOK
    <3>2. caller'[k].epoch <= agent'[p].epoch
      BY <1>2, <2>1, <2>2, <2>3, <3>1 DEF Aged
    <3>3. ASSUME caller'[k].epoch = agent'[p].epoch, Open(p)'
          PROVE  activation'[p].announced
      <4>1. agent'[p].epoch # agent[p].epoch + 1
        BY <1>2, <2>1, <2>3, <3>1, <3>3
      <4>2. Open(p) /\ agent'[p].epoch = agent[p].epoch
        BY <2>2, <3>3, <4>1 DEF Mailed, Born, Aged
      <4> QED
        BY <2>2, <3>1, <3>3, <4>2 DEF Announced, Open
    <3> QED
      BY <3>2, <3>3
  <2>5. CASE Asks(k)
    <3>1. /\ UNCHANGED <<agent, activation>> /\ caller'[k].epoch = agent[p].epoch
          /\ ~Submitting(p)
      BY <2>1, <2>5 DEF Asks
    <3>2. Open(p) => activation[p].announced
      BY <2>1, <3>1 DEF LossOK, MakerOK
    <3> QED
      BY <1>2, <2>1, <3>1, <3>2 DEF Open
  <2>6. Turned(k)
    OBVIOUS
  <2> QED
    BY <2>4, <2>5, <2>6 DEF Turned
<1>6. BoxOK'
  <2> SUFFICES ASSUME NEW c \in Children, Open(c)'
               PROVE  /\ \A id \in Inbox(agent'[c]) : id <= sent'
                      /\ agent'[c].turns \cap agent'[c].steps = {}
    BY DEF BoxOK
  <2>1. Mailed(c) /\ sent' \in {sent, sent + 1}
    BY DEF Post, Counted
  <2>2. CASE Born(c)
    BY <2>2 DEF Born, Inbox
  <2>3. CASE Open(c) /\ (Leaves(c) \/ Takes(c) \/ Hears(c) \/ Overhears(c))
    <3>1. /\ \A id \in agent[c].turns \cup agent[c].steps : id \in Nat /\ id <= sent
          /\ agent[c].turns \cap agent[c].steps = {}
      BY <1>2, <2>3 DEF LossOK, BoxOK, Inbox
    <3>2. /\ \A id \in agent[c].turns \cup agent[c].steps :
               id <= sent' /\ id # sent + 1
          /\ sent + 1 \notin agent[c].turns \cup agent[c].steps
      BY <1>1, <2>1, <3>1
    <3>3. CASE Leaves(c)
      BY <3>1, <3>2, <3>3 DEF Leaves, Inbox
    <3>4. CASE Takes(c)
      BY <3>1, <3>2, <3>4 DEF Takes, Inbox
    <3>5. CASE Hears(c) \/ Overhears(c)
      <4>1. /\ sent' = sent + 1
            /\ \/ /\ agent'[c].turns = agent[c].turns \cup {sent + 1}
                  /\ agent'[c].steps = agent[c].steps
               \/ /\ agent'[c].turns = agent[c].turns
                  /\ agent'[c].steps = agent[c].steps \cup {sent + 1}
        BY <3>5 DEF Hears, Overhears
      <4>2. sent + 1 <= sent'
        BY <1>1, <4>1
      <4> QED
        BY <3>1, <3>2, <4>1, <4>2 DEF Inbox
    <3> QED
      BY <2>3, <3>3, <3>4, <3>5
  <2> QED
    BY <2>1, <2>2, <2>3 DEF Mailed
<1>7. HeldOK'
  <2> SUFFICES ASSUME NEW c \in Children, Open(c)', ~Closing'
               PROVE  /\ agent'[c].turns \subseteq activation'[c].accepted
                      /\ agent'[c].steps # {} =>
                           \/ activation'[c].accepted # {}
                           \/ \E d \in activation'[c].owned : activation'[d].announced
    BY DEF HeldOK
  <2>1. Mailed(c) /\ Noticed(c) /\ ~Closing
    BY DEF Post, Counted
  <2>2. CASE Born(c)
    BY <2>2 DEF Born, Inbox
  <2>3. CASE Open(c) /\ (Leaves(c) \/ Takes(c) \/ Hears(c) \/ Overhears(c))
    <3>1. /\ agent[c].turns \subseteq activation[c].accepted
          /\ agent[c].steps # {} =>
               \/ activation[c].accepted # {}
               \/ \E d \in activation[c].owned : activation[d].announced
      BY <2>1, <2>3 DEF LossOK, HeldOK
    <3>2. ASSUME NEW d \in activation[c].owned, activation[d].announced
          PROVE  \/ activation'[c].accepted # {}
                 \/ \E e \in activation'[c].owned : activation'[e].announced
      <4>1. d \in activation'[c].owned \/ activation'[c].accepted # {}
        BY <2>1, <2>3, <3>2 DEF Noticed
      <4>2. CASE d \in activation'[c].owned
        <5>1. d \in Children /\ activation'[d].resident
          BY <1>1, <4>2 DEF Activations, TreeInv, OwnerOK
        <5>2. Announced(d)
          BY <5>1 DEF Post
        <5> QED
          BY <3>2, <4>2, <5>1, <5>2 DEF Announced
      <4> QED
        BY <4>1, <4>2
    <3>3. CASE Leaves(c)
      BY <3>1, <3>2, <3>3 DEF Leaves
    <3>4. CASE Takes(c)
      <4>1. agent[c].turns \cap agent[c].steps = {}
        BY <2>3 DEF LossOK, BoxOK
      <4> QED
        BY <3>1, <3>4, <4>1 DEF Takes
    <3>5. CASE Hears(c)
      BY <3>1, <3>5 DEF Hears
    <3>6. CASE Overhears(c)
      <4>1. PICK d \in activation[c].owned : activation[d].announced
        BY <2>1, <3>6 DEF Overhears
      <4> QED
        BY <3>1, <3>2, <3>6, <4>1 DEF Overhears
    <3> QED
      BY <2>3, <3>3, <3>4, <3>5, <3>6
  <2> QED
    BY <2>1, <2>2, <2>3 DEF Mailed
<1> QED
  BY <1>3, <1>4, <1>5, <1>6, <1>7 DEF LossOK
-----------------------------------------------------------------------------
\* A child that a step leaves as it was, but for what its watcher notes.
LEMMA RestPost ==
  ASSUME NEW c \in Children, agent'[c] = agent[c],
         Frame(activation'[c], activation[c]),
         activation'[c].accepted = activation[c].accepted
  PROVE  Post(c)
<1>1. Mailed(c)
  BY DEF Mailed, Leaves, Frame, Open, AtRest
<1> QED
  BY <1>1 DEF Post, Noticed, Announced, Aged, Frame

\* Leaving both tables alone rests every child.
LEMMA StillPost ==
  ASSUME TypeOK, UNCHANGED <<agent, activation>>, NEW c \in Children
  PROVE  Post(c)
BY RestPost DEF Frame, TypeOK

\* A child that is not open after the step has nothing to lose.
LEMMA ClosedPost ==
  ASSUME NEW c \in Children, ~Open(c)', agent'[c].epoch = agent[c].epoch,
         \/ ~activation'[c].announced /\ ~activation'[c].resident
         \/ /\ activation'[c].announced = activation[c].announced
            /\ activation'[c].disposal = "undo" => activation[c].disposal = "undo"
  PROVE  Post(c)
BY DEF Post, Mailed, Noticed, Announced, Aged

\* A step of an Agent that leaves its inbox.
LEMMA AgentPost ==
  ASSUME TypeOK, NEW c \in Children, NEW b, Like(b, agent[c]),
         b.turns = agent[c].turns, b.steps = agent[c].steps,
         AtRest(c) => b.phase \in Resting,
         Moves(c, b), NEW d \in Children
  PROVE  Post(d)
<1>1. /\ agent'[c] = b /\ activation' = activation
      /\ \A e \in Children \ {c} : agent'[e] = agent[e]
  BY DEF Moves, TypeOK
<1>2. activation[d] \in Activations
  BY DEF TypeOK
<1>3. CASE d = c
  <2>1. Leaves(c)
    BY <1>1 DEF Leaves
  <2>2. Mailed(c)
    BY <1>1, <2>1 DEF Mailed, Open
  <2> QED
    BY <1>1, <1>3, <2>2 DEF Post, Noticed, Announced, Aged, Like
<1>4. CASE d # c
  BY <1>1, <1>2, <1>4, RestPost DEF Frame
<1> QED
  BY <1>3, <1>4

\* A claim.
LEMMA ClaimPost ==
  ASSUME TypeOK, NEW c \in Children, NEW ids, NEW b, Like(b, agent[c]),
         agent[c].phase = "running",
         b.turns = agent[c].turns \ ids, b.steps = {},
         Claims(c, ids \cup agent[c].steps, b), NEW d \in Children
  PROVE  Post(d)
<1> DEFINE e == Accounted(ids \cup agent[c].steps, activation[c])
<1>1. /\ agent'[c] = b /\ activation'[c] = e
      /\ \A f \in Children \ {c} : agent'[f] = agent[f] /\ activation'[f] = activation[f]
  BY DEF Claims, TypeOK
<1>2. activation[d] \in Activations /\ activation[c] \in Activations
  BY DEF TypeOK
<1>3. Frame(e, activation[c])
  BY <1>2, AccountedFrame
<1>4. e.accepted = activation[c].accepted \ (ids \cup agent[c].steps)
  BY <1>2 DEF Accounted, Activations
<1> HIDE DEF e
<1>5. CASE d = c
  <2>1. Takes(c)
    BY <1>1, <1>4 DEF Takes
  <2>2. Mailed(c)
    BY <1>1, <1>3, <2>1 DEF Mailed, Open, Frame
  <2> QED
    BY <1>1, <1>3, <1>5, <2>2 DEF Post, Noticed, Announced, Aged, Like, Frame
<1>6. CASE d # c
  BY <1>1, <1>2, <1>6, RestPost DEF Frame
<1> QED
  BY <1>5, <1>6

\* Opening transactions closes some children and rests the others.
LEMMA DisposePost ==
  ASSUME TypeOK, NEW roots \in SUBSET Children, dispose(roots), NEW c \in Children
  PROVE  Post(c)
<1>1. activation[c] \in Activations /\ agent[c] \in Agents
  BY DEF TypeOK
<1>2. CASE c \in Opened(roots)
  <2> DEFINE e == Accounted(Inbox(agent[c]), activation[c])
  <2>1. e \in Activations /\ e.announced = activation[c].announced
    BY <1>1, AccountedFrame DEF Frame
  <2>2. activation'[c] = [e EXCEPT !.disposal = "quiesce",
                            !.waits = activation[c].owned, !.poked = TRUE]
    BY <1>2 DEF dispose
  <2> HIDE DEF e
  <2>3. /\ activation'[c].announced = activation[c].announced
        /\ activation'[c].disposal = "quiesce"
    BY <2>1, <2>2 DEF Activations
  <2>4. agent'[c].epoch = agent[c].epoch
    BY <1>1, CancelLike DEF dispose, Like
  <2> QED
    BY <2>3, <2>4, ClosedPost DEF Open
<1>3. CASE c \notin Opened(roots)
  BY <1>1, <1>3, RestPost DEF dispose, Frame
<1> QED
  BY <1>2, <1>3

\* The steps of an Agent.
LEMMA AgentStepPost ==
  ASSUME TypeOK, NEW c \in Children, NEW d \in Children,
         \/ OpenTurn(c) \/ ClaimSteps(c) \/ EndTurn(c) \/ Converge(c)
         \/ FailTurn(c) \/ runMaintenance(c) \/ interrupt(c)
  PROVE  Post(d)
<1> DEFINE a == agent[c]
<1>1. a \in Agents
  BY DEF TypeOK
<1>2. CASE OpenTurn(c)
  <2> DEFINE first == IF a.turns = {} THEN {} ELSE {Min(a.turns)}
             b == [a EXCEPT !.opens = FALSE, !.steps = {}, !.turns = @ \ first]
  <2>1. Claims(c, first \cup a.steps, b) /\ a.phase = "running"
    BY <1>2 DEF OpenTurn
  <2> HIDE DEF first
  <2>2. Like(b, a) /\ b.turns = a.turns \ first /\ b.steps = {}
    BY <1>1 DEF Like, Agents
  <2> HIDE DEF b
  <2> QED
    BY <2>1, <2>2, ClaimPost
<1>3. CASE ClaimSteps(c)
  <2> DEFINE b == [a EXCEPT !.steps = {}]
  <2>1. Claims(c, {} \cup a.steps, b) /\ a.phase = "running"
    BY <1>3 DEF ClaimSteps
  <2>2. Like(b, a) /\ b.turns = a.turns \ {} /\ b.steps = {}
    BY <1>1 DEF Like, Agents
  <2> HIDE DEF b
  <2> QED
    BY <2>1, <2>2, ClaimPost
<1>4. ASSUME NEW b, Like(b, a), b.turns = a.turns, b.steps = a.steps,
             AtRest(c) => b.phase \in Resting, Moves(c, b)
      PROVE  Post(d)
  BY <1>4, AgentPost
<1>5. CASE EndTurn(c)
  <2> DEFINE b1 == [a EXCEPT !.opens = TRUE]
             b2 == [a EXCEPT !.phase = "leaving"]
  <2>1. a.phase = "running" /\ (Moves(c, b1) \/ Moves(c, b2))
    BY <1>5 DEF EndTurn
  <2>2. /\ Like(b1, a) /\ b1.turns = a.turns /\ b1.steps = a.steps
        /\ Like(b2, a) /\ b2.turns = a.turns /\ b2.steps = a.steps
    BY <1>1 DEF Like, Agents
  <2> HIDE DEF b1, b2
  <2> QED
    BY <1>4, <2>1, <2>2 DEF AtRest, Resting
<1>6. CASE FailTurn(c) \/ runMaintenance(c)
  <2> DEFINE b1 == [a EXCEPT !.phase = "maintenance", !.aborted = FALSE]
             b2 == [a EXCEPT !.phase = "leaving"]
  <2>1. Moves(c, b1) \/ (Moves(c, b2) /\ a.phase = "running")
    BY <1>6 DEF FailTurn, runMaintenance
  <2>2. /\ Like(b1, a) /\ b1.turns = a.turns /\ b1.steps = a.steps
        /\ Like(b2, a) /\ b2.turns = a.turns /\ b2.steps = a.steps
        /\ b1.phase = "maintenance"
    BY <1>1 DEF Like, Agents
  <2> HIDE DEF b1, b2
  <2> QED
    BY <1>4, <2>1, <2>2 DEF AtRest, Resting
<1>7. CASE interrupt(c)
  <2> DEFINE b == cancel(a, TRUE)
  <2>1. Moves(c, b)
    BY <1>7 DEF interrupt
  <2>2. Like(b, a) /\ b.turns = a.turns /\ b.steps = a.steps /\ b.phase = a.phase
    BY <1>1, CancelLike DEF cancel, Agents
  <2> HIDE DEF b
  <2> QED
    BY <1>4, <2>1, <2>2 DEF AtRest
<1>8. CASE Converge(c)
  <2> DEFINE b == Converged(a)
             idle == [a EXCEPT !.phase = "idle", !.aborted = FALSE,
                               !.latched = FALSE, !.opens = FALSE]
  <2>1. Moves(c, b)
    BY <1>8 DEF Converge
  <2>2. /\ idle \in Agents /\ idle.turns = a.turns /\ idle.steps = a.steps
        /\ idle.phase = "idle"
    BY <1>1 DEF Agents
  <2>3. b = IF a.latched /\ Inbox(a) # {} THEN wakeDriver(idle) ELSE idle
    BY DEF Converged
  <2> HIDE DEF idle
  <2>4. wakeDriver(idle).turns = idle.turns /\ wakeDriver(idle).steps = idle.steps
    BY <2>2 DEF wakeDriver, Agents
  <2>5. /\ b.turns = a.turns /\ b.steps = a.steps
        /\ AtRest(c) => b.phase \in Resting
    BY <2>2, <2>3, <2>4 DEF AtRest, Resting
  <2>6. Like(b, a)
    BY <1>1, ConvergedLike
  <2> HIDE DEF b
  <2> QED
    BY <1>4, <2>1, <2>5, <2>6
<1> QED
  BY <1>2, <1>3, <1>5, <1>6, <1>7, <1>8

\* The steps of a watcher and of a disposal under way.
LEMMA WatchPost ==
  ASSUME TypeOK, NEW c \in Children, NEW d \in Children,
         \/ Race(c) \/ Decide(c) \/ Decided(c) \/ Awaited(c)
         \/ Quiesce(c) \/ Release(c)
  PROVE  Post(d)
<1>1. /\ activation[c] \in Activations /\ activation[d] \in Activations
      /\ agent[c] \in Agents
  BY DEF TypeOK
<1>2. ASSUME NEW watch, NEW poked \in BOOLEAN, UNCHANGED agent,
             watch \in {"none", "race", "queued", "decided", "await"},
             activation' \in
               {[activation EXCEPT ![c] = [activation[c] EXCEPT !.watch = watch]],
                [activation EXCEPT ![c] =
                   [activation[c] EXCEPT !.watch = watch, !.poked = poked]]}
      PROVE  Post(d)
  <2> DEFINE e1 == [activation[c] EXCEPT !.watch = watch]
             e2 == [activation[c] EXCEPT !.watch = watch, !.poked = poked]
  <2>1. /\ Frame(e1, activation[c]) /\ Frame(e2, activation[c])
        /\ e1.accepted = activation[c].accepted /\ e2.accepted = activation[c].accepted
    BY <1>1, <1>2, WatchFrame DEF Activations
  <2>2. /\ activation'[c] \in {e1, e2}
        /\ \A f \in Children \ {c} : activation'[f] = activation[f]
    BY <1>2 DEF TypeOK
  <2> HIDE DEF e1, e2
  <2>3. CASE d = c
    BY <1>2, <2>1, <2>2, <2>3, RestPost
  <2>4. CASE d # c
    BY <1>1, <1>2, <2>2, <2>4, RestPost DEF Frame
  <2> QED
    BY <2>3, <2>4
<1>3. CASE Race(c)
  <2>1. UNCHANGED agent
    BY <1>3 DEF Race
  <2>2. PICK watch \in {"none", "queued"} :
          activation' = [activation EXCEPT ![c] = [activation[c] EXCEPT !.watch = watch]]
    BY <1>3 DEF Race
  <2> QED
    BY <1>2, <2>1, <2>2
<1>4. CASE Decided(c) \/ Awaited(c)
  <2>1. UNCHANGED agent
    BY <1>4 DEF Decided, Awaited, Loops
  <2>2. PICK watch \in {"race", "await"} :
          activation' \in
            {[activation EXCEPT ![c] = [activation[c] EXCEPT !.watch = watch]],
             [activation EXCEPT ![c] =
                [activation[c] EXCEPT !.watch = watch, !.poked = FALSE]]}
    BY <1>4 DEF Decided, Awaited, Loops
  <2> QED
    BY <1>2, <2>1, <2>2
<1>5. CASE Decide(c)
  <2>1. \/ UNCHANGED <<agent, activation>>
        \/ /\ UNCHANGED agent
           /\ activation' = [activation EXCEPT ![c] =
                               [activation[c] EXCEPT !.watch = "decided"]]
        \/ dispose({c})
    BY <1>5 DEF Decide
  <2> QED
    BY <1>2, <2>1, StillPost, DisposePost
<1>6. ASSUME NEW to \in {"flush", "released"},
             activation' = [activation EXCEPT ![c].disposal = to],
             agent'[c].epoch = agent[c].epoch,
             \A f \in Children \ {c} : agent'[f] = agent[f]
      PROVE  Post(d)
  <2> DEFINE e == [activation[c] EXCEPT !.disposal = to]
  <2>1. e.announced = activation[c].announced /\ e.disposal = to
    BY <1>1 DEF Activations
  <2>2. /\ activation'[c] = e
        /\ \A f \in Children \ {c} : activation'[f] = activation[f]
    BY <1>6 DEF TypeOK
  <2> HIDE DEF e
  <2>3. CASE d = c
    BY <1>6, <2>1, <2>2, <2>3, ClosedPost DEF Open
  <2>4. CASE d # c
    BY <1>1, <1>6, <2>2, <2>4, RestPost DEF Frame
  <2> QED
    BY <2>3, <2>4
<1>7. CASE Quiesce(c)
  BY <1>6, <1>7 DEF Quiesce
<1>8. CASE Release(c)
  <2>1. /\ agent'[c].epoch = agent[c].epoch
        /\ \A f \in Children \ {c} : agent'[f] = agent[f]
    BY <1>1, <1>8, UnregisteredTyped DEF Release, TypeOK
  <2> QED
    BY <1>6, <1>8, <2>1 DEF Release
<1> QED
  BY <1>3, <1>4, <1>5, <1>7, <1>8

\* A child that is left alone, but for whom it owns.
LEMMA OwnsPost ==
  ASSUME NEW c \in Children, agent'[c] = agent[c],
         activation'[c].resident = activation[c].resident,
         activation'[c].disposal = activation[c].disposal,
         activation'[c].announced = activation[c].announced,
         activation'[c].accepted = activation[c].accepted,
         Open(c) => \A d \in activation[c].owned :
           activation[d].announced => d \in activation'[c].owned
  PROVE  Post(c)
<1>1. Mailed(c)
  BY DEF Mailed, Leaves, Open, AtRest
<1> QED
  BY <1>1 DEF Post, Noticed, Announced, Aged

\* A child that gets a message which is accounted for.
LEMMA HearPost ==
  ASSUME TypeOK, NEW c \in Children, sent' = sent + 1,
         NEW a, a = followup(agent[c], sent + 1) \/ a = inject(agent[c], sent + 1),
         agent'[c] = wakeDriver(a),
         activation'[c].resident = activation[c].resident,
         activation'[c].disposal = activation[c].disposal,
         activation[c].disposal # "undo", activation'[c].announced,
         activation[c].announced \/ (Managed(c) => activation[Parent[c]].announced),
         Open(c) => activation'[c].accepted = activation[c].accepted \cup {sent + 1}
  PROVE  Post(c)
<1>1. agent[c] \in Agents /\ sent + 1 \in Nat
  BY DEF TypeOK
<1>2. Like(a, agent[c])
  BY <1>1, SendLike
<1>3. \/ a.turns = agent[c].turns \cup {sent + 1} /\ a.steps = agent[c].steps
      \/ a.turns = agent[c].turns /\ a.steps = agent[c].steps \cup {sent + 1}
  BY <1>1 DEF followup, inject, Agents
<1>4. /\ Like(agent'[c], agent[c])
      /\ agent'[c].turns = a.turns /\ agent'[c].steps = a.steps
  <2>1. a \in Agents
    BY <1>2 DEF Like
  <2>2. Like(wakeDriver(a), a)
    BY <2>1, WakeLike
  <2>3. wakeDriver(a).turns = a.turns /\ wakeDriver(a).steps = a.steps
    BY <2>1 DEF wakeDriver, Agents
  <2> QED
    BY <1>2, <2>2, <2>3 DEF Like
<1>5. Open(c) => Hears(c)
  BY <1>3, <1>4 DEF Hears
<1>6. Mailed(c)
  BY <1>5 DEF Mailed, Open
<1>7. Noticed(c)
  BY DEF Noticed
<1> QED
  BY <1>4, <1>6, <1>7 DEF Post, Announced, Aged, Like

\* What releasing a child changes in the others.
LEMMA ReleasedShape ==
  ASSUME TypeOK, NEW c \in Children, NEW d \in Children \ {c}
  PROVE  LET e == Removed(c)[d]
         IN  /\ e \in Activations
             /\ e.resident = activation[d].resident
             /\ e.disposal = activation[d].disposal
             /\ e.announced = activation[d].announced
             /\ e.accepted = activation[d].accepted
             /\ e.owned = activation[d].owned \ {c}
<1> DEFINE e == releaseOwnership(c, activation)[d]
<1>1. activation[d] \in Activations
  BY DEF TypeOK
<1>2. Removed(c)[d] = e /\ Removed(c) \in [Children -> Activations]
  BY RemovedShape
<1>3. CASE c \in activation[d].owned
  <2>1. e = [activation[d] EXCEPT !.owned = @ \ {c}, !.waits = @ \ {c},
                                  !.poked = TRUE]
    BY <1>3 DEF releaseOwnership
  <2> HIDE DEF e
  <2> QED
    BY <1>1, <1>2, <2>1 DEF Activations
<1>4. CASE c \notin activation[d].owned
  <2>1. e = activation[d]
    BY <1>4 DEF releaseOwnership
  <2> QED
    BY <1>1, <1>2, <1>4, <2>1
<1> QED
  BY <1>3, <1>4

\* The end of a disposal: the parent of an announced child gets its notice.
LEMMA SettlePost ==
  ASSUME TypeOK, TreeInv, LossOK, NEW c \in Children, Settle(c), NEW d \in Children
  PROVE  Post(d)
<1> DEFINE p == Parent[c]
<1>1. Removes(c)
  BY SettleEffect
<1>2. CASE d = c
  <2>1. /\ ~activation'[c].announced /\ ~activation'[c].resident
        /\ agent'[c].epoch = agent[c].epoch
    BY <1>1 DEF Removes, Frame, Absent
  <2> QED
    BY <1>2, <2>1, ClosedPost DEF Open
<1>3. ASSUME d # c, agent'[d] = agent[d], activation'[d] = Removed(c)[d],
             Open(d) /\ c \in activation[d].owned => ~activation[c].announced
      PROVE  Post(d)
  <2> DEFINE e == Removed(c)[d]
  <2>1. /\ e.resident = activation[d].resident
        /\ e.disposal = activation[d].disposal
        /\ e.announced = activation[d].announced
        /\ e.accepted = activation[d].accepted
        /\ e.owned = activation[d].owned \ {c}
    BY <1>3, ReleasedShape
  <2> HIDE DEF e
  <2> QED
    BY <1>3, <2>1, OwnsPost DEF e
<1>4. CASE d # c /\ activation[c].announced /\ Managed(c) /\ notifySettlement(c)
  <2>1. p \in Children /\ p # c
    BY <1>4, NotItself DEF Managed
  <2>2. /\ Removed(c) \in [Children -> Activations] /\ agent \in [Children -> Agents]
    BY RemovedShape DEF TypeOK
  <2>3. CASE d # p
    <3>1. c \notin activation[d].owned
      BY <2>3 DEF TreeInv, OwnerOK
    <3>2. agent'[d] = agent[d]
      BY <1>4, <2>1, <2>2, <2>3 DEF notifySettlement
    <3>3. activation'[d] = Removed(c)[d]
      BY <1>4, <2>1, <2>2, <2>3 DEF notifySettlement
    <3> QED
      BY <1>3, <1>4, <3>1, <3>2, <3>3
  <2>4. CASE d = p
    <3> DEFINE e == Removed(c)[d]
    <3>1. /\ e \in Activations
          /\ e.resident = activation[d].resident
          /\ e.disposal = activation[d].disposal
          /\ e.announced = activation[d].announced
          /\ e.accepted = activation[d].accepted
      BY <1>4, ReleasedShape
    <3>2. activation[d].announced /\ activation[d].disposal # "undo"
      BY <1>4, <2>4 DEF LossOK, KnownOK
    <3>3. sent' = sent + 1
      BY <1>4 DEF notifySettlement
    <3>4. CASE Closing
      <4>1. agent'[d] = inject(agent[d], sent + 1)
        BY <1>4, <2>1, <2>2, <2>4, <3>4 DEF notifySettlement
      <4>2. activation'[d] = e
        BY <1>4, <3>4 DEF notifySettlement
      <4> HIDE DEF e
      <4>3. agent[d] \in Agents /\ sent + 1 \in Nat
        BY DEF TypeOK
      <4>4. Like(agent'[d], agent[d])
        BY <4>1, <4>3, SendLike
      <4>5. /\ agent'[d].turns = agent[d].turns
            /\ agent'[d].steps = agent[d].steps \cup {sent + 1}
        BY <4>1, <4>3 DEF inject, Agents
      <4>6. Overhears(d)
        BY <3>1, <3>2, <3>3, <3>4, <4>2, <4>5 DEF Overhears
      <4>7. Mailed(d)
        BY <3>1, <4>2, <4>6 DEF Mailed, Open
      <4> QED
        BY <3>1, <3>2, <3>4, <4>2, <4>4, <4>7 DEF Post, Noticed, Announced, Aged, Like
    <3>5. CASE ~Closing
      <4>1. activation'[d] = admitWaking(sent + 1, e)
        BY <1>4, <2>1, <2>2, <2>4, <3>5 DEF notifySettlement
      <4>2. agent'[d] \in {wakeDriver(followup(agent[d], sent + 1)),
                           wakeDriver(inject(agent[d], sent + 1))}
        BY <1>4, <2>1, <2>2, <2>4, <3>5 DEF notifySettlement
      <4> HIDE DEF e
      <4>3. sent + 1 \in Nat
        BY DEF TypeOK
      <4>4. Frame(activation'[d], e)
        BY <3>1, <4>1, <4>3, AdmitFrame
      <4>5. e.resident => activation'[d].accepted = e.accepted \cup {sent + 1}
        BY <3>1, <4>1 DEF admitWaking, Activations
      <4>6. /\ activation'[d].resident = activation[d].resident
            /\ activation'[d].disposal = activation[d].disposal
            /\ activation'[d].announced
            /\ Open(d) => activation'[d].accepted = activation[d].accepted \cup {sent + 1}
        BY <3>1, <3>2, <4>4, <4>5 DEF Frame, Open
      <4> QED
        BY <3>2, <3>3, <4>2, <4>6, HearPost
    <3> QED
      BY <3>4, <3>5
  <2> QED
    BY <2>3, <2>4
<1>5. CASE /\ d # c /\ ~(activation[c].announced /\ Managed(c) /\ agent[p].live)
           /\ activation' = Removed(c) /\ UNCHANGED agent
  <2>1. Open(d) /\ c \in activation[d].owned => p = d /\ agent[d].live
    BY DEF TreeInv, OwnerOK, LiveOK, Open
  <2>2. Open(d) /\ c \in activation[d].owned => ~activation[c].announced
    BY <1>5, <2>1 DEF Managed
  <2> QED
    BY <1>3, <1>5, <2>2
<1> QED
  BY <1>2, <1>4, <1>5 DEF Settle

\* A report: whoever runs was announced, so its parent owns it.
LEMMA ReportPost ==
  ASSUME TypeOK, TreeInv, LossOK, NEW c \in Children, NEW delivery,
         reportFrom(c, delivery), NEW d \in Children
  PROVE  Post(d)
<1> DEFINE p == Parent[c]
<1>1. /\ p \in Children /\ sent' = sent + 1 /\ Open(c)
      /\ agent[c].phase = "running"
  BY DEF reportFrom, Managed, Open
<1>2. activation[c].announced
  BY <1>1 DEF LossOK, MakerOK, AtRest, Resting
<1>3. /\ activation[p].announced /\ activation[p].resident
      /\ c \in activation[p].owned /\ activation[p].disposal # "undo"
  BY <1>1, <1>2 DEF LossOK, KnownOK, TreeInv, OwnerOK, Managed
<1>4. /\ activation[d] \in Activations /\ agent[d] \in Agents /\ sent + 1 \in Nat
      /\ activation \in [Children -> Activations] /\ agent \in [Children -> Agents]
  BY DEF TypeOK
<1>5. CASE d # p
  <2>1. agent'[d] = agent[d] /\ activation'[d] = activation[d]
    BY <1>1, <1>4, <1>5 DEF reportFrom
  <2> QED
    BY <1>4, <2>1, RestPost DEF Frame
<1>6. CASE d = p /\ delivery = "wakeup"
  <2>1. /\ agent'[d] = wakeDriver(followup(agent[d], sent + 1))
        /\ activation'[d] = admitWaking(sent + 1, activation[d])
    BY <1>1, <1>4, <1>6 DEF reportFrom
  <2>2. Frame(activation'[d], activation[d])
    BY <1>4, <2>1, AdmitFrame
  <2>3. activation'[d].accepted = activation[d].accepted \cup {sent + 1}
    BY <1>3, <1>4, <1>6, <2>1 DEF admitWaking, Activations
  <2> QED
    BY <1>1, <1>3, <1>6, <2>1, <2>2, <2>3, HearPost DEF Frame
<1>7. CASE d = p /\ delivery # "wakeup"
  <2>1. agent'[d] = inject(agent[d], sent + 1) /\ activation' = activation
    BY <1>1, <1>4, <1>7 DEF reportFrom
  <2>2. /\ Like(agent'[d], agent[d]) /\ agent'[d].turns = agent[d].turns
        /\ agent'[d].steps = agent[d].steps \cup {sent + 1}
    BY <1>4, <2>1, SendLike DEF inject, Agents
  <2>3. Overhears(d)
    BY <1>1, <1>2, <1>3, <1>7, <2>1, <2>2 DEF Overhears
  <2>4. Mailed(d)
    BY <2>1, <2>3 DEF Mailed, Open
  <2> QED
    BY <2>1, <2>2, <2>4 DEF Post, Noticed, Announced, Aged, Like
<1> QED
  BY <1>5, <1>6, <1>7

\* An admitted submission announces a child under a parent that was announced.
LEMMA SubmitPost ==
  ASSUME TypeOK, LockOK, TreeInv, LossOK, NEW k \in Callers,
         caller[k].at # "outside", Admits(k), submit(caller[k].child),
         NEW d \in Children
  PROVE  Post(d) /\ activation'[caller[k].child].announced
<1> DEFINE c == caller[k].child
           p == Parent[c]
           table == acquireOwnership(c, activation)
<1>1. c \in Children /\ p # c
  BY Place, NotItself
<1>2. /\ activation \in [Children -> Activations] /\ agent \in [Children -> Agents]
      /\ sent + 1 \in Nat
  BY DEF TypeOK
<1>3. /\ table \in [Children -> Activations]
      /\ \A e \in Children : ~(Resident(c) /\ e = p) => table[e] = activation[e]
      /\ Resident(c) => /\ p \in Children
                        /\ table[p] = [activation[p] EXCEPT !.owned = @ \cup {c}]
  BY <1>1, <1>2, AcquireTyped
<1> HIDE DEF table
<1>4. /\ agent' = [agent EXCEPT ![c] = wakeDriver(followup(agent[c], sent + 1))]
      /\ activation' = [table EXCEPT ![c] =
           [admitWaking(sent + 1, table[c]) EXCEPT !.announced = TRUE]]
      /\ sent' = sent + 1
  BY DEF submit, table
<1>5. Open(c) /\ (Managed(c) => activation[p].announced)
  <2>1. Open(c)
    BY DEF Admits, Open
  <2>2. ASSUME Managed(c) PROVE activation[p].announced
    <3>1. /\ p \in Children /\ agent[p].live /\ agent[p].epoch = caller[k].epoch
      BY <2>2 DEF Admits, authorizeLineage, Managed
    <3>2. activation[p].resident
      BY <3>1 DEF TreeInv, LiveOK
    <3>3. Open(p)
      BY <2>2, <3>2 DEF Admits, ParentAdmits, Resident, Open
    <3> QED
      BY <2>2, <3>1, <3>3 DEF LossOK, AskedOK
  <2> QED
    BY <2>1, <2>2
<1>6. /\ table[c] = activation[c]
      /\ activation'[c] = [admitWaking(sent + 1, activation[c]) EXCEPT !.announced = TRUE]
      /\ agent'[c] = wakeDriver(followup(agent[c], sent + 1))
  BY <1>1, <1>2, <1>3, <1>4
<1> DEFINE e == admitWaking(sent + 1, activation[c])
<1>7. /\ Frame(e, activation[c])
      /\ e.accepted = activation[c].accepted \cup {sent + 1}
  <2>1. Frame(e, activation[c])
    BY <1>1, <1>2, AdmitFrame
  <2>2. e.accepted = activation[c].accepted \cup {sent + 1}
    BY <1>1, <1>2, <1>5 DEF admitWaking, Activations, Open
  <2> QED
    BY <2>1, <2>2
<1>8. activation'[c] = [e EXCEPT !.announced = TRUE]
  BY <1>6
<1> HIDE DEF e
<1>9. /\ activation'[c].announced
      /\ activation'[c].resident = activation[c].resident
      /\ activation'[c].disposal = activation[c].disposal
      /\ activation'[c].accepted = activation[c].accepted \cup {sent + 1}
  BY <1>7, <1>8 DEF Frame, Activations
<1>10. ASSUME d = c PROVE Post(d)
  BY <1>1, <1>4, <1>5, <1>6, <1>9, <1>10, HearPost DEF Open
<1>11. ASSUME d # c PROVE Post(d)
  <2>1. agent'[d] = agent[d] /\ activation'[d] = table[d]
    BY <1>1, <1>2, <1>3, <1>4, <1>11
  <2>2. activation[d] \in Activations
    BY <1>2
  <2>3. CASE Resident(c) /\ d = p
    <3>1. activation'[d] = [activation[d] EXCEPT !.owned = @ \cup {c}]
      BY <1>3, <2>1, <2>3
    <3>2. /\ activation'[d].resident = activation[d].resident
          /\ activation'[d].disposal = activation[d].disposal
          /\ activation'[d].announced = activation[d].announced
          /\ activation'[d].accepted = activation[d].accepted
          /\ activation[d].owned \subseteq activation'[d].owned
      BY <2>2, <3>1 DEF Activations
    <3> QED
      BY <2>1, <3>2, OwnsPost
  <2>4. CASE ~(Resident(c) /\ d = p)
    <3>1. activation'[d] = activation[d]
      BY <1>3, <2>1, <2>4
    <3>2. /\ Frame(activation'[d], activation[d])
          /\ activation'[d].accepted = activation[d].accepted
      BY <2>2, <3>1 DEF Frame
    <3> QED
      BY <2>1, <3>2, RestPost
  <2> QED
    BY <2>3, <2>4
<1> QED
  BY <1>9, <1>10, <1>11

\* The two outcomes of a creation, and its failure.
LEMMA CreatedPost ==
  ASSUME TypeOK, LockOK, TreeInv, LossOK, NEW k \in Callers, Created(k),
         NEW d \in Children
  PROVE  Post(d)
<1> DEFINE c == caller[k].child
           p == Parent[c]
           born == [NoAgent EXCEPT !.live = TRUE, !.epoch = agent[c].epoch + 1]
<1>1. c \in Children /\ ~activation[c].resident /\ p # c
  BY NotItself DEF LockOK, CallerOK, Created
<1>2. /\ activation \in [Children -> Activations] /\ agent \in [Children -> Agents]
      /\ caller[k] \in Requests
  BY DEF TypeOK, Requests
<1>3. CASE UNCHANGED <<agent, activation>>
  BY <1>3, StillPost
<1>4. ASSUME NEW place \in {"submit", "undo"}, At(k, place),
             caller'[k].at \in {"submit", "undo"},
             agent' = [agent EXCEPT ![c] = born]
      PROVE  Post(d)
  <2>1. /\ Publishes(c) /\ Tables
        /\ caller'[k].at = "undo" => activation'[c].disposal = "undo"
    BY <1>4, CreatedEffect
  <2>2. caller'[k].at = place /\ caller'[k].child = c
    BY <1>2, <1>4 DEF At, TypeOK, Requests
  <2>3. /\ born.turns = {} /\ born.steps = {} /\ born.phase = "idle"
        /\ born.epoch = agent[c].epoch + 1
    BY DEF NoAgent
  <2>4. agent'[c] = born /\ \A e \in Children \ {c} : agent'[e] = agent[e]
    BY <1>1, <1>2, <1>4
  <2> HIDE DEF born
  <2>5. CASE d = c
    <3>1. Open(c)' => Born(c)
      BY <1>1, <2>1, <2>2, <2>3, <2>4 DEF Open, Born, Submitting, Inbox
    <3>2. ~activation'[c].announced
      BY <2>1 DEF Publishes
    <3>3. agent'[c].epoch = agent[c].epoch + 1
      BY <2>3, <2>4
    <3>4. Mailed(c)
      BY <3>1 DEF Mailed
    <3>5. Noticed(c)
      BY <1>1 DEF Noticed, Open
    <3>6. Announced(c)
      BY <1>1, <3>2 DEF Announced, TreeInv, OwnerOK
    <3>7. Aged(c)
      BY <1>1, <3>3 DEF Aged
    <3> QED
      BY <2>5, <3>4, <3>5, <3>6, <3>7 DEF Post
  <2>6. CASE d # c
    <3>1. activation[d] \in Activations
      BY <1>2
    <3>2. CASE activation'[d] = activation[d]
      BY <2>4, <2>6, <3>1, <3>2, RestPost DEF Frame
    <3>3. CASE activation'[d] = Owning(c, d)
      BY <2>4, <2>6, <3>1, <3>3, OwnsPost DEF Owning, Activations
    <3> QED
      BY <2>1, <2>6, <3>2, <3>3 DEF Publishes
  <2> QED
    BY <2>5, <2>6
<1>5. \A place : At(k, place) => caller'[k].at = place
  BY <1>2 DEF At, TypeOK, Requests
<1> QED
  BY <1>3, <1>4, <1>5 DEF Created

\* A rollback removes a child that nobody had heard of.
LEMMA UndonePost ==
  ASSUME TypeOK, LockOK, TreeInv, LossOK, NEW k \in Callers, Undone(k),
         NEW d \in Children
  PROVE  Post(d)
<1> DEFINE c == caller[k].child
<1>1. c \in Children /\ Removes(c) /\ activation[c].disposal = "undo"
  BY UndoneEffect DEF LockOK, CallerOK, Undone
<1>2. ~activation[c].announced
  BY <1>1 DEF LossOK, KnownOK
<1>3. CASE d = c
  <2>1. /\ ~activation'[c].announced /\ ~activation'[c].resident
        /\ agent'[c].epoch = agent[c].epoch
    BY <1>1 DEF Removes, Frame, Absent
  <2> QED
    BY <1>3, <2>1, ClosedPost DEF Open
<1>4. CASE d # c
  <2> DEFINE e == Removed(c)[d]
  <2>1. /\ e.resident = activation[d].resident
        /\ e.disposal = activation[d].disposal
        /\ e.announced = activation[d].announced
        /\ e.accepted = activation[d].accepted
        /\ e.owned = activation[d].owned \ {c}
    BY <1>1, <1>4, ReleasedShape
  <2>2. agent'[d] = agent[d] /\ activation'[d] = e
    BY <1>1, <1>4 DEF Undone, TypeOK
  <2> HIDE DEF e
  <2> QED
    BY <1>2, <2>1, <2>2, OwnsPost
<1> QED
  BY <1>3, <1>4

\* Every step of a caller moves every child so.
LEMMA CallerPost ==
  ASSUME TypeOK, LockOK, TreeInv, LossOK, NEW k \in Callers,
         \/ CallerStep(k) \/ Abort(k)
         \/ \E c \in Children : startContinuable(k, c) \/ Followup(k, c),
         NEW d \in Children
  PROVE  Post(d)
<1> DEFINE c == caller[k].child
<1>1. ASSUME UNCHANGED <<agent, activation>> PROVE Post(d)
  BY <1>1, StillPost
<1>2. CASE Locked(k)
  <2>1. caller[k].at # "outside"
    BY <1>2 DEF Locked
  <2>2. UNCHANGED <<agent, activation>> \/ (Admits(k) /\ submit(c))
    BY <1>2 DEF Locked
  <2> QED
    BY <1>1, <2>1, <2>2, SubmitPost
<1>3. CASE submitMaterialized(k)
  <2>1. caller[k].at # "outside" /\ c \in Children
    BY <1>3, Place DEF submitMaterialized
  <2>2. dispose({c}) \/ (Admits(k) /\ submit(c))
    BY <1>3 DEF submitMaterialized
  <2> QED
    BY <2>1, <2>2, SubmitPost, DisposePost
<1>4. CASE \/ Prepared(k) \/ Waited(k) \/ Inspected(k) \/ RolledBack(k) \/ Abort(k)
           \/ \E e \in Children : startContinuable(k, e) \/ Followup(k, e)
  BY <1>1, <1>4 DEF Prepared, Waited, Inspected, RolledBack, Abort,
     startContinuable, Followup
<1> QED
  BY <1>2, <1>3, <1>4, CreatedPost, UndonePost DEF CallerStep

\* And every caller.
LEMMA CallerTurned ==
  ASSUME TypeOK, LockOK, TreeInv, LossOK, NEW k \in Callers,
         \/ CallerStep(k) \/ Abort(k)
         \/ \E c \in Children : startContinuable(k, c) \/ Followup(k, c),
         \A j \in Callers \ {k} : caller'[j] = caller[j]
  PROVE  /\ \A j \in Callers : Turned(j)
         /\ \A d \in Children : Awaits(d)
<1>1. caller[k] \in Requests /\ caller \in [Callers -> Requests]
  BY DEF TypeOK, Requests
<1>2. \A place : At(k, place) =>
        /\ caller'[k].at = place /\ caller'[k].child = caller[k].child
        /\ caller'[k].epoch = caller[k].epoch
  BY <1>1 DEF At, Requests
<1>3. Returns(k) => caller'[k].at = "outside"
  BY <1>1 DEF Returns, Outside
<1>4. CASE Abort(k)
  <2>1. /\ caller'[k].at = caller[k].at /\ caller'[k].child = caller[k].child
        /\ caller'[k].epoch = caller[k].epoch /\ caller[k].at # "outside"
    BY <1>1, <1>4 DEF Abort, Requests
  <2> QED
    BY <2>1 DEF Turned, Awaits, Submitting
<1>5. CASE CallerStep(k)
  <2>1. caller[k].at # "outside" /\ (Returns(k) \/ \E place : At(k, place))
    BY <1>5 DEF CallerStep, Prepared, Locked, Waited, Inspected, Created, Undone,
       submitMaterialized, RolledBack
  <2>2. Turned(k)
    BY <1>2, <1>3, <2>1 DEF Turned
  <2>3. ASSUME NEW d \in Children, caller[k].at = "submit", caller[k].child = d
        PROVE  ~Open(d)' \/ activation'[d].announced
    <3>1. submitMaterialized(k)
      BY <1>5, <2>3 DEF CallerStep, Prepared, Locked, Waited, Inspected, Created,
         Undone, RolledBack
    <3>2. CASE Admits(k) /\ submit(d)
      BY <2>3, <3>2, SubmitPost
    <3>3. CASE dispose({d})
      <4>1. activation[d] \in Activations
        BY DEF TypeOK
      <4>2. d \in Below({d})
        BY <2>3, BelowClosed
      <4>3. CASE Open(d)
        <5>1. d \in Opened({d})
          BY <4>2, <4>3 DEF Open, Opened
        <5> DEFINE e == Accounted(Inbox(agent[d]), activation[d])
        <5>2. e \in Activations
          BY <4>1, AccountedFrame DEF Frame
        <5>3. activation'[d] = [e EXCEPT !.disposal = "quiesce",
                                  !.waits = activation[d].owned, !.poked = TRUE]
          BY <3>3, <5>1 DEF dispose
        <5> HIDE DEF e
        <5>4. activation'[d].disposal = "quiesce"
          BY <5>2, <5>3 DEF Activations
        <5> QED
          BY <5>4 DEF Open
      <4>4. CASE ~Open(d)
        <5>1. activation'[d] = activation[d]
          BY <3>3, <4>4 DEF dispose, Open, Opened
        <5> QED
          BY <4>4, <5>1 DEF Open
      <4> QED
        BY <4>3, <4>4
    <3> QED
      BY <2>3, <3>1, <3>2, <3>3 DEF submitMaterialized
  <2>4. \A d \in Children : Awaits(d)
    BY <2>3 DEF Awaits, Submitting
  <2> QED
    BY <2>2, <2>4 DEF Turned
<1>6. ASSUME NEW c \in Children, startContinuable(k, c) \/ Followup(k, c)
      PROVE  Turned(k) /\ caller[k].at = "outside"
  <2>1. PICK op \in {"start", "followup"}, place \in {"prepare", "queued"} :
          caller' = [caller EXCEPT ![k] = Request(c, op, place)]
    BY <1>6 DEF startContinuable, Followup
  <2>2. /\ caller'[k].child = c
        /\ Managed(c) => caller'[k].epoch = agent[Parent[c]].epoch
    BY <1>1, <2>1 DEF Request
  <2>3. ParentLive(c) /\ UNCHANGED <<agent, activation>> /\ caller[k].at = "outside"
    BY <1>6 DEF startContinuable, Followup
  <2>4. Asks(k)
    BY <2>2, <2>3 DEF Asks, ParentLive
  <2> QED
    BY <2>3, <2>4 DEF Turned
<1>7. CASE \E c \in Children : startContinuable(k, c) \/ Followup(k, c)
  BY <1>6, <1>7 DEF Turned, Awaits, Submitting
<1> QED
  BY <1>4, <1>5, <1>7

\* Every step of a child, and of its Agent, moves every child so.
LEMMA ChildPost ==
  ASSUME TypeOK, TreeInv, LossOK, NEW c \in Children,
         \/ ChildStep(c) \/ FailTurn(c) \/ runMaintenance(c) \/ interrupt(c)
         \/ \E delivery \in {"quiet", "wakeup"} : reportFrom(c, delivery),
         NEW d \in Children
  PROVE  Post(d)
BY AgentStepPost, WatchPost, SettlePost, ReportPost DEF ChildStep

\* And it keeps the callers.
LEMMA ChildTurned ==
  ASSUME NEW c \in Children,
         \/ ChildStep(c) \/ FailTurn(c) \/ runMaintenance(c) \/ interrupt(c)
         \/ \E delivery \in {"quiet", "wakeup"} : reportFrom(c, delivery)
  PROVE  UNCHANGED <<caller, drain>> /\ sent' \in {sent, sent + 1}
BY DEF ChildStep, Quiesce, Release, Settle, notifySettlement, OpenTurn, ClaimSteps,
   EndTurn, Converge, Claims, Moves, Race, Decide, Decided, Awaited, Loops,
   FailTurn, runMaintenance, interrupt, reportFrom

\* A caller that does not move asks for nothing new.
LEMMA StandsTurned ==
  ASSUME UNCHANGED caller
  PROVE  /\ \A k \in Callers : Turned(k)
         /\ \A d \in Children : Awaits(d)
BY DEF Turned, Awaits, Submitting

\* A caller sends at most one message and leaves the drain.
LEMMA CallerCounted ==
  ASSUME NEW k \in Callers,
         \/ CallerStep(k) \/ Abort(k)
         \/ \E c \in Children : startContinuable(k, c) \/ Followup(k, c)
  PROVE  UNCHANGED drain /\ sent' \in {sent, sent + 1}
BY DEF CallerStep, Prepared, Locked, Waited, Inspected, Created, Undone,
   submitMaterialized, RolledBack, submit, Abort, startContinuable, Followup

\* The steps of a drain leave the callers and what was sent.
LEMMA DrainCounted ==
  ASSUME TypeOK, (\E kind \in {"manager", "scope"} : Drain(kind)) \/ Barrier \/ Drained
  PROVE  UNCHANGED <<caller, sent>> /\ Closing'
<1>1. UNCHANGED <<caller, sent>>
  BY DEF Drain, Barrier, Drained
<1>2. drain' \in {[at |-> "barrier", kind |-> "manager", roots |-> {}],
                 [at |-> "barrier", kind |-> "scope", roots |-> Roots],
                 [drain EXCEPT !.at = "release", !.roots = Roots],
                 [drain EXCEPT !.at = "release"],
                 [drain EXCEPT !.at = "done"]}
  BY DEF Drain, Barrier, Drained
<1>3. drain'.at # "none"
  <2>1. /\ [drain EXCEPT !.at = "release", !.roots = Roots].at = "release"
        /\ [drain EXCEPT !.at = "release"].at = "release"
        /\ [drain EXCEPT !.at = "done"].at = "done"
    BY DEF TypeOK
  <2>2. /\ [at |-> "barrier", kind |-> "manager", roots |-> {}].at = "barrier"
        /\ [at |-> "barrier", kind |-> "scope", roots |-> Roots].at = "barrier"
    OBVIOUS
  <2> QED
    BY <1>2, <2>1, <2>2
<1> QED
  BY <1>1, <1>3 DEF Closing

\* They close Activations, or change none.
LEMMA DrainPost ==
  ASSUME TypeOK, NEW d \in Children,
         (\E kind \in {"manager", "scope"} : Drain(kind)) \/ Barrier \/ Drained
  PROVE  Post(d)
<1>1. UNCHANGED <<agent, activation>> \/ \E roots \in SUBSET Children : dispose(roots)
  BY RootsTyped DEF Drain, Barrier, Drained, TypeOK
<1> QED
  BY <1>1, StillPost, DisposePost

\* What settling relies on holds at first, when nothing is resident.
LEMMA InitLoss == Init => LossOK
<1> SUFFICES ASSUME Init PROVE LossOK
  OBVIOUS
<1>1. \A c \in Children : /\ ~activation[c].resident /\ ~activation[c].announced
                          /\ activation[c].disposal = "none"
  BY DEF Init, Absent
<1>2. \A k \in Callers : caller[k].at = "outside"
  BY DEF Init, Outside
<1>3. MakerOK /\ BoxOK /\ HeldOK
  BY <1>1 DEF MakerOK, BoxOK, HeldOK, Open
<1>4. KnownOK
  BY <1>1 DEF KnownOK
<1>5. AskedOK
  BY <1>2 DEF AskedOK
<1> QED
  BY <1>3, <1>4, <1>5 DEF LossOK

\* Every step preserves it.
LEMMA NextLoss == IInv /\ IInv' /\ LossOK /\ [Next]_vars => LossOK'
<1> SUFFICES ASSUME IInv, IInv', LossOK, [Next]_vars PROVE LossOK'
  OBVIOUS
<1> USE DEF IInv
<1>1. ASSUME UNCHANGED drain, sent' \in {sent, sent + 1} PROVE Counted
  BY <1>1 DEF Counted, Closing
<1>2. ASSUME NEW k \in Callers,
             \/ CallerStep(k) \/ Abort(k)
             \/ \E c \in Children : startContinuable(k, c) \/ Followup(k, c)
      PROVE  LossOK'
  <2>1. \A j \in Callers \ {k} : caller'[j] = caller[j]
    <3>1. CASE Abort(k)
      BY <3>1 DEF Abort, TypeOK
    <3>2. CASE CallerStep(k) \/ \E c \in Children : startContinuable(k, c) \/ Followup(k, c)
      BY <3>2, CallerOwn, InputOwn DEF Own, LockStep
    <3> QED
      BY <1>2, <3>1, <3>2
  <2>2. \A d \in Children : Post(d)
    BY <1>2, CallerPost
  <2>3. /\ \A j \in Callers : Turned(j)
        /\ \A d \in Children : Awaits(d)
    BY <1>2, <2>1, CallerTurned
  <2>4. Counted
    BY <1>1, <1>2, CallerCounted
  <2> QED
    BY <2>2, <2>3, <2>4, PostKeeps
<1>3. ASSUME NEW c \in Children,
             \/ ChildStep(c) \/ FailTurn(c) \/ runMaintenance(c) \/ interrupt(c)
             \/ \E delivery \in {"quiet", "wakeup"} : reportFrom(c, delivery)
      PROVE  LossOK'
  <2>1. \A d \in Children : Post(d)
    BY <1>3, ChildPost
  <2>2. UNCHANGED caller /\ Counted
    BY <1>1, <1>3, ChildTurned
  <2> QED
    BY <2>1, <2>2, StandsTurned, PostKeeps
<1>4. ASSUME (\E kind \in {"manager", "scope"} : Drain(kind)) \/ Barrier \/ Drained
      PROVE  LossOK'
  <2>1. \A d \in Children : Post(d)
    BY <1>4, DrainPost
  <2>2. UNCHANGED <<caller, sent>> /\ Counted
    BY <1>4, DrainCounted DEF Counted
  <2> QED
    BY <2>1, <2>2, StandsTurned, PostKeeps
<1>5. CASE UNCHANGED vars
  <2>1. UNCHANGED <<agent, activation, caller, drain, sent>>
    BY <1>5 DEF vars
  <2>2. \A d \in Children : Post(d)
    BY <2>1, StillPost
  <2>3. Counted
    BY <1>1, <2>1
  <2> QED
    BY <2>1, <2>2, <2>3, StandsTurned, PostKeeps
<1>6. CASE Progress
  BY <1>2, <1>3, <1>4, <1>6 DEF Progress
<1>7. CASE Input
  BY <1>2, <1>3, <1>4, <1>7 DEF Input
<1> QED
  BY <1>5, <1>6, <1>7 DEF Next

\* The one step that closes a child in its own lock while no caller moves is
\* the decision of its watcher.
LEMMA ClosesByDecision ==
  ASSUME IInv, [Next]_vars, NEW c \in Children,
         caller' = caller, lock'[c] # lock[c],
         activation[c].disposal = "none", activation'[c].disposal # "none"
  PROVE  Decide(c)
<1> USE DEF IInv
<1>1. ASSUME NEW k \in Callers, CallerStep(k) PROVE FALSE
  <2>1. caller[k] \in Requests
    BY DEF TypeOK, Requests
  <2>2. caller[k].at # "outside"
    BY <1>1 DEF CallerStep, Prepared, Locked, Waited, Inspected, Created, Undone,
       submitMaterialized, RolledBack
  <2>3. ~Returns(k)
    BY <2>1, <2>2 DEF Returns, Outside, TypeOK
  <2>4. \A place : At(k, place) => place = caller[k].at
    BY <2>1 DEF At, TypeOK, Requests
  <2> QED
    BY <1>1, <2>3, <2>4 DEF CallerStep, Prepared, Locked, Waited, Inspected,
       Created, Undone, submitMaterialized, RolledBack
<1>2. ASSUME NEW d \in Children, ChildStep(d) PROVE Decide(c)
  <2>1. Race(d) \/ Decide(d)
    BY <1>2 DEF ChildStep, Quiesce, Release, Settle, OpenTurn, ClaimSteps, EndTurn,
       Converge, Claims, Moves, Decided, Awaited, Loops
  <2>2. CASE Race(d)
    <3>1. activation[c] \in Activations
      BY DEF TypeOK
    <3>2. \E watch : activation' = [activation EXCEPT ![d].watch = watch]
      BY <2>2 DEF Race
    <3>3. activation'[c].disposal = activation[c].disposal
      BY <3>1, <3>2 DEF TypeOK, Activations
    <3> QED
      BY <3>3
  <2>3. CASE Decide(d)
    <3>1. d # c => lock'[c] = lock[c]
      BY <2>3 DEF Decide, Unlock, TypeOK
    <3> QED
      BY <2>3, <3>1
  <2> QED
    BY <2>1, <2>2, <2>3
<1>3. CASE Input
  <2>1. UNCHANGED lock \/ caller' # caller
    <3>1. ASSUME NEW k \in Callers, NEW d \in Children,
                 startContinuable(k, d) \/ Followup(k, d), UNCHANGED caller
          PROVE  FALSE
      <4>1. caller[k].at = "outside"
        BY <3>1 DEF startContinuable, Followup
      <4>2. PICK op, place \in {"prepare", "queued"} :
              caller' = [caller EXCEPT ![k] = Request(d, op, place)]
        BY <3>1 DEF startContinuable, Followup
      <4>3. caller'[k].at = place
        BY <4>2 DEF Request, TypeOK
      <4> QED
        BY <3>1, <4>1, <4>2, <4>3
    <3> QED
      BY <1>3, <3>1 DEF Input, Abort, FailTurn, runMaintenance, interrupt, Moves,
         reportFrom, Drain
  <2> QED
    BY <2>1
<1>4. CASE Barrier \/ Drained \/ UNCHANGED vars
  BY <1>4 DEF Barrier, Drained, vars
<1> QED
  BY <1>1, <1>2, <1>3, <1>4 DEF Next, Progress

\* watchSettlement gives a child up only when its inbox is empty: what is not
\* on the account was reported by a child that the Activation still owns.
THEOREM SettlingCorrect == Spec => NothingLostBySettling
<1>1. ASSUME IInv, LossOK, [Next]_vars, NEW c \in Children,
             ~Closing, caller' = caller, lock'[c] # lock[c],
             activation[c].disposal = "none", activation'[c].disposal # "none"
      PROVE  Inbox(agent[c]) = {}
  <2>1. Decide(c)
    BY <1>1, ClosesByDecision
  <2>2. activation[c] \in Activations
    BY <1>1 DEF IInv, TypeOK
  <2>3. activation[c].resident /\ stateOf(c) = "settled"
    <3>1. CASE UNCHANGED activation
      BY <1>1, <3>1
    <3>2. CASE activation' = [activation EXCEPT ![c].watch = "decided"]
      <4>1. activation'[c].disposal = activation[c].disposal
        BY <1>1, <2>2, <3>2 DEF IInv, TypeOK, Activations
      <4> QED
        BY <1>1, <4>1
    <3> QED
      BY <2>1, <3>1, <3>2 DEF Decide
  <2>4. activation[c].accepted = {} /\ activation[c].owned = {}
    BY <2>3 DEF stateOf
  <2>5. agent[c].turns = {} /\ agent[c].steps = {}
    BY <1>1, <2>3, <2>4 DEF LossOK, HeldOK, Open
  <2> QED
    BY <2>5 DEF Inbox
<1>2. IInv /\ LossOK /\ [Next]_vars =>
        [\A c \in Children :
           /\ activation[c].watch = "queued" /\ ~Closing
           /\ activation[c].disposal = "none" /\ activation'[c].disposal # "none"
           /\ caller' = caller /\ lock'[c] # lock[c]
           => Inbox(agent[c]) = {}]_vars
  BY <1>1
<1> QED
  BY <1>2, InitInv, NextInv, InitLoss, NextLoss, PTL DEF Spec, NothingLostBySettling
=============================================================================
