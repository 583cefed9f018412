-------------------- MODULE PersistenceCoordinatorProofs --------------------
(***************************************************************************)
(* Reservations under the persistence coordinator, for any number of       *)
(* callers, sessions, events, calls and disturbances: an exclusive entry   *)
(* of the pool has exactly one caller that will end it, and none outlives  *)
(* the publication of a session; a session that is retired leaves nothing  *)
(* behind in the ledger; and the ledger agrees with the store, which holds *)
(* what its owner recorded.  The first half of the module needs nothing of *)
(* what the logs hold.                                                     *)
(***************************************************************************)
EXTENDS PersistenceCoordinator, SequenceTheorems, TLAPS

Places == {"outside", "gone", "retirement", "load", "loaded", "settled",
           "check", "commit", "hold", "append"}
Phases == {"none", "loading", "ready", "committing", "reserved"}

\* The records of callers and of the pool have their fields.
Fields(r) ==
  r \in [at : Places, op : {r.op}, awaits : {r.awaits}, same : BOOLEAN,
         loader : {r.loader}, source : {r.source}, aborted : {r.aborted},
         floor : {r.floor}]

Formed == /\ caller = [c \in Callers |-> caller[c]]
          /\ \A c \in Callers : Fields(caller[c])
          /\ entry = [phase |-> entry.phase, source |-> entry.source,
                      loader |-> entry.loader]
          /\ entry.phase \in Phases
          /\ entry.phase = "none" => entry = NoEntry
          /\ task = [step |-> task.step, source |-> task.source]
          /\ \E Jobs : chain \in Seq(Jobs)

\* Who ends an exclusive entry: the caller whose commit it awaits, or the one
\* that holds the reservation.
Commits(c) == caller[c].same /\ caller[c].at = "commit"
Reserves(c) == caller[c].at = "hold"

PoolOK ==
  /\ entry.phase # "none" => current = nobody
  /\ \A c \in Callers :
       /\ caller[c].same => entry.phase # "none"
       /\ Commits(c) => entry.phase = "committing"
       /\ Reserves(c) => entry.phase = "reserved" /\ caller[c].same
  /\ entry.phase = "committing" => \E c \in Callers : Commits(c)
  /\ entry.phase = "reserved" => \E c \in Callers : Reserves(c)
  /\ \A c, d \in Callers :
       /\ Commits(c) \/ Reserves(c)
       /\ Commits(d) \/ Reserves(d)
       => c = d

\* A caller has one operation in the chain at most, and waits for it there
\* unless its signal has called it away from a commit.
Own == {"check", "commit", "append"}
Awaits(op, at) == /\ op = "check"  => at = "check"
                  /\ op = "commit" => at \in {"commit", "gone"}
                  /\ op = "append" => at = "append"

ChainOK ==
  /\ \A i \in 1 .. Len(chain) :
       chain[i].op \in Own => /\ chain[i].who \in Callers
                              /\ Awaits(chain[i].op, caller[chain[i].who].at)
  /\ \A i, j \in 1 .. Len(chain) :
       /\ chain[i].op \in Own /\ chain[j].op \in Own
       /\ chain[i].who = chain[j].who
       => i = j

\* Where the running operation is.  A commit that has started keeps its caller;
\* while an append runs past its start nothing becomes reserved.
TaskOK ==
  /\ chain = <<>> => task = AtStart
  /\ task.step # "start" /\ Running("commit") =>
       caller[Head(chain).who].at = "commit"
  /\ task.step # "start" /\ Running("append") => entry.phase # "reserved"

IInv == Formed /\ PoolOK /\ ChainOK /\ TaskOK
-----------------------------------------------------------------------------
(***************************************************************************)
(* How a step moves the chain.                                             *)
(***************************************************************************)
Queues(op, who) ==
  \E first, last :
    chain' = Append(chain, [op |-> op, who |-> who, first |-> first,
                            last |-> last])

Finishes == chain # <<>> /\ chain' = Tail(chain)

\* A queued operation comes last and moves no other.
LEMMA QueueEffect ==
  ASSUME Formed, NEW op, NEW who, Queues(op, who)
  PROVE  /\ \E Jobs : chain' \in Seq(Jobs)
         /\ Len(chain') = Len(chain) + 1
         /\ chain'[Len(chain) + 1].op = op /\ chain'[Len(chain) + 1].who = who
         /\ \A i \in 1 .. Len(chain) : chain'[i] = chain[i]
         /\ chain # <<>> => chain' # <<>> /\ Head(chain') = Head(chain)
<1>1. PICK first, last :
        chain' = Append(chain, [op |-> op, who |-> who, first |-> first,
                                last |-> last])
  BY DEF Queues
<1> DEFINE job == [op |-> op, who |-> who, first |-> first, last |-> last]
<1>2. PICK Jobs : chain \in Seq(Jobs)
  BY DEF Formed
<1>3. chain \in Seq(Jobs \cup {job})
  BY <1>2
<1>4. chain' \in Seq(Jobs \cup {job})
  BY <1>1, <1>3
<1>5. Len(chain') = Len(chain) + 1 /\ chain'[Len(chain) + 1] = job
  BY <1>1, <1>3
<1>6. \A i \in 1 .. Len(chain) : chain'[i] = chain[i]
  BY <1>1, <1>3
<1>7. chain # <<>> => chain' # <<>> /\ Head(chain') = Head(chain)
  BY <1>3, <1>4, <1>5, <1>6
<1> QED
  BY <1>4, <1>5, <1>6, <1>7

\* The operation that ends was first, the others move up.
LEMMA FinishEffect ==
  ASSUME Formed, Finishes
  PROVE  /\ \E Jobs : chain' \in Seq(Jobs)
         /\ Len(chain) \in Nat \ {0} /\ Len(chain') = Len(chain) - 1
         /\ \A i \in 1 .. Len(chain') : chain'[i] = chain[i + 1]
         /\ Head(chain) = chain[1]
<1>1. PICK Jobs : chain \in Seq(Jobs)
  BY DEF Formed
<1> QED
  BY <1>1 DEF Finishes

\* What a caller may do without breaking its bond to an operation: keep its
\* place, be called away from a commit, or move when it has none.
Free(c) == caller[c].at \notin {"check", "commit", "append", "gone"}
Bound(c) == \/ caller'[c].at = caller[c].at
            \/ caller[c].at = "commit" /\ caller'[c].at = "gone"
            \/ Free(c)

ChainStep ==
  \/ UNCHANGED chain /\ \A c \in Callers : Bound(c)
  \/ /\ Finishes
     /\ \A c \in Callers : Bound(c) \/ (Head(chain).op \in Own
                                        /\ c = Head(chain).who)
  \/ \E op, who :
       /\ Queues(op, who)
       /\ op \in Own => /\ who \in Callers /\ Free(who)
                        /\ Awaits(op, caller'[who].at)
       /\ \A c \in Callers : Bound(c)

\* The bonds between callers and operations survive such a step.
LEMMA ChainKept ==
  ASSUME Formed, ChainOK, ChainStep
  PROVE  ChainOK' /\ \E Jobs : chain' \in Seq(Jobs)
<1>1. CASE UNCHANGED chain /\ \A c \in Callers : Bound(c)
  BY <1>1 DEF ChainOK, Awaits, Own, Bound, Free, Formed
<1>2. CASE /\ Finishes
           /\ \A c \in Callers : Bound(c) \/ (Head(chain).op \in Own
                                              /\ c = Head(chain).who)
  <2>1. ASSUME NEW i \in 1 .. Len(chain'), chain'[i].op \in Own
        PROVE  /\ chain'[i].who \in Callers
               /\ Awaits(chain'[i].op, caller'[chain'[i].who].at)
    <3>1. /\ i + 1 \in 1 .. Len(chain) /\ chain'[i] = chain[i + 1]
          /\ 1 \in 1 .. Len(chain) /\ i + 1 # 1
      BY <1>2, FinishEffect
    <3>2. /\ chain[i + 1].who \in Callers
          /\ Awaits(chain[i + 1].op, caller[chain[i + 1].who].at)
      BY <2>1, <3>1 DEF ChainOK
    <3>3. Bound(chain[i + 1].who)
      BY <1>2, <2>1, <3>1, <3>2, FinishEffect DEF ChainOK
    <3> QED
      BY <2>1, <3>1, <3>2, <3>3 DEF Bound, Free, Awaits, Own
  <2>2. \A i, j \in 1 .. Len(chain') :
          /\ chain'[i].op \in Own /\ chain'[j].op \in Own
          /\ chain'[i].who = chain'[j].who
          => i = j
    <3>1. \A i \in 1 .. Len(chain') :
            i + 1 \in 1 .. Len(chain) /\ chain'[i] = chain[i + 1]
      BY <1>2, FinishEffect
    <3> QED
      BY <3>1 DEF ChainOK
  <2> QED
    BY <1>2, <2>1, <2>2, FinishEffect DEF ChainOK
<1>3. ASSUME NEW op, NEW who, Queues(op, who),
             op \in Own => /\ who \in Callers /\ Free(who)
                           /\ Awaits(op, caller'[who].at),
             \A c \in Callers : Bound(c)
      PROVE  ChainOK' /\ \E Jobs : chain' \in Seq(Jobs)
  <2> DEFINE n == Len(chain)
  <2>1. /\ n \in Nat /\ Len(chain') = n + 1
        /\ chain'[n + 1].op = op /\ chain'[n + 1].who = who
        /\ \A i \in 1 .. n : chain'[i] = chain[i]
    BY <1>3, QueueEffect DEF Formed
  <2>2. \A i \in 1 .. n : chain[i].op \in Own =>
          /\ chain[i].who \in Callers
          /\ Awaits(chain[i].op, caller[chain[i].who].at)
          /\ Awaits(chain[i].op, caller'[chain[i].who].at)
          /\ ~Free(chain[i].who)
    BY <1>3 DEF ChainOK, Awaits, Own, Bound, Free
  <2>3. \A i \in 1 .. n + 1 : i \in 1 .. n \/ i = n + 1
    BY <2>1
  <2>4. \A i \in 1 .. Len(chain') :
          chain'[i].op \in Own =>
            /\ chain'[i].who \in Callers
            /\ Awaits(chain'[i].op, caller'[chain'[i].who].at)
    BY <1>3, <2>1, <2>2, <2>3
  <2>5. \A i, j \in 1 .. Len(chain') :
          /\ chain'[i].op \in Own /\ chain'[j].op \in Own
          /\ chain'[i].who = chain'[j].who
          => i = j
    BY <1>3, <2>1, <2>2, <2>3 DEF ChainOK
  <2> QED
    BY <1>3, <2>4, <2>5, QueueEffect DEF ChainOK
<1> QED
  BY <1>1, <1>2, <1>3 DEF ChainStep
-----------------------------------------------------------------------------
(***************************************************************************)
(* How a step moves the pool and the running operation.                    *)
(***************************************************************************)
\* Nobody gains or loses an exclusive entry.
PoolRests ==
  /\ UNCHANGED entry
  /\ entry.phase # "none" => current' \in {current, nobody}
  /\ \A c \in Callers : /\ Commits(c)' = Commits(c) /\ Reserves(c)' = Reserves(c)
                        /\ caller'[c].same =>
                             caller[c].same \/ entry.phase # "none"
                        /\ Reserves(c) => caller'[c].same

\* The entry goes and everybody who shared it knows.
PoolEmpties ==
  entry' = NoEntry /\ \A c \in Callers : ~caller'[c].same /\ ~Reserves(c)'

\* It is being read or ready, so nobody has it alone.
PoolOpens ==
  /\ entry'.phase \in {"loading", "ready"} /\ current' = nobody
  /\ \A c \in Callers : ~Commits(c)' /\ ~Reserves(c)'

\* One caller has it alone.
PoolCloses ==
  /\ current' = nobody
  /\ \E c \in Callers :
       /\ \A d \in Callers \ {c} : ~Commits(d)' /\ ~Reserves(d)'
       /\ \/ entry'.phase = "committing" /\ Commits(c)'
          \/ entry'.phase = "reserved" /\ Reserves(c)' /\ caller'[c].same

PoolStep == PoolRests \/ PoolEmpties \/ PoolOpens \/ PoolCloses

\* Each of these keeps one holder for an exclusive entry.
LEMMA PoolKept ==
  ASSUME Formed, PoolOK, PoolStep PROVE PoolOK'
<1>1. CASE PoolRests
  BY <1>1 DEF PoolOK, PoolRests, Formed
<1>2. CASE PoolEmpties
  BY <1>2 DEF PoolOK, PoolEmpties, NoEntry, Commits, Reserves
<1>3. CASE PoolOpens
  BY <1>3 DEF PoolOK, PoolOpens
<1>4. CASE PoolCloses
  <2>1. PICK c \in Callers :
          /\ \A d \in Callers \ {c} : ~Commits(d)' /\ ~Reserves(d)'
          /\ \/ entry'.phase = "committing" /\ Commits(c)'
             \/ entry'.phase = "reserved" /\ Reserves(c)' /\ caller'[c].same
    BY <1>4 DEF PoolCloses
  <2> QED
    BY <1>4, <2>1 DEF PoolOK, PoolCloses, Commits, Reserves
<1> QED
  BY <1>1, <1>2, <1>3, <1>4 DEF PoolStep

\* The running operation ends; or it stays where it is, while its caller does
\* and nothing becomes reserved; or it moves on.
TaskStep ==
  \/ Finishes /\ task' = AtStart
  \/ /\ task' = task
     /\ UNCHANGED chain \/ \E op, who : Queues(op, who)
     /\ Running("commit") /\ task.step # "start" =>
          caller'[Head(chain).who].at = caller[Head(chain).who].at
     /\ entry'.phase = "reserved" => entry.phase = "reserved"
  \/ /\ chain # <<>> /\ UNCHANGED chain
     /\ task' = [step |-> task'.step, source |-> task'.source]
     /\ Running("commit") => caller'[Head(chain).who].at = "commit"
     /\ Running("append") => entry'.phase # "reserved"

\* What is known of the running operation stays true.
LEMMA TaskKept ==
  ASSUME Formed, TaskOK, TaskStep
  PROVE  TaskOK' /\ task' = [step |-> task'.step, source |-> task'.source]
<1>1. CASE Finishes /\ task' = AtStart
  BY <1>1 DEF TaskOK, AtStart
<1>2. ASSUME task' = task, UNCHANGED chain \/ \E op, who : Queues(op, who),
             Running("commit") /\ task.step # "start" =>
               caller'[Head(chain).who].at = caller[Head(chain).who].at,
             entry'.phase = "reserved" => entry.phase = "reserved"
      PROVE  TaskOK' /\ task' = [step |-> task'.step, source |-> task'.source]
  <2>1. chain # <<>> => chain' # <<>> /\ Head(chain') = Head(chain)
    BY <1>2, QueueEffect
  <2>2. task' = [step |-> task'.step, source |-> task'.source]
    BY <1>2 DEF Formed
  <2>3. CASE chain = <<>>
    BY <1>2, <2>2, <2>3 DEF TaskOK, AtStart
  <2>4. CASE chain # <<>>
    BY <1>2, <2>1, <2>2, <2>4 DEF TaskOK, Running
  <2> QED
    BY <2>3, <2>4
<1>3. ASSUME chain # <<>>, UNCHANGED chain,
             task' = [step |-> task'.step, source |-> task'.source],
             Running("commit") => caller'[Head(chain).who].at = "commit",
             Running("append") => entry'.phase # "reserved"
      PROVE  TaskOK'
  BY <1>3 DEF TaskOK, Running
<1> QED
  BY <1>1, <1>2, <1>3 DEF TaskStep

\* The records of callers and pool keep their fields.
RecordsStep ==
  /\ caller' = [c \in Callers |-> caller'[c]]
  /\ \A c \in Callers : Fields(caller'[c])
  /\ entry' = [phase |-> entry'.phase, source |-> entry'.source,
               loader |-> entry'.loader]
  /\ entry'.phase \in Phases
  /\ entry'.phase = "none" => entry' = NoEntry

\* A step described in these four ways preserves the invariant.
LEMMA StepKept ==
  ASSUME IInv, RecordsStep, PoolStep, ChainStep, TaskStep PROVE IInv'
BY ChainKept, PoolKept, TaskKept DEF IInv, Formed, RecordsStep, Fields
-----------------------------------------------------------------------------
(***************************************************************************)
(* The callers' records.                                                   *)
(***************************************************************************)
Well(callers) == /\ callers = [c \in Callers |-> callers[c]]
                 /\ \A c \in Callers : Fields(callers[c])

\* Removing an entry takes it from everybody and moves nobody.
LEMMA ForgottenWell ==
  ASSUME Formed
  PROVE  /\ Well(caller) /\ Well(Forgotten)
         /\ \A c \in Callers :
              ~Forgotten[c].same /\ Forgotten[c].at = caller[c].at
<1>1. Well(caller)
  BY DEF Well, Formed
<1>2. ASSUME NEW c \in Callers
      PROVE  /\ Fields(Forgotten[c]) /\ ~Forgotten[c].same
             /\ Forgotten[c].at = caller[c].at
  <2> DEFINE r == caller[c]
             s == [r EXCEPT !.same = FALSE]
  <2>1. Fields(r)
    BY DEF Formed
  <2>2. /\ s.at = r.at /\ s.op = r.op /\ s.awaits = r.awaits /\ s.same = FALSE
        /\ s.loader = r.loader /\ s.source = r.source
        /\ s.aborted = r.aborted /\ s.floor = r.floor
    BY <2>1 DEF Fields
  <2>3. Fields(s) /\ ~s.same /\ s.at = r.at
    BY <2>1, <2>2 DEF Fields
  <2> QED
    BY <2>3 DEF Forgotten
<1>3. Forgotten = [c \in Callers |-> Forgotten[c]]
  BY DEF Forgotten
<1> QED
  BY <1>1, <1>2, <1>3 DEF Well

\* A caller that leaves an operation holds nothing; the others stay.
LEMMA LeaveWell ==
  ASSUME NEW callers, Well(callers), NEW k \in Callers, NEW left,
         left \in {Returned(k, callers), Gone(k, callers), Again(k, callers)}
  PROVE  /\ Well(left) /\ ~left[k].same
         /\ left[k].at \in {"outside", "gone", "retirement"}
         /\ \A c \in Callers \ {k} : left[c] = callers[c]
<1>1. CASE left = Returned(k, callers)
  BY <1>1 DEF Well, Returned, Outside, Fields, Places
<1>2. CASE left = Gone(k, callers)
  BY <1>2 DEF Well, Gone, Outside, Fields, Places
<1>3. CASE left = Again(k, callers)
  <2>1. CASE caller[k].aborted
    BY <1>2, <1>3, <2>1 DEF Again, Well, Gone, Outside, Fields, Places
  <2>2. CASE ~caller[k].aborted
    BY <1>3, <2>2 DEF Again, Well, Outside, Fields, Places
  <2> QED
    BY <2>1, <2>2
<1> QED
  BY <1>1, <1>2, <1>3

\* Nobody has alone what is not being committed or reserved.
LEMMA Unheld ==
  ASSUME PoolOK
  PROVE  /\ entry.phase # "committing" => \A c \in Callers : ~Commits(c)
         /\ entry.phase # "reserved" => \A c \in Callers : ~Reserves(c)
         /\ Exclusive <=> \E c \in Callers : Commits(c) \/ Reserves(c)
BY DEF PoolOK, Exclusive

\* Callers and pool are left alone, and no session is published over an entry.
LEMMA RestStep ==
  ASSUME IInv, UNCHANGED <<caller, entry>>,
         entry.phase # "none" => current' \in {current, nobody}
  PROVE  RecordsStep /\ PoolStep /\ \A c \in Callers : Bound(c)
<1>1. RecordsStep
  BY DEF IInv, Formed, RecordsStep, Fields
<1>2. PoolRests
  BY DEF IInv, PoolOK, PoolRests, Commits, Reserves
<1> QED
  BY <1>1, <1>2 DEF PoolStep, Bound

\* The entry is removed while nobody has it alone, and no caller moves.
LEMMA RemoveStep ==
  ASSUME IInv, ~Exclusive, remove, caller' = Forgotten
  PROVE  RecordsStep /\ PoolStep /\ \A c \in Callers : Bound(c)
<1>1. RecordsStep
  BY ForgottenWell
  DEF IInv, Formed, RecordsStep, Well, remove, NoEntry, NoSource, Phases
<1>2. PoolEmpties
  BY ForgottenWell, Unheld DEF IInv, PoolEmpties, remove, Reserves
<1> QED
  BY <1>1, <1>2, ForgottenWell DEF IInv, PoolStep, Bound

(***************************************************************************)
(* The start, and the actions that leave callers and pool alone.           *)
(***************************************************************************)
\* A session starts in the invariant.
LEMMA InitInv == Init => IInv
<1> SUFFICES ASSUME Init PROVE IInv
  OBVIOUS
<1>1. /\ \A c \in Callers : caller[c] = Outside
      /\ caller = [c \in Callers |-> caller[c]]
      /\ entry = NoEntry /\ task = AtStart
  BY DEF Init
<1>2. \/ chain = <<>>
      \/ \E last : chain = <<[op |-> "created", who |-> 1, first |-> 1,
                              last |-> last]>>
  BY DEF Init
<1>3. \E Jobs : chain \in Seq(Jobs)
  <2>1. CASE chain = <<>>
    BY <2>1
  <2>2. ASSUME NEW last,
               chain = <<[op |-> "created", who |-> 1, first |-> 1,
                          last |-> last]>>
        PROVE  \E Jobs : chain \in Seq(Jobs)
    <3>1. chain \in Seq({[op |-> "created", who |-> 1, first |-> 1,
                          last |-> last]})
      BY <2>2
    <3> QED
      BY <3>1
  <2> QED
    BY <1>2, <2>1, <2>2
<1>4. Formed
  <2>1. \A c \in Callers : Fields(caller[c])
    <3>1. Fields(Outside)
      BY DEF Fields, Outside, Places
    <3> QED
      BY <1>1, <3>1
  <2>2. /\ entry = [phase |-> entry.phase, source |-> entry.source,
                    loader |-> entry.loader]
        /\ entry.phase \in Phases /\ (entry.phase = "none" => entry = NoEntry)
    BY <1>1 DEF NoEntry, Phases
  <2>3. task = [step |-> task.step, source |-> task.source]
    BY <1>1 DEF AtStart
  <2> QED
    BY <1>1, <1>3, <2>1, <2>2, <2>3 DEF Formed
<1>5. PoolOK
  BY <1>1 DEF PoolOK, Commits, Reserves, Outside, NoEntry
<1>6. ChainOK
  BY <1>2 DEF ChainOK, Own
<1>7. TaskOK
  BY <1>1 DEF TaskOK, AtStart
<1> QED
  BY <1>4, <1>5, <1>6, <1>7 DEF IInv
\* A running operation that only moves on.
Advances ==
  /\ chain # <<>> /\ UNCHANGED chain
  /\ task' = [step |-> task'.step, source |-> task'.source]
  /\ Running("commit") => caller[Head(chain).who].at = "commit"
  /\ Running("append") => entry.phase # "reserved"

\* A step that leaves callers and pool alone preserves the invariant.
LEMMA QuietStep ==
  ASSUME IInv, UNCHANGED <<caller, entry>>,
         entry.phase # "none" => current' \in {current, nobody},
         \/ chain # <<>> /\ Finish
         \/ task' = task /\ UNCHANGED chain
         \/ task' = task /\ \E op, who : op \notin Own /\ Queues(op, who)
         \/ Advances
  PROVE  IInv'
<1>1. RecordsStep /\ PoolStep /\ \A c \in Callers : Bound(c)
  BY RestStep
<1>2. ChainStep
  BY <1>1 DEF ChainStep, Finish, Finishes, Advances
<1>3. TaskStep
  BY DEF TaskStep, Finish, Finishes, Advances
<1> QED
  BY <1>1, <1>2, <1>3, StepKept

\* Sessions that record, write and are disposed of queue at most what is
\* nobody's own.
LEMMA LivesKeep ==
  ASSUME IInv, \/ Record \/ Dispose \/ Foreign
               \/ \E s \in Lives : Write(s) \/ Flushed(s)
               \/ \E n \in 0 .. 1 : Create(n)
  PROVE  IInv'
<1> DEFINE Quiet == /\ UNCHANGED <<caller, entry, task>>
                    /\ entry.phase # "none" => current' \in {current, nobody}
                    /\ \/ UNCHANGED chain
                       \/ \E op, who : op \notin Own /\ Queues(op, who)
<1>1. ASSUME Record \/ Dispose \/ Foreign PROVE Quiet
  BY <1>1 DEF Record, Dispose, Foreign
<1>2. ASSUME NEW s \in Lives, Write(s) PROVE Quiet
  <2>1. Queues("batch", s)
    BY <1>2 DEF Write, serialize, Queues
  <2> QED
    BY <1>2, <2>1 DEF Write, Own
<1>3. ASSUME NEW s \in Lives, Flushed(s) PROVE Quiet
  <2>1. UNCHANGED chain \/ Queues("release", s)
    BY <1>3 DEF Flushed, serialize, Queues
  <2> QED
    BY <1>3, <2>1 DEF Flushed, Own
<1>4. ASSUME NEW n \in 0 .. 1, Create(n) PROVE Quiet
  <2>1. Queues("created", born + 1)
    BY <1>4 DEF Create, serialize, Queues
  <2> QED
    BY <1>4, <2>1 DEF Create, Own, NoEntry
<1>5. Quiet
  BY <1>1, <1>2, <1>3, <1>4
<1> QED
  BY <1>5, QuietStep

\* What has started goes on with its caller, or with nothing reserved.
LEMMA RunsOn ==
  ASSUME IInv, task.step # "start"
  PROVE  /\ chain # <<>>
         /\ Running("commit") => caller[Head(chain).who].at = "commit"
         /\ Running("append") => entry.phase # "reserved"
BY DEF IInv, TaskOK, AtStart

\* Each step of commitPrepared is an edited record.
LEMMA CommitMoves ==
  ASSUME NEW source, commitPrepared(source)
  PROVE  task' = [step |-> task'.step, source |-> task'.source]
BY DEF commitPrepared, AtStart

\* Moving on is an edited record too.
LEMMA StepMoves ==
  ASSUME IInv, NEW step, Step(step)
  PROVE  /\ task' = [step |-> task'.step, source |-> task'.source]
         /\ UNCHANGED chain
BY DEF IInv, Formed, Step

\* A release ends, and initialization binds, waits or collides.
LEMMA OwnersKeep ==
  ASSUME IInv, retireCore \/ onCreated
  PROVE  IInv'
<1>1. UNCHANGED <<caller, entry, current>> /\ chain # <<>>
  BY DEF retireCore, onCreated, Running
<1>2. CASE retireCore
  BY <1>1, <1>2, QuietStep DEF retireCore
<1>3. CASE onCreated
  <2>1. Running("created")
    BY <1>3 DEF onCreated
  <2>2. ASSUME NEW s, NEW cursor, NEW mat, NEW last, Binds(s, cursor, mat, last)
        PROVE  Finish \/ Advances
    BY <1>1, <2>1, <2>2, StepMoves DEF Binds, Advances, Running
  <2>3. ASSUME NEW s, NEW seed, adoptLivePrefix(s, seed)
        PROVE  Finish \/ Advances
    <3>1. \/ Finish
          \/ \E cursor, mat, last : Binds(s, cursor, mat, last)
          \/ /\ task' = [step |-> "truncate", source |-> stored]
             /\ UNCHANGED chain
      BY <2>3 DEF adoptLivePrefix, Collides
    <3> QED
      BY <1>1, <2>1, <2>2, <3>1 DEF Advances, Running
  <2>4. Finish \/ Advances
    BY <1>3, <2>2, <2>3 DEF onCreated, Collides
  <2> QED
    BY <1>1, <2>4, QuietStep
<1> QED
  BY <1>2, <1>3
(***************************************************************************)
(* The operations of the chain.                                            *)
(***************************************************************************)
\* The first operation, when it is a caller's own, knows its caller.
LEMMA HeadOwn ==
  ASSUME IInv, NEW op \in Own, Running(op)
  PROVE  /\ chain # <<>> /\ Head(chain).op = op /\ Head(chain).who \in Callers
         /\ Awaits(op, caller[Head(chain).who].at)
<1>1. PICK Jobs : chain \in Seq(Jobs)
  BY DEF IInv, Formed
<1>2. chain # <<>> /\ Head(chain) = chain[1] /\ 1 \in 1 .. Len(chain)
  BY <1>1 DEF Running
<1> QED
  BY <1>2 DEF IInv, ChainOK, Running

\* A caller that ends nothing exclusive leaves, and the pool stays.
LEMMA LeaveStep ==
  ASSUME IInv, NEW k \in Callers, ~Commits(k), ~Reserves(k), UNCHANGED entry,
         entry.phase # "none" => current' \in {current, nobody},
         caller' \in {Returned(k, caller), Gone(k, caller), Again(k, caller)}
  PROVE  /\ RecordsStep /\ PoolStep
         /\ \A c \in Callers \ {k} : caller'[c] = caller[c] /\ Bound(c)
<1>1. /\ Well(caller') /\ ~caller'[k].same
      /\ caller'[k].at \in {"outside", "gone", "retirement"}
      /\ \A c \in Callers \ {k} : caller'[c] = caller[c]
  BY LeaveWell, ForgottenWell DEF IInv
<1>2. RecordsStep
  BY <1>1 DEF IInv, Formed, RecordsStep, Well
<1>3. PoolRests
  BY <1>1 DEF IInv, PoolOK, PoolRests, Commits, Reserves
<1> QED
  BY <1>1, <1>2, <1>3 DEF PoolStep, Bound

\* A caller leaves and the entry goes, which nobody else has reserved.
LEMMA RemoveLeaveStep ==
  ASSUME IInv, NEW k \in Callers, remove,
         \A c \in Callers \ {k} : ~Reserves(c),
         caller' \in {Returned(k, Forgotten), Gone(k, Forgotten),
                      Again(k, Forgotten)}
  PROVE  /\ RecordsStep /\ PoolStep
         /\ \A c \in Callers \ {k} : caller'[c].at = caller[c].at /\ Bound(c)
<1>1. /\ Well(caller') /\ ~caller'[k].same
      /\ caller'[k].at \in {"outside", "gone", "retirement"}
      /\ \A c \in Callers \ {k} : caller'[c] = Forgotten[c]
  BY LeaveWell, ForgottenWell DEF IInv
<1>2. \A c \in Callers \ {k} : caller'[c].at = caller[c].at /\ ~caller'[c].same
  BY <1>1, ForgottenWell DEF IInv
<1>3. RecordsStep
  BY <1>1 DEF IInv, Formed, RecordsStep, Well, remove, NoEntry, Phases
<1>4. PoolEmpties
  BY <1>1, <1>2 DEF PoolEmpties, remove, Reserves
<1> QED
  BY <1>2, <1>3, <1>4 DEF PoolStep, Bound

\* An operation of the caller itself, and the caller, end together.
LEMMA EndsWithCaller ==
  ASSUME IInv, RecordsStep, PoolStep, Finish, chain # <<>>,
         Head(chain).op \in Own,
         \A c \in Callers \ {Head(chain).who} : Bound(c)
  PROVE  IInv'
<1>1. ChainStep /\ TaskStep
  BY DEF ChainStep, TaskStep, Finish, Finishes
<1> QED
  BY <1>1, StepKept

\* A session's own write takes the entry along when it stores anything.
LEMMA WritesKeep ==
  ASSUME IInv, appendLiveBatch \/ AppendSeed
  PROVE  IInv'
<1>1. chain # <<>> /\ Finish /\ UNCHANGED current
  BY DEF appendLiveBatch, AppendSeed, Running
<1>2. \/ UNCHANGED <<entry, caller>>
      \/ ~Exclusive /\ remove /\ caller' = Forgotten
  BY DEF appendLiveBatch, AppendSeed, Accepts, Stores
<1>3. CASE UNCHANGED <<entry, caller>>
  BY <1>1, <1>3, QuietStep
<1>4. CASE ~Exclusive /\ remove /\ caller' = Forgotten
  <2>1. RecordsStep /\ PoolStep /\ \A c \in Callers : Bound(c)
    BY <1>4, RemoveStep
  <2>2. ChainStep /\ TaskStep
    BY <1>1, <2>1 DEF ChainStep, TaskStep, Finish, Finishes
  <2> QED
    BY <2>1, <2>2, StepKept
<1> QED
  BY <1>2, <1>3, <1>4

\* An append that fails takes its caller with it.
LEMMA AppendThrowsKeeps ==
  ASSUME IInv, Running("append"), AppendThrows, UNCHANGED current
  PROVE  IInv'
<1>1. /\ chain # <<>> /\ Head(chain).op = "append"
      /\ Head(chain).who \in Callers /\ caller[Head(chain).who].at = "append"
  BY HeadOwn DEF Own, Awaits
<1>2. /\ RecordsStep /\ PoolStep
      /\ \A c \in Callers \ {Head(chain).who} : Bound(c)
  BY <1>1, LeaveStep DEF AppendThrows, Commits, Reserves
<1> QED
  BY <1>1, <1>2, EndsWithCaller DEF AppendThrows, Own

\* A public append starts with nothing reserved, adopts what it needs, and
\* forgets the entry when it is done.
LEMMA AppendsKeep ==
  ASSUME IInv, StartAppend \/ TakeSource \/ Adopt \/ FinishAppend
  PROVE  IInv'
<1>1. /\ Running("append") /\ chain # <<>> /\ ~Running("commit")
      /\ UNCHANGED current
  BY DEF StartAppend, TakeSource, Adopt, FinishAppend, Running
<1>2. ASSUME StartAppend PROVE IInv'
  <2>1. CASE AppendThrows
    BY <1>1, <2>1, AppendThrowsKeeps
  <2>2. ASSUME NEW step, ~Exclusive, Step(step), UNCHANGED <<entry, caller>>
        PROVE  IInv'
    <3>1. Advances
      BY <1>1, <2>2, StepMoves DEF Advances, Exclusive
    <3> QED
      BY <1>1, <2>2, <3>1, QuietStep
  <2> QED
    BY <1>2, <2>1, <2>2 DEF StartAppend
<1>3. ASSUME TakeSource PROVE IInv'
  <2>1. CASE AppendThrows
    BY <1>1, <2>1, AppendThrowsKeeps
  <2>2. ASSUME UNCHANGED <<chain, entry, caller>>,
               task' = [step |-> "adopt", source |-> stored]
        PROVE  IInv'
    <3>1. Advances
      BY <1>1, <1>3, <2>2, RunsOn DEF Advances, TakeSource
    <3> QED
      BY <1>1, <2>2, <3>1, QuietStep
  <2>3. ASSUME entry.phase = "ready", remove, caller' = Forgotten,
               UNCHANGED chain,
               task' = [step |-> "adopt", source |-> entry.source]
        PROVE  IInv'
    <3>1. RecordsStep /\ PoolStep /\ \A c \in Callers : Bound(c)
      BY <2>3, RemoveStep DEF Exclusive
    <3>2. ChainStep /\ TaskStep
      BY <1>1, <2>3, <3>1 DEF ChainStep, TaskStep, remove, NoEntry
    <3> QED
      BY <3>1, <3>2, StepKept
  <2> QED
    BY <1>3, <2>1, <2>2, <2>3 DEF TakeSource
<1>4. ASSUME Adopt PROVE IInv'
  <2>1. CASE AppendThrows
    BY <1>1, <2>1, AppendThrowsKeeps
  <2>2. ASSUME UNCHANGED <<entry, caller>>, task.step # "start",
               \/ commitPrepared(task.source) /\ UNCHANGED chain
               \/ \E step : Step(step)
        PROVE  IInv'
    <3>1. Advances
      BY <1>1, <2>2, RunsOn, StepMoves, CommitMoves DEF Advances
    <3> QED
      BY <1>1, <2>2, <3>1, QuietStep
  <2> QED
    BY <1>4, <2>1, <2>2 DEF Adopt
<1>5. ASSUME FinishAppend PROVE IInv'
  <2>1. CASE AppendThrows
    BY <1>1, <2>1, AppendThrowsKeeps
  <2>2. ASSUME Finish, remove, caller' = Returned(Head(chain).who, Forgotten)
        PROVE  IInv'
    <3>1. /\ Head(chain).op = "append" /\ Head(chain).who \in Callers
      BY <1>1, HeadOwn DEF Own
    <3>2. \A c \in Callers : ~Reserves(c)
      BY <1>1, <1>5, RunsOn, Unheld DEF IInv, FinishAppend
    <3>3. /\ RecordsStep /\ PoolStep
          /\ \A c \in Callers \ {Head(chain).who} : Bound(c)
      BY <2>2, <3>1, <3>2, RemoveLeaveStep
    <3> QED
      BY <1>1, <2>2, <3>1, <3>3, EndsWithCaller DEF Own
  <2> QED
    BY <1>5, <2>1, <2>2 DEF FinishAppend, Stores
<1> QED
  BY <1>2, <1>3, <1>4, <1>5
\* A caller with a commit gives it up, and the entry with it if it still is
\* that of the caller.
LEMMA GiveUpStep ==
  ASSUME IInv, NEW k \in Callers, caller[k].at = "commit", Dropped(k),
         entry.phase # "none" => current' \in {current, nobody},
         caller' \in {Returned(k, Others(k)), Gone(k, Others(k)),
                      Again(k, Others(k))}
  PROVE  /\ RecordsStep /\ PoolStep
         /\ \A c \in Callers \ {k} : caller'[c].at = caller[c].at /\ Bound(c)
<1>1. CASE caller[k].same
  <2>1. \A c \in Callers : ~Reserves(c)
    BY <1>1 DEF IInv, PoolOK, Commits
  <2> QED
    BY <1>1, <2>1, RemoveLeaveStep DEF Dropped, Others
<1>2. CASE ~caller[k].same
  BY <1>2, LeaveStep DEF Dropped, Others, Commits, Reserves
<1>3. caller[k].same \in BOOLEAN
  BY DEF IInv, Formed, Fields
<1> QED
  BY <1>1, <1>2, <1>3

\* A caller that only changes places keeps the rest of its record.
LEMMA PlaceWell ==
  ASSUME IInv, NEW k \in Callers, NEW place \in Places,
         caller' = [caller EXCEPT ![k].at = place]
  PROVE  /\ Well(caller')
         /\ caller'[k].at = place /\ caller'[k].same = caller[k].same
         /\ \A c \in Callers \ {k} : caller'[c] = caller[c]
<1>1. Fields(caller[k])
  BY DEF IInv, Formed
<1>2. /\ Fields([caller[k] EXCEPT !.at = place])
      /\ [caller[k] EXCEPT !.at = place].at = place
      /\ [caller[k] EXCEPT !.at = place].same = caller[k].same
  BY <1>1 DEF Fields
<1>3. /\ caller'[k] = [caller[k] EXCEPT !.at = place]
      /\ \A c \in Callers \ {k} : caller'[c] = caller[c]
      /\ caller' = [c \in Callers |-> caller'[c]]
  BY DEF IInv, Formed
<1>4. \A c \in Callers : Fields(caller'[c])
  BY <1>2, <1>3 DEF IInv, Formed
<1> QED
  BY <1>2, <1>3, <1>4 DEF Well

\* The phase of the entry is all that changes in it.
LEMMA PhaseWell ==
  ASSUME IInv, NEW phase \in Phases \ {"none"},
         entry' = [entry EXCEPT !.phase = phase]
  PROVE  /\ entry'.phase = phase
         /\ entry' = [phase |-> entry'.phase, source |-> entry'.source,
                      loader |-> entry'.loader]
BY DEF IInv, Formed

\* A commit that starts keeps its caller.
LEMMA StartCommitKeeps ==
  ASSUME IInv, StartCommit
  PROVE  IInv'
<1> DEFINE k == Head(chain).who
<1>1. /\ chain # <<>> /\ Head(chain).op = "commit" /\ k \in Callers
      /\ UNCHANGED current /\ Running("commit") /\ ~Running("append")
  BY HeadOwn DEF StartCommit, Own, Running
<1>2. CASE /\ caller[k].at = "commit" /\ commitPrepared(caller[k].source)
           /\ UNCHANGED <<entry, caller, chain>>
  <2>1. Advances
    BY <1>1, <1>2, CommitMoves DEF Advances
  <2> QED
    BY <1>1, <1>2, <2>1, QuietStep
<1>3. CASE caller[k].at = "commit" /\ Throws(k) /\ Finish
  <2>1. RecordsStep /\ PoolStep /\ \A c \in Callers \ {k} : Bound(c)
    BY <1>1, <1>3, GiveUpStep DEF Throws
  <2> QED
    BY <1>1, <1>3, <2>1, EndsWithCaller DEF Own
<1>4. CASE Finish /\ UNCHANGED <<entry, caller>>
  BY <1>1, <1>4, QuietStep
<1> QED
  BY <1>2, <1>3, <1>4 DEF StartCommit

\* A commit ends: reloaded, ready again, or reserved by its caller alone.
LEMMA FinishCommitKeeps ==
  ASSUME IInv, FinishCommit
  PROVE  IInv'
<1> DEFINE k == Head(chain).who
<1>1. /\ chain # <<>> /\ Head(chain).op = "commit" /\ k \in Callers
      /\ UNCHANGED current /\ Finish /\ caller[k].at = "commit"
  BY HeadOwn, RunsOn DEF FinishCommit, Own
<1>2. caller[k].same =>
        /\ entry.phase = "committing" /\ current = nobody
        /\ \A c \in Callers : ~Reserves(c)
        /\ \A c \in Callers \ {k} : ~Commits(c)
  BY <1>1 DEF IInv, PoolOK, Commits
<1> SUFFICES /\ RecordsStep /\ PoolStep
             /\ \A c \in Callers \ {k} : Bound(c)
  BY <1>1, EndsWithCaller DEF Own
<1>3. CASE Undefined(k) \/ Throws(k)
  BY <1>1, <1>3, GiveUpStep DEF Undefined, Throws
<1>4. CASE ~caller[k].same /\ UNCHANGED entry
           /\ caller' \in {Gone(k, caller), Again(k, caller)}
  BY <1>1, <1>4, LeaveStep DEF Commits, Reserves
<1>5. CASE caller[k].same /\ makeReady /\ caller' = Gone(k, caller)
  <2>1. /\ Well(caller') /\ ~caller'[k].same
        /\ caller'[k].at \in {"outside", "gone", "retirement"}
        /\ \A c \in Callers \ {k} : caller'[c] = caller[c]
    BY <1>1, <1>5, LeaveWell, ForgottenWell DEF IInv
  <2>2. /\ entry'.phase = "ready"
        /\ entry' = [phase |-> entry'.phase, source |-> entry'.source,
                     loader |-> entry'.loader]
    BY <1>5, PhaseWell DEF makeReady, Phases
  <2>3. RecordsStep
    BY <2>1, <2>2 DEF RecordsStep, Well, Phases
  <2>4. PoolOpens
    BY <1>1, <1>2, <1>5, <2>1, <2>2 DEF PoolOpens, Commits, Reserves
  <2> QED
    BY <2>1, <2>3, <2>4 DEF PoolStep, Bound
<1>6. CASE /\ caller[k].same /\ current = nobody
           /\ entry' = [entry EXCEPT !.phase = "reserved"]
           /\ caller' = [caller EXCEPT ![k].at = "hold"]
  <2>1. /\ Well(caller') /\ caller'[k].at = "hold" /\ caller'[k].same
        /\ \A c \in Callers \ {k} : caller'[c] = caller[c]
    BY <1>1, <1>6, PlaceWell DEF Places
  <2>2. /\ entry'.phase = "reserved"
        /\ entry' = [phase |-> entry'.phase, source |-> entry'.source,
                     loader |-> entry'.loader]
    BY <1>6, PhaseWell DEF Phases
  <2>3. RecordsStep
    BY <2>1, <2>2 DEF RecordsStep, Well, Phases
  <2>4. PoolCloses
    BY <1>1, <1>2, <1>6, <2>1, <2>2 DEF PoolCloses, Commits, Reserves
  <2> QED
    BY <2>1, <2>3, <2>4 DEF PoolStep, Bound
<1>7. caller[k].same \in BOOLEAN
  BY <1>1 DEF IInv, Formed, Fields
<1> QED
  BY <1>3, <1>4, <1>5, <1>6, <1>7 DEF FinishCommit
\* A repair that fails ends its operation, one that is done moves it on.
LEMMA RepairKeeps ==
  ASSUME IInv, Truncate \/ Close
  PROVE  IInv'
<1> DEFINE k == Head(chain).who
<1>1. /\ task.step # "start" /\ chain # <<>> /\ UNCHANGED current
      /\ Running("commit") => caller[k].at = "commit"
      /\ Running("append") => entry.phase # "reserved"
  <2>1. task.step # "start" /\ UNCHANGED current
    BY DEF Truncate, Close
  <2> QED
    BY <2>1, RunsOn
<1>2. ASSUME NEW step, Step(step), UNCHANGED <<entry, caller>>
      PROVE  IInv'
  <2>1. Advances
    BY <1>1, <1>2, StepMoves DEF Advances
  <2> QED
    BY <1>1, <1>2, <2>1, QuietStep
<1>3. ASSUME NEW log, Repaired(log) PROVE IInv'
  <2>1. CASE Finish /\ UNCHANGED <<entry, caller>>
    BY <1>1, <2>1, QuietStep
  <2> QED
    BY <1>2, <1>3, <2>1 DEF Repaired, Binds
<1>4. ASSUME RepairFails PROVE IInv'
  <2>1. Finish
    BY <1>4 DEF RepairFails
  <2>2. CASE UNCHANGED <<entry, caller>>
    BY <1>1, <2>1, <2>2, QuietStep
  <2>3. CASE Running("commit") /\ Throws(k)
    <3>1. Head(chain).op = "commit" /\ k \in Callers
      BY <2>3, HeadOwn DEF Own
    <3>2. RecordsStep /\ PoolStep /\ \A c \in Callers \ {k} : Bound(c)
      BY <1>1, <2>3, <3>1, GiveUpStep DEF Throws
    <3> QED
      BY <1>1, <2>1, <3>1, <3>2, EndsWithCaller DEF Own
  <2>4. CASE /\ Running("append") /\ caller' = Returned(k, caller)
             /\ UNCHANGED entry
    BY <1>1, <1>4, <2>1, <2>4, AppendThrowsKeeps DEF AppendThrows, RepairFails
  <2> QED
    BY <1>4, <2>2, <2>3, <2>4 DEF RepairFails
<1> QED
  BY <1>2, <1>3, <1>4 DEF Truncate, Close

\* An inspection returns or starts again, and takes only a ready entry along.
LEMMA CheckKeeps ==
  ASSUME IInv, CheckInspected
  PROVE  IInv'
<1> DEFINE k == Head(chain).who
<1>1. /\ chain # <<>> /\ Head(chain).op = "check" /\ k \in Callers
      /\ UNCHANGED current /\ Finish /\ caller[k].at = "check"
  BY HeadOwn DEF CheckInspected, Own, Awaits
<1> SUFFICES /\ RecordsStep /\ PoolStep
             /\ \A c \in Callers \ {k} : Bound(c)
  BY <1>1, EndsWithCaller DEF Own
<1>2. CASE UNCHANGED entry /\ caller' \in {Returned(k, caller), Again(k, caller)}
  BY <1>1, <1>2, LeaveStep DEF Commits, Reserves
<1>3. CASE /\ discardReady(k) = "discarded" /\ remove
           /\ caller' = Again(k, Forgotten)
  <2>1. entry.phase = "ready"
    BY <1>3 DEF discardReady
  <2>2. \A c \in Callers : ~Reserves(c)
    BY <2>1, Unheld DEF IInv
  <2> QED
    BY <1>1, <1>3, <2>2, RemoveLeaveStep
<1> QED
  BY <1>2, <1>3 DEF CheckInspected

\* A caller that shares a read gets what was read.
LEMMA LoadedWell ==
  ASSUME IInv, NEW k \in Callers, caller[k].at = "load", NEW r,
         r = [caller[k] EXCEPT !.at = "loaded", !.loader = nobody,
                               !.source = stored]
  PROVE  Fields(r) /\ r.at = "loaded" /\ r.same = caller[k].same
<1>1. Fields(caller[k])
  BY DEF IInv, Formed
<1> QED
  BY <1>1 DEF Fields, Places

\* A read makes its own entry ready or removes it, and serves who shares it.
LEMMA LoadKeeps ==
  ASSUME IInv, prepareCore
  PROVE  IInv'
<1> DEFINE k == Head(chain).who
           mine == entry.phase = "loading" /\ entry.loader = k
           waiting(c) == caller[c].at = "load" /\ caller[c].loader = k
           loaded(c) == [caller[c] EXCEPT !.at = "loaded", !.loader = nobody,
                                          !.source = stored]
<1>1. chain # <<>> /\ Finish /\ UNCHANGED current
  BY DEF prepareCore, Running
<1>2. /\ mine => current = nobody
      /\ mine => \A c \in Callers : ~Commits(c) /\ ~Reserves(c)
  BY Unheld DEF IInv, PoolOK
<1>3. \A c \in Callers : waiting(c) =>
        /\ Fields(loaded(c)) /\ loaded(c).at = "loaded"
        /\ loaded(c).same = caller[c].same
  BY LoadedWell
<1>4. SUFFICES RecordsStep /\ PoolStep /\ \A c \in Callers : Bound(c)
  <2>1. ASSUME RecordsStep, PoolStep, \A c \in Callers : Bound(c)
        PROVE  ChainStep /\ TaskStep
    BY <1>1, <2>1 DEF ChainStep, TaskStep, Finish, Finishes
  <2> QED
    BY <2>1, StepKept
<1>5. CASE /\ IF mine THEN entry' = [NoEntry EXCEPT !.phase = "ready",
                                                    !.source = stored]
              ELSE UNCHANGED entry
           /\ caller' = [c \in Callers |->
                IF waiting(c) THEN loaded(c) ELSE caller[c]]
  <2>1. /\ Well(caller')
        /\ \A c \in Callers :
             /\ \/ caller'[c] = caller[c]
                \/ waiting(c) /\ caller'[c].at = "loaded"
             /\ caller'[c].same = caller[c].same
    <3>1. caller' = [c \in Callers |-> caller'[c]]
      BY <1>5
    <3>2. ASSUME NEW c \in Callers
          PROVE  /\ Fields(caller'[c]) /\ caller'[c].same = caller[c].same
                 /\ \/ caller'[c] = caller[c]
                    \/ waiting(c) /\ caller'[c].at = "loaded"
      <4>1. caller'[c] = IF waiting(c) THEN loaded(c) ELSE caller[c]
        BY <1>5
      <4>2. Fields(caller[c])
        BY DEF IInv, Formed
      <4> HIDE DEF waiting, loaded
      <4> QED
        BY <1>3, <4>1, <4>2
    <3> QED
      BY <3>1, <3>2 DEF Well
  <2>2. CASE mine
    <3>1. /\ entry'.phase = "ready"
          /\ entry' = [phase |-> entry'.phase, source |-> entry'.source,
                       loader |-> entry'.loader]
      BY <1>5, <2>2 DEF NoEntry
    <3>2. PoolOpens
      BY <1>1, <1>2, <2>1, <2>2, <3>1 DEF PoolOpens, Commits, Reserves
    <3> QED
      BY <2>1, <3>1, <3>2 DEF RecordsStep, Well, Phases, PoolStep, Bound, Free
  <2>3. CASE ~mine
    <3>1. PoolRests
      BY <1>1, <1>5, <2>1, <2>3 DEF PoolRests, IInv, PoolOK, Commits, Reserves
    <3> QED
      BY <1>5, <2>1, <2>3, <3>1
      DEF RecordsStep, Well, PoolStep, Bound, Free, IInv, Formed
  <2> QED
    BY <2>2, <2>3
<1>6. CASE /\ IF mine THEN remove ELSE UNCHANGED entry
           /\ caller' = [c \in Callers |->
                IF waiting(c) THEN Outside
                ELSE IF mine THEN Forgotten[c] ELSE caller[c]]
  <2>1. Fields(Outside) /\ Outside.at = "outside" /\ ~Outside.same
    BY DEF Fields, Outside, Places
  <2>2. /\ Well(caller')
        /\ \A c \in Callers :
             /\ \/ waiting(c) /\ caller'[c].at = "outside" /\ ~caller'[c].same
                \/ ~mine /\ caller'[c] = caller[c]
                \/ mine /\ caller'[c].at = caller[c].at /\ ~caller'[c].same
    BY <1>6, <2>1, ForgottenWell DEF Well, IInv, Formed
  <2>3. CASE mine
    <3>1. PoolEmpties
      BY <1>2, <1>6, <2>2, <2>3 DEF PoolEmpties, remove, Reserves
    <3> QED
      BY <1>6, <2>2, <2>3, <3>1
      DEF RecordsStep, Well, PoolStep, Bound, Free, remove, NoEntry, Phases
  <2>4. CASE ~mine
    <3>1. PoolRests
      BY <1>1, <1>6, <2>2, <2>4 DEF PoolRests, IInv, PoolOK, Commits, Reserves
    <3> QED
      BY <1>6, <2>2, <2>4, <3>1
      DEF RecordsStep, Well, PoolStep, Bound, Free, IInv, Formed
  <2> QED
    BY <2>3, <2>4
<1> QED
  BY <1>5, <1>6 DEF prepareCore
-----------------------------------------------------------------------------
(***************************************************************************)
(* The callers.                                                            *)
(***************************************************************************)
\* A caller without an operation moves, and queues its own at most.
LEMMA CallerStep ==
  ASSUME IInv, NEW k \in Callers, Free(k), RecordsStep, PoolStep, task' = task,
         \A c \in Callers \ {k} : caller'[c].at = caller[c].at,
         entry'.phase = "reserved" => entry.phase = "reserved",
         \/ UNCHANGED chain
         \/ \E op, who : /\ Queues(op, who)
                         /\ op \in Own => who = k /\ Awaits(op, caller'[k].at)
  PROVE  IInv'
<1>1. \A c \in Callers : Bound(c)
  BY DEF Bound
<1>2. ChainStep
  BY <1>1 DEF ChainStep
<1>3. Running("commit") /\ task.step # "start" =>
        caller'[Head(chain).who].at = caller[Head(chain).who].at
  BY RunsOn, HeadOwn DEF Own, Free
<1>4. TaskStep
  BY <1>3 DEF TaskStep
<1> QED
  BY <1>2, <1>4, StepKept

\* A caller moves between places where it ends nothing, and may come to share
\* an entry that is there.
LEMMA MoveStep ==
  ASSUME IInv, NEW k \in Callers, Well(caller'), UNCHANGED entry,
         \A c \in Callers \ {k} : caller'[c] = caller[c],
         entry.phase # "none" => current' \in {current, nobody},
         caller[k].at \notin {"commit", "hold"},
         caller'[k].at \notin {"commit", "hold"},
         caller'[k].same => caller[k].same \/ entry.phase # "none"
  PROVE  RecordsStep /\ PoolStep
<1>1. RecordsStep
  BY DEF IInv, Formed, RecordsStep, Well
<1>2. PoolRests
  <2>1. ASSUME NEW c \in Callers
        PROVE  /\ Commits(c)' = Commits(c) /\ Reserves(c)' = Reserves(c)
               /\ caller'[c].same => caller[c].same \/ entry.phase # "none"
               /\ Reserves(c) => caller'[c].same
    <3>1. CASE c = k
      BY <3>1 DEF Commits, Reserves
    <3>2. CASE c # k
      BY <3>2 DEF Commits, Reserves, IInv, PoolOK
    <3> QED
      BY <3>1, <3>2
  <2> QED
    BY <2>1 DEF PoolRests
<1> QED
  BY <1>1, <1>2 DEF PoolStep

\* A caller whose whole record is replaced.
LEMMA RecordWell ==
  ASSUME IInv, NEW k \in Callers, NEW r, Fields(r),
         caller' = [caller EXCEPT ![k] = r]
  PROVE  /\ Well(caller') /\ caller'[k] = r
         /\ \A c \in Callers \ {k} : caller'[c] = caller[c]
<1>1. /\ caller'[k] = r
      /\ \A c \in Callers \ {k} : caller'[c] = caller[c]
      /\ caller' = [c \in Callers |-> caller'[c]]
  BY DEF IInv, Formed
<1>2. \A c \in Callers : Fields(caller'[c])
  BY <1>1 DEF IInv, Formed
<1> QED
  BY <1>1, <1>2 DEF Well

\* A call of the service begins outside.
LEMMA CallsKeep ==
  ASSUME IInv, NEW k \in Callers,
         append(k) \/ \E op \in {"inspect", "prepare"} : Call(k, op)
  PROVE  IInv'
<1>1. ASSUME NEW op, Call(k, op) PROVE IInv'
  <2> DEFINE r == [Outside EXCEPT !.at = "retirement", !.op = op,
                      !.awaits = retirements, !.floor = Len(stored.log)]
  <2>1. Fields(r) /\ r.at = "retirement" /\ ~r.same
    BY DEF Fields, Outside, Places
  <2>2. /\ caller' = [caller EXCEPT ![k] = r] /\ caller[k].at = "outside"
        /\ UNCHANGED <<entry, current, task, chain>>
    BY <1>1 DEF Call
  <2> HIDE DEF r
  <2>3. /\ Well(caller') /\ caller'[k] = r
        /\ \A c \in Callers \ {k} : caller'[c] = caller[c]
    BY <2>1, <2>2, RecordWell
  <2>4. RecordsStep /\ PoolStep
    BY <2>1, <2>2, <2>3, MoveStep
  <2> QED
    BY <2>1, <2>2, <2>3, <2>4, CallerStep DEF Free
<1>2. ASSUME append(k) PROVE IInv'
  <2> DEFINE r == [Outside EXCEPT !.at = "append", !.op = "append"]
  <2>1. Fields(r) /\ r.at = "append" /\ ~r.same
    BY DEF Fields, Outside, Places
  <2>2. /\ caller' = [caller EXCEPT ![k] = r] /\ caller[k].at = "outside"
        /\ UNCHANGED <<entry, current, task>> /\ Queues("append", k)
    BY <1>2 DEF append, serialize, Queues
  <2> HIDE DEF r
  <2>3. /\ Well(caller') /\ caller'[k] = r
        /\ \A c \in Callers \ {k} : caller'[c] = caller[c]
    BY <2>1, <2>2, RecordWell
  <2>4. RecordsStep /\ PoolStep
    BY <2>1, <2>2, <2>3, MoveStep
  <2> QED
    BY <2>1, <2>2, <2>3, <2>4, CallerStep DEF Free, Awaits
<1> QED
  BY <1>1, <1>2

\* A caller enters: it leaves for a live session, shares an entry or reads.
LEMMA EnterKeeps ==
  ASSUME IInv, NEW k \in Callers, Enter(k)
  PROVE  IInv'
<1>1. caller[k].at = "retirement" /\ UNCHANGED <<task, current>> /\ Free(k)
  BY DEF Enter, Free
<1>2. CASE caller' = Returned(k, caller) /\ UNCHANGED <<entry, chain>>
  <2>1. /\ RecordsStep /\ PoolStep
        /\ \A c \in Callers \ {k} : caller'[c] = caller[c]
    BY <1>1, <1>2, LeaveStep DEF Commits, Reserves
  <2> QED
    BY <1>1, <1>2, <2>1, CallerStep
<1>3. CASE current = nobody /\ entryFor(k)
  <2> DEFINE loads == entry = NoEntry \/ entry.phase = "loading"
             r == [caller[k] EXCEPT
                     !.at = IF loads THEN "load" ELSE "loaded", !.same = TRUE,
                     !.awaits = nobody,
                     !.loader = IF loads THEN (IF entry = NoEntry THEN k
                                               ELSE entry.loader) ELSE nobody,
                     !.source = entry.source]
  <2>1. Fields(r) /\ r.at \in {"load", "loaded"} /\ r.same
    <3>1. Fields(caller[k])
      BY DEF IInv, Formed
    <3> QED
      BY <3>1 DEF Fields, Places
  <2>2. caller' = [caller EXCEPT ![k] = r]
    BY <1>3 DEF entryFor, IInv, Formed
  <2> HIDE DEF r
  <2>3. /\ Well(caller') /\ caller'[k] = r
        /\ \A c \in Callers \ {k} : caller'[c] = caller[c]
    BY <2>1, <2>2, RecordWell
  <2>4. CASE entry = NoEntry
    <3>1. /\ entry' = [NoEntry EXCEPT !.phase = "loading", !.loader = k]
          /\ Queues("load", k)
      BY <1>3, <2>4 DEF entryFor, serialize, Queues
    <3>2. /\ entry'.phase = "loading"
          /\ entry' = [phase |-> entry'.phase, source |-> entry'.source,
                       loader |-> entry'.loader]
      BY <3>1 DEF NoEntry
    <3>3. \A c \in Callers : ~Commits(c) /\ ~Reserves(c)
      BY <2>4, Unheld DEF IInv, NoEntry
    <3>4. PoolOpens
      BY <1>1, <1>3, <2>1, <2>3, <3>2, <3>3 DEF PoolOpens, Commits, Reserves
    <3>5. RecordsStep /\ PoolStep
      BY <2>3, <3>2, <3>4 DEF RecordsStep, PoolStep, Well, Phases
    <3> QED
      BY <1>1, <2>3, <3>1, <3>2, <3>5, CallerStep DEF Own
  <2>5. CASE entry # NoEntry
    <3>1. UNCHANGED <<entry, chain>> /\ entry.phase # "none"
      BY <1>3, <2>5 DEF entryFor, IInv, Formed
    <3>2. RecordsStep /\ PoolStep
      BY <1>1, <2>1, <2>3, <3>1, MoveStep
    <3> QED
      BY <1>1, <2>3, <3>1, <3>2, CallerStep
  <2> QED
    BY <2>4, <2>5
<1> QED
  BY <1>2, <1>3 DEF Enter

\* An inspection that has its view returns it to a live session or checks it.
LEMMA InspectKeeps ==
  ASSUME IInv, NEW k \in Callers, Inspect(k)
  PROVE  IInv'
<1>1. /\ caller[k].at = "loaded" /\ UNCHANGED <<entry, task, current>>
      /\ Free(k)
  BY DEF Inspect, Free
<1>2. CASE caller' = Returned(k, caller) /\ UNCHANGED chain
  <2>1. /\ RecordsStep /\ PoolStep
        /\ \A c \in Callers \ {k} : caller'[c] = caller[c]
    BY <1>1, <1>2, LeaveStep DEF Commits, Reserves
  <2> QED
    BY <1>1, <1>2, <2>1, CallerStep
<1>3. CASE /\ caller' = [caller EXCEPT ![k].at = "check"]
           /\ serialize("check", k, 0, 0)
  <2>1. /\ Well(caller')
        /\ caller'[k].at = "check" /\ caller'[k].same = caller[k].same
        /\ \A c \in Callers \ {k} : caller'[c] = caller[c]
    BY <1>3, PlaceWell DEF Places
  <2>2. RecordsStep /\ PoolStep
    BY <1>1, <2>1, MoveStep
  <2>3. Queues("check", k)
    BY <1>3 DEF serialize, Queues
  <2> QED
    BY <1>1, <2>1, <2>2, <2>3, CallerStep DEF Awaits
<1> QED
  BY <1>2, <1>3 DEF Inspect
\* A caller takes a ready entry alone, waits for who has it, or starts again.
LEMMA ReserveKeeps ==
  ASSUME IInv, NEW k \in Callers, reserve(k)
  PROVE  IInv'
<1>1. /\ caller[k].at \in {"loaded", "settled"} /\ UNCHANGED <<task, current>>
      /\ Free(k)
  BY DEF reserve, Free
<1>2. CASE caller' = Again(k, caller) /\ UNCHANGED <<entry, chain>>
  <2>1. /\ RecordsStep /\ PoolStep
        /\ \A c \in Callers \ {k} : caller'[c] = caller[c]
    BY <1>1, <1>2, LeaveStep DEF Commits, Reserves
  <2> QED
    BY <1>1, <1>2, <2>1, CallerStep
<1>3. CASE /\ caller[k].same /\ entry.phase = "ready"
           /\ entry' = [entry EXCEPT !.phase = "committing"]
           /\ caller' = [caller EXCEPT ![k].at = "commit",
                                       ![k].source = entry.source]
           /\ serialize("commit", k, 0, 0)
  <2> DEFINE r == [caller[k] EXCEPT !.at = "commit", !.source = entry.source]
  <2>1. Fields(r) /\ r.at = "commit" /\ r.same
    <3>1. Fields(caller[k])
      BY DEF IInv, Formed
    <3> QED
      BY <1>3, <3>1 DEF Fields, Places
  <2>2. caller' = [caller EXCEPT ![k] = r]
    BY <1>3 DEF IInv, Formed
  <2> HIDE DEF r
  <2>3. /\ Well(caller') /\ caller'[k] = r
        /\ \A c \in Callers \ {k} : caller'[c] = caller[c]
    BY <2>1, <2>2, RecordWell
  <2>4. /\ entry'.phase = "committing"
        /\ entry' = [phase |-> entry'.phase, source |-> entry'.source,
                     loader |-> entry'.loader]
    BY <1>3, PhaseWell DEF Phases
  <2>5. \A c \in Callers : ~Commits(c) /\ ~Reserves(c)
    BY <1>3, Unheld DEF IInv
  <2>6. PoolCloses
    <3>1. current' = nobody
      BY <1>1, <1>3 DEF IInv, PoolOK
    <3>2. Commits(k)'
      BY <2>1, <2>3 DEF Commits
    <3>3. \A c \in Callers \ {k} : ~Commits(c)' /\ ~Reserves(c)'
      BY <2>3, <2>5 DEF Commits, Reserves
    <3> QED
      BY <2>4, <3>1, <3>2, <3>3 DEF PoolCloses
  <2>7. RecordsStep /\ PoolStep
    BY <2>3, <2>4, <2>6 DEF RecordsStep, PoolStep, Well, Phases
  <2>8. Queues("commit", k)
    BY <1>3 DEF serialize, Queues
  <2> QED
    BY <1>1, <2>1, <2>3, <2>4, <2>7, <2>8, CallerStep DEF Awaits
<1>4. CASE /\ caller[k].at = "loaded" /\ UNCHANGED <<entry, chain>>
           /\ caller' = [caller EXCEPT ![k].at = "settled"]
  <2>1. /\ Well(caller')
        /\ caller'[k].at = "settled" /\ caller'[k].same = caller[k].same
        /\ \A c \in Callers \ {k} : caller'[c] = caller[c]
    BY <1>4, PlaceWell DEF Places
  <2>2. RecordsStep /\ PoolStep
    BY <1>1, <1>4, <2>1, MoveStep
  <2> QED
    BY <1>1, <1>4, <2>1, <2>2, CallerStep
<1> QED
  BY <1>2, <1>3, <1>4 DEF reserve

\* The signal calls a caller away from what it waits for, and from a commit
\* that has not started; otherwise it is remembered.
LEMMA AbortKeeps ==
  ASSUME IInv, NEW k \in Callers, Abort(k)
  PROVE  IInv'
<1>1. UNCHANGED <<chain, task, current>>
  BY DEF Abort
<1>2. CASE /\ caller[k].at \in {"retirement", "load", "settled"}
           /\ caller' = Gone(k, caller) /\ UNCHANGED entry
  <2>1. /\ RecordsStep /\ PoolStep
        /\ \A c \in Callers \ {k} : caller'[c] = caller[c]
    BY <1>1, <1>2, LeaveStep DEF Commits, Reserves
  <2> QED
    BY <1>1, <1>2, <2>1, CallerStep DEF Free
<1>3. CASE /\ caller[k].at = "commit"
           /\ ~(Running("commit") /\ Head(chain).who = k /\ task # AtStart)
           /\ Dropped(k) /\ caller' = Gone(k, Others(k))
  <2>1. /\ RecordsStep /\ PoolStep
        /\ \A c \in Callers \ {k} : caller'[c].at = caller[c].at /\ Bound(c)
    BY <1>1, <1>3, GiveUpStep
  <2>2. caller'[k].at = "gone"
    <3>1. k \in DOMAIN Others(k)
      BY DEF Others, Forgotten, IInv, Formed
    <3> QED
      BY <1>3, <3>1 DEF Gone, Outside
  <2>3. ChainStep
    BY <1>1, <1>3, <2>1, <2>2 DEF ChainStep, Bound
  <2>4. Running("commit") /\ task.step # "start" =>
          caller'[Head(chain).who].at = caller[Head(chain).who].at
    BY <1>3, <2>1, HeadOwn DEF Own, AtStart
  <2>5. entry'.phase = "reserved" => entry.phase = "reserved"
    BY <1>3 DEF Dropped, remove, NoEntry
  <2>6. TaskStep
    BY <1>1, <2>4, <2>5 DEF TaskStep
  <2> QED
    BY <2>1, <2>3, <2>6, StepKept
<1>4. CASE caller' = [caller EXCEPT ![k].aborted = TRUE] /\ UNCHANGED entry
  <2> DEFINE r == [caller[k] EXCEPT !.aborted = TRUE]
  <2>1. Fields(r) /\ r.at = caller[k].at /\ r.same = caller[k].same
    <3>1. Fields(caller[k])
      BY DEF IInv, Formed
    <3> QED
      BY <3>1 DEF Fields
  <2>2. caller' = [caller EXCEPT ![k] = r]
    BY <1>4
  <2> HIDE DEF r
  <2>3. /\ Well(caller')
        /\ \A c \in Callers : /\ caller'[c].at = caller[c].at
                              /\ caller'[c].same = caller[c].same
    BY <2>1, <2>2, RecordWell
  <2>4. PoolRests
    BY <1>1, <1>4, <2>3 DEF PoolRests, IInv, PoolOK, Commits, Reserves
  <2>5. RecordsStep
    BY <1>4, <2>3 DEF RecordsStep, Well, IInv, Formed
  <2>6. ChainStep
    BY <1>1, <2>3 DEF ChainStep, Bound
  <2>7. TaskStep
    BY <1>1, <1>4, <2>3, HeadOwn DEF TaskStep, Own
  <2> QED
    BY <2>4, <2>5, <2>6, <2>7, StepKept DEF PoolStep
<1> QED
  BY <1>2, <1>3, <1>4 DEF Abort

\* Who holds the reservation publishes the session or gives it up; either way
\* the reservation is over.
LEMMA HolderKeeps ==
  ASSUME IInv, NEW k \in Callers,
         \/ \E n \in 0 .. 1 : Publish(k, n)
         \/ \E reusable \in BOOLEAN : release(k, reusable)
  PROVE  IInv'
<1>1. caller[k].at = "hold" /\ UNCHANGED task /\ Free(k)
  BY DEF Publish, release, Free
<1>2. /\ entry.phase = "reserved" /\ current = nobody
      /\ \A c \in Callers \ {k} : ~Reserves(c) /\ ~Commits(c)
  BY <1>1 DEF IInv, PoolOK, Reserves, Commits
<1>3. CASE /\ remove /\ caller' = Returned(k, Forgotten)
           /\ UNCHANGED chain \/ \E who : Queues("suffix", who)
  <2>1. /\ RecordsStep /\ PoolStep
        /\ \A c \in Callers \ {k} : caller'[c].at = caller[c].at
    BY <1>2, <1>3, RemoveLeaveStep
  <2>2. entry'.phase # "reserved"
    BY <1>3 DEF remove, NoEntry
  <2> QED
    BY <1>1, <1>3, <2>1, <2>2, CallerStep DEF Own
<1>4. CASE /\ makeReady /\ caller' = Returned(k, caller)
           /\ UNCHANGED <<chain, current>>
  <2>1. /\ Well(caller') /\ ~caller'[k].same
        /\ caller'[k].at \in {"outside", "gone", "retirement"}
        /\ \A c \in Callers \ {k} : caller'[c] = caller[c]
    BY <1>4, LeaveWell, ForgottenWell DEF IInv
  <2>2. /\ entry'.phase = "ready"
        /\ entry' = [phase |-> entry'.phase, source |-> entry'.source,
                     loader |-> entry'.loader]
    BY <1>4, PhaseWell DEF makeReady, Phases
  <2>3. RecordsStep
    BY <2>1, <2>2 DEF RecordsStep, Well, Phases
  <2>4. PoolOpens
    BY <1>2, <1>4, <2>1, <2>2 DEF PoolOpens, Commits, Reserves
  <2> QED
    BY <1>1, <1>4, <2>1, <2>2, <2>3, <2>4, CallerStep DEF PoolStep
<1>5. ASSUME NEW n, Publish(k, n)
      PROVE  /\ remove /\ caller' = Returned(k, Forgotten)
             /\ UNCHANGED chain \/ \E who : Queues("suffix", who)
  <2>1. UNCHANGED chain \/ Queues("suffix", born + 1)
    BY <1>5 DEF Publish, serialize, Queues
  <2> QED
    BY <1>5, <2>1 DEF Publish
<1>6. ASSUME NEW reusable, release(k, reusable)
      PROVE  \/ /\ remove /\ caller' = Returned(k, Forgotten)
                /\ UNCHANGED chain
             \/ /\ makeReady /\ caller' = Returned(k, caller)
                /\ UNCHANGED <<chain, current>>
  BY <1>6 DEF release
<1> QED
  BY <1>3, <1>4, <1>5, <1>6

\* An eviction takes a ready entry from whoever shares it.
LEMMA EvictKeeps ==
  ASSUME IInv, Evict
  PROVE  IInv'
<1>1. RecordsStep /\ PoolStep /\ \A c \in Callers : Bound(c)
  BY RemoveStep DEF Evict, Exclusive
<1>2. UNCHANGED <<chain, task>> /\ entry'.phase # "reserved"
  BY DEF Evict, remove, NoEntry
<1>3. \A c \in Callers : caller'[c].at = caller[c].at
  BY ForgottenWell DEF Evict, IInv
<1>4. ChainStep /\ TaskStep
  BY <1>1, <1>2, <1>3, HeadOwn DEF ChainStep, TaskStep, Own
<1> QED
  BY <1>1, <1>4, StepKept
-----------------------------------------------------------------------------
(***************************************************************************)
(* The theorem.                                                            *)
(***************************************************************************)
\* Every step preserves the invariant.
LEMMA NextInv == IInv /\ [Next]_vars => IInv'
<1> SUFFICES ASSUME IInv, [Next]_vars PROVE IInv'
  OBVIOUS
<1>1. CASE UNCHANGED vars
  BY <1>1, QuietStep DEF vars
<1>2. CASE Serialized
  BY <1>2, LoadKeeps, CheckKeeps, StartCommitKeeps, FinishCommitKeeps,
     OwnersKeep, WritesKeep, AppendsKeep, RepairKeeps DEF Serialized
<1>3. ASSUME NEW c \in Callers, Continues(c) \/ HolderEnds(c) PROVE IInv'
  BY <1>3, EnterKeeps, InspectKeeps, ReserveKeeps, HolderKeeps
  DEF Continues, HolderEnds
<1>4. ASSUME NEW c \in Callers,
             \/ \E op \in {"inspect", "prepare"} : Call(c, op)
             \/ append(c) \/ Abort(c)
      PROVE  IInv'
  BY <1>4, CallsKeep, AbortKeeps
<1>5. CASE \/ Record \/ Dispose \/ Foreign
           \/ \E s \in Lives : Write(s) \/ Flushed(s)
           \/ \E n \in 0 .. 1 : Create(n)
  BY <1>5, LivesKeep
<1>6. CASE Evict
  BY <1>6, EvictKeeps
<1> QED
  BY <1>1, <1>2, <1>3, <1>4, <1>5, <1>6 DEF Next, Progress, Drains

\* For any callers, operations, sessions, events and disturbances: while a
\* preparation is being committed or is reserved exactly one caller is there to
\* end it, through reserve, abort, publish, release and every failing commit or
\* repair; and no preparation is left once a session is published.
THEOREM ReservationsCorrect == Spec => []HasOneHolder
<1>1. IInv => HasOneHolder
  BY DEF IInv, Formed, PoolOK, Commits, Reserves, HasOneHolder, NoEntry
<1> QED
  BY <1>1, InitInv, NextInv, PTL DEF Spec
-----------------------------------------------------------------------------
(***************************************************************************)
(* What the logs and the records of the sessions hold.                     *)
(***************************************************************************)
Happening == [by : Nat, end : BOOLEAN]
Logs      == Seq(Happening)
Files     == [log : Logs, torn : BOOLEAN]
Sourced(callers) == \A c \in Callers : callers[c].source \in Files

SourcesOK == /\ stored \in Files /\ entry.source \in Files /\ task.source \in Files
             /\ Sourced(caller)

\* The empty log, and the logs a Session starts with.
LEMMA SmallLogs ==
  /\ NoSource \in Files /\ <<>> \in Logs
  /\ \A by \in Nat, end \in BOOLEAN : <<Event(by, end)>> \in Logs
  /\ \A s \in Nat, n \in Nat : SessionEvents(s, n) \in Logs /\ Len(SessionEvents(s, n)) = n
<1>1. <<>> \in Logs
  BY DEF Logs
<1>2. NoSource \in Files
  BY <1>1 DEF NoSource, Files
<1>3. ASSUME NEW by \in Nat, NEW end \in BOOLEAN PROVE <<Event(by, end)>> \in Logs
  <2>1. Event(by, end) \in Happening
    BY DEF Event, Happening
  <2> QED
    BY <2>1 DEF Logs
<1>4. ASSUME NEW s \in Nat, NEW n \in Nat
      PROVE  SessionEvents(s, n) \in Logs /\ Len(SessionEvents(s, n)) = n
  <2> DEFINE e == Event(s, FALSE)
             m == [i \in 1 .. n |-> e]
  <2>1. e \in Happening
    BY DEF Event, Happening
  <2>2. m \in [1 .. n -> Happening]
    BY <2>1
  <2>3. m \in Seq(Happening) /\ Len(m) = n
    <3> HIDE DEF m
    <3> QED
      BY <2>2, SeqDef, LenProperties
  <2> QED
    BY <2>3 DEF SessionEvents, Logs
<1> QED
  BY <1>1, <1>2, <1>3, <1>4

\* The closers of a log are a log.
LEMMA ClosersLog ==
  ASSUME NEW log
  PROVE  closers(log) \in Logs
<1>1. nobody \in Nat
  BY DEF nobody
<1> QED
  BY <1>1, SmallLogs DEF closers

\* Removing an entry changes nobody's source.
LEMMA ForgottenSourced ==
  ASSUME Formed, Sourced(caller) PROVE Sourced(Forgotten)
<1>1. ASSUME NEW c \in Callers PROVE Forgotten[c].source = caller[c].source
  BY DEF Forgotten, Formed, Fields
<1> QED
  BY <1>1 DEF Sourced

\* A caller that leaves has the empty source.
LEMMA LeaveSourced ==
  ASSUME NEW callers, Well(callers), Sourced(callers), NEW k \in Callers, NEW left,
         left \in {Returned(k, callers), Gone(k, callers), Again(k, callers)}
  PROVE  Sourced(left)
<1>1. ASSUME NEW r, r.source = NoSource, left = [callers EXCEPT ![k] = r]
      PROVE  Sourced(left)
  BY <1>1, SmallLogs DEF Sourced, Well
<1>2. \E r : r.source = NoSource /\ left = [callers EXCEPT ![k] = r]
  <2>1. Outside.source = NoSource /\ [Outside EXCEPT !.at = "gone"].source = NoSource
    BY DEF Outside
  <2>2. [Outside EXCEPT !.at = "retirement", !.op = caller[k].op,
           !.awaits = retirements, !.floor = caller[k].floor].source = NoSource
    BY DEF Outside
  <2> QED
    BY <2>1, <2>2 DEF Returned, Gone, Again
<1> QED
  BY <1>1, <1>2

\* A caller's new source is one somebody already had.
LEMMA EditSourced ==
  ASSUME SourcesOK,
         \A c \in Callers :
           caller'[c].source \in {caller[c].source, stored, entry.source, NoSource}
  PROVE  Sourced(caller')
BY SmallLogs DEF SourcesOK, Sourced

\* No step gives a caller a source that is not a log.
LEMMA CallersSourced ==
  ASSUME IInv, SourcesOK, [Next]_vars
  PROVE  Sourced(caller')
<1>0. Formed /\ Well(caller) /\ Well(Forgotten) /\ Sourced(caller) /\ Sourced(Forgotten)
  BY ForgottenWell, ForgottenSourced DEF IInv, SourcesOK
<1>1. ASSUME UNCHANGED caller PROVE Sourced(caller')
  BY <1>0, <1>1
<1>2. ASSUME caller' = Forgotten PROVE Sourced(caller')
  BY <1>0, <1>2
<1>3. ASSUME NEW k \in Callers, NEW callers \in {caller, Forgotten},
             caller' \in {Returned(k, callers), Gone(k, callers), Again(k, callers)}
      PROVE  Sourced(caller')
  BY <1>0, <1>3, LeaveSourced
<1>4. ASSUME NEW k \in Callers, Throws(k) \/ Undefined(k) PROVE Sourced(caller')
  BY <1>3, <1>4 DEF Throws, Undefined, Others
<1>5. CASE UNCHANGED vars \/ Record \/ Dispose \/ Foreign \/ retireCore \/ onCreated
  BY <1>1, <1>5 DEF vars, Record, Dispose, Foreign, retireCore, onCreated
<1>6. ASSUME \/ \E s \in Lives : Write(s) \/ Flushed(s)
             \/ \E n \in 0 .. 1 : Create(n)
      PROVE  Sourced(caller')
  BY <1>1, <1>6 DEF Write, Flushed, Create
<1>7. CASE Evict \/ appendLiveBatch \/ AppendSeed
  BY <1>1, <1>2, <1>7 DEF Evict, appendLiveBatch, AppendSeed
<1>8. ASSUME NEW op \in Own, Running(op) PROVE Head(chain).who \in Callers
  BY <1>8, HeadOwn
<1>9. CASE CheckInspected
  BY <1>3, <1>8, <1>9 DEF CheckInspected, Own
<1>10. CASE StartCommit \/ FinishCommit
  <2>1. Running("commit")
    BY <1>10 DEF StartCommit, FinishCommit
  <2>2. Head(chain).who \in Callers
    BY <1>8, <2>1 DEF Own
  <2>3. CASE StartCommit
    BY <1>1, <1>4, <2>2, <2>3 DEF StartCommit
  <2>4. CASE caller' = [caller EXCEPT ![Head(chain).who].at = "hold"]
    <3>1. \A c \in Callers : caller'[c].source = caller[c].source
      BY <1>0, <2>2, <2>4 DEF Formed, Fields
    <3> QED
      BY <3>1, EditSourced
  <2> QED
    BY <1>3, <1>4, <1>10, <2>2, <2>3, <2>4 DEF FinishCommit
<1>11. CASE StartAppend \/ TakeSource \/ Adopt \/ FinishAppend
  <2>1. Running("append")
    BY <1>11 DEF StartAppend, TakeSource, Adopt, FinishAppend
  <2>2. Head(chain).who \in Callers
    BY <1>8, <2>1 DEF Own
  <2> QED
    BY <1>1, <1>2, <1>3, <1>11, <2>2
    DEF StartAppend, TakeSource, Adopt, FinishAppend, AppendThrows
<1>12. CASE Truncate \/ Close
  <2>1. Running("commit") \/ Running("append") => Head(chain).who \in Callers
    BY <1>8 DEF Own
  <2>2. CASE RepairFails
    BY <1>1, <1>3, <1>4, <2>1, <2>2 DEF RepairFails
  <2>3. CASE UNCHANGED caller
    BY <1>1, <2>3
  <2> QED
    BY <1>12, <2>2, <2>3 DEF Truncate, Close, Repaired
<1>13. CASE prepareCore
  <2> DEFINE kk == Head(chain).who
             waiting(c) == caller[c].at = "load" /\ caller[c].loader = kk
             loaded(c) == [caller[c] EXCEPT !.at = "loaded", !.loader = nobody,
                                            !.source = stored]
  <2>1. ASSUME NEW c \in Callers
        PROVE  caller'[c] \in {caller[c], Outside, Forgotten[c], loaded(c)}
    BY <1>13 DEF prepareCore
  <2>2. ASSUME NEW c \in Callers
        PROVE  /\ loaded(c).source = stored /\ Outside.source = NoSource
               /\ Forgotten[c].source = caller[c].source
    BY <1>0 DEF Formed, Fields, Outside, Forgotten
  <2> QED
    BY <2>1, <2>2, EditSourced
<1>14. ASSUME NEW k \in Callers,
              \/ \E op \in {"inspect", "prepare"} : Call(k, op)
              \/ append(k)
       PROVE  Sourced(caller')
  <2>1. \E r : r.source = NoSource /\ caller' = [caller EXCEPT ![k] = r]
    <3>1. ASSUME NEW op, Call(k, op)
          PROVE  \E r : r.source = NoSource /\ caller' = [caller EXCEPT ![k] = r]
      BY <3>1 DEF Call, Outside
    <3>2. CASE append(k)
      BY <3>2 DEF append, Outside
    <3> QED
      BY <1>14, <3>1, <3>2
  <2>2. \A c \in Callers : caller'[c].source \in {caller[c].source, NoSource}
    BY <1>0, <2>1 DEF Formed
  <2> QED
    BY <2>2, EditSourced
<1>15. ASSUME NEW k \in Callers, Abort(k) PROVE Sourced(caller')
  <2>1. CASE caller' = [caller EXCEPT ![k].aborted = TRUE]
    <3>1. \A c \in Callers : caller'[c].source = caller[c].source
      BY <1>0, <2>1 DEF Formed, Fields
    <3> QED
      BY <3>1, EditSourced
  <2> QED
    BY <1>3, <1>15, <2>1 DEF Abort, Others
<1>16. ASSUME NEW k \in Callers, Enter(k) \/ Inspect(k) \/ reserve(k)
       PROVE  Sourced(caller')
  <2>1. ASSUME NEW place, caller' = [caller EXCEPT ![k].at = place]
        PROVE  Sourced(caller')
    <3>1. \A c \in Callers : caller'[c].source = caller[c].source
      BY <1>0, <2>1 DEF Formed, Fields
    <3> QED
      BY <3>1, EditSourced
  <2>2. CASE entryFor(k)
    <3>1. \A c \in Callers : caller'[c].source \in {caller[c].source, entry.source}
      BY <1>0, <2>2 DEF Formed, Fields, entryFor
    <3> QED
      BY <3>1, EditSourced
  <2>3. CASE caller' = [caller EXCEPT ![k].at = "commit", ![k].source = entry.source]
    <3>1. \A c \in Callers : caller'[c].source \in {caller[c].source, entry.source}
      BY <1>0, <2>3 DEF Formed, Fields
    <3> QED
      BY <3>1, EditSourced
  <2> QED
    BY <1>3, <1>16, <2>1, <2>2, <2>3 DEF Enter, Inspect, reserve
<1>17. ASSUME NEW k \in Callers, HolderEnds(k) PROVE Sourced(caller')
  BY <1>3, <1>17 DEF HolderEnds, Publish, release
<1> QED
  BY <1>5, <1>6, <1>7, <1>9, <1>10, <1>11, <1>12, <1>13, <1>14, <1>15, <1>16, <1>17
  DEF Next, Progress, Serialized, Continues, Drains

\* An entry holds the log as it was read.
LEMMA EntrySourced ==
  ASSUME IInv, SourcesOK, [Next]_vars
  PROVE  entry'.source \in Files
<1>1. ASSUME UNCHANGED entry PROVE entry'.source \in Files
  BY <1>1 DEF SourcesOK
<1>2. ASSUME remove PROVE entry'.source \in Files
  BY <1>2, SmallLogs DEF remove, NoEntry
<1>3. ASSUME NEW phase, entry' = [entry EXCEPT !.phase = phase]
      PROVE  entry'.source \in Files
  BY <1>3 DEF IInv, Formed, SourcesOK
<1>4. ASSUME NEW k, Throws(k) \/ Undefined(k) \/ Dropped(k)
      PROVE  entry'.source \in Files
  BY <1>1, <1>2, <1>4 DEF Throws, Undefined, Dropped
<1>5. CASE UNCHANGED vars \/ Record \/ Dispose \/ Foreign \/ retireCore \/ onCreated
  BY <1>1, <1>5 DEF vars, Record, Dispose, Foreign, retireCore, onCreated
<1>6. ASSUME \/ \E s \in Lives : Write(s) \/ Flushed(s)
             \/ \E n \in 0 .. 1 : Create(n)
      PROVE  entry'.source \in Files
  BY <1>1, <1>6 DEF Write, Flushed, Create
<1>7. CASE Evict \/ appendLiveBatch \/ AppendSeed
  BY <1>1, <1>2, <1>7 DEF Evict, appendLiveBatch, AppendSeed, Stores
<1>8. CASE CheckInspected
  BY <1>1, <1>2, <1>8 DEF CheckInspected
<1>9. CASE StartCommit \/ FinishCommit
  BY <1>1, <1>3, <1>4, <1>9 DEF StartCommit, FinishCommit, makeReady
<1>10. CASE StartAppend \/ TakeSource \/ Adopt \/ FinishAppend
  BY <1>1, <1>2, <1>10 DEF StartAppend, TakeSource, Adopt, FinishAppend, AppendThrows,
                           Stores
<1>11. CASE Truncate \/ Close
  BY <1>1, <1>4, <1>11 DEF Truncate, Close, Repaired, RepairFails
<1>12. CASE prepareCore
  <2>1. ASSUME entry' = [NoEntry EXCEPT !.phase = "ready", !.source = stored]
        PROVE  entry'.source \in Files
    BY <2>1 DEF NoEntry, SourcesOK
  <2> QED
    BY <1>1, <1>2, <1>12, <2>1 DEF prepareCore
<1>13. ASSUME NEW k \in Callers, \/ \E op \in {"inspect", "prepare"} : Call(k, op)
                                 \/ append(k) \/ Abort(k)
       PROVE  entry'.source \in Files
  BY <1>1, <1>4, <1>13 DEF Call, append, Abort
<1>14. ASSUME NEW k \in Callers, Enter(k) \/ Inspect(k) \/ reserve(k)
       PROVE  entry'.source \in Files
  <2>1. CASE entryFor(k)
    <3>1. ASSUME NEW j, entry' = [NoEntry EXCEPT !.phase = "loading", !.loader = j]
          PROVE  entry'.source \in Files
      BY <3>1, SmallLogs DEF NoEntry
    <3> QED
      BY <1>1, <2>1, <3>1 DEF entryFor
  <2> QED
    BY <1>1, <1>3, <1>14, <2>1 DEF Enter, Inspect, reserve
<1>15. ASSUME NEW k \in Callers, HolderEnds(k) PROVE entry'.source \in Files
  BY <1>2, <1>3, <1>15 DEF HolderEnds, Publish, release, makeReady
<1> QED
  BY <1>5, <1>6, <1>7, <1>8, <1>9, <1>10, <1>11, <1>12, <1>13, <1>14, <1>15
  DEF Next, Progress, Serialized, Continues, Drains

\* The running operation works on a log somebody read.
LEMMA TaskSourced ==
  ASSUME IInv, SourcesOK, [Next]_vars
  PROVE  task'.source \in Files
<1>1. ASSUME UNCHANGED task PROVE task'.source \in Files
  BY <1>1 DEF SourcesOK
<1>2. ASSUME task' = AtStart PROVE task'.source \in Files
  BY <1>2, SmallLogs DEF AtStart
<1>3. ASSUME Finish PROVE task'.source \in Files
  BY <1>2, <1>3 DEF Finish
<1>4. ASSUME NEW step, Step(step) PROVE task'.source \in Files
  BY <1>4 DEF Step, IInv, Formed, SourcesOK
<1>5. ASSUME NEW step, NEW source \in Files, task' = [step |-> step, source |-> source]
      PROVE  task'.source \in Files
  BY <1>5
<1>6. ASSUME NEW source \in Files, commitPrepared(source)
      PROVE  task'.source \in Files
  <2>1. ASSUME NEW step, task' = [AtStart EXCEPT !.step = step]
        PROVE  task'.source \in Files
    BY <2>1, SmallLogs DEF AtStart
  <2> QED
    BY <1>6, <2>1 DEF commitPrepared
<1>7. stored \in Files /\ entry.source \in Files /\ task.source \in Files
  BY DEF SourcesOK
<1>8. CASE UNCHANGED vars \/ Record \/ Dispose \/ Foreign \/ Evict
  BY <1>1, <1>8 DEF vars, Record, Dispose, Foreign, Evict
<1>9. ASSUME \/ \E s \in Lives : Write(s) \/ Flushed(s)
             \/ \E n \in 0 .. 1 : Create(n)
             \/ \E k \in Callers : Continues(k) \/ HolderEnds(k) \/ append(k) \/ Abort(k)
             \/ \E k \in Callers : \E op \in {"inspect", "prepare"} : Call(k, op)
      PROVE  task'.source \in Files
  BY <1>1, <1>9 DEF Write, Flushed, Create, Continues, HolderEnds, Enter, Inspect,
                    reserve, Publish, release, append, Abort, Call
<1>10. CASE \/ prepareCore \/ CheckInspected \/ FinishCommit \/ retireCore
            \/ appendLiveBatch \/ AppendSeed
  BY <1>3, <1>10 DEF prepareCore, CheckInspected, FinishCommit, retireCore,
                     appendLiveBatch, AppendSeed
<1>11. CASE StartCommit
  <2>1. Head(chain).who \in Callers
    BY <1>11, HeadOwn DEF StartCommit, Own
  <2>2. caller[Head(chain).who].source \in Files
    BY <2>1 DEF SourcesOK, Sourced
  <2> QED
    BY <1>3, <1>6, <1>11, <2>2 DEF StartCommit
<1>12. ASSUME NEW s, NEW cursor, NEW mat, NEW last, Binds(s, cursor, mat, last)
       PROVE  task'.source \in Files
  BY <1>3, <1>4, <1>12 DEF Binds
<1>13. CASE onCreated
  <2>1. ASSUME NEW s, NEW seed, adoptLivePrefix(s, seed) PROVE task'.source \in Files
    BY <1>3, <1>5, <1>7, <1>12, <2>1 DEF adoptLivePrefix, Collides
  <2> QED
    BY <1>3, <1>12, <1>13, <2>1 DEF onCreated, Collides
<1>14. CASE StartAppend \/ TakeSource \/ Adopt \/ FinishAppend
  BY <1>3, <1>4, <1>5, <1>6, <1>7, <1>14
  DEF StartAppend, TakeSource, Adopt, FinishAppend, AppendThrows
<1>15. CASE Truncate \/ Close
  BY <1>3, <1>4, <1>12, <1>15 DEF Truncate, Close, Repaired, RepairFails
<1> QED
  BY <1>8, <1>9, <1>10, <1>11, <1>13, <1>14, <1>15 DEF Next, Progress, Serialized, Drains
-----------------------------------------------------------------------------
(***************************************************************************)
(* The sessions, and the operations each of them has in the chain.         *)
(***************************************************************************)
States   == [tracked : BOOLEAN, cursor : Nat, materialized : BOOLEAN, owner : Nat]
Sessions == [log : Logs, init : {"none", "queued", "done", "failed"},
             from : Nat \ {0}, writing : BOOLEAN,
             retirement : {"none", "flush", "release", "failed", "done"}]

\* A session that failed to retire has something to lose, or never began; one
\* that retired is nobody's any more.
Ended(s) ==
  /\ session[s].retirement = "failed" =>
       \/ session[s].init = "failed"
       \/ session[s].init = "done" /\ session[s].from <= Len(session[s].log)
  /\ session[s].retirement = "done" => session[s].init = "none" /\ state.owner # s

LivesOK ==
  /\ born \in 0 .. MaxLives /\ current \in {nobody, born}
  /\ state \in States /\ state.owner \in 0 .. born
  /\ session \in [Lives -> Sessions]
  /\ \A s \in Lives : s > born => session[s] = Unborn
  /\ current # nobody => session[current].retirement = "none"
  /\ \A s \in Lives : Ended(s)

\* What an operation in the chain knows of its session: initialization has not
\* ended; the batch is what the controller retains; the release is awaited.
SessionOps == {"created", "suffix", "batch", "release"}
Bonded(job, lives, count) ==
  LET s == job.who
  IN  /\ s \in 1 .. count /\ job.last \in 0 .. Len(lives[s].log)
      /\ job.op \in {"created", "suffix"} =>
           /\ lives[s].init = "queued" /\ lives[s].from = job.last + 1
           /\ job.first \in Nat \ {0}
      /\ job.op = "batch" =>
           /\ lives[s].init = "done" /\ lives[s].writing
           /\ lives[s].retirement \in {"none", "flush"}
           /\ job.first = lives[s].from
      /\ job.op = "release" => lives[s].retirement = "release"

JobsOK ==
  /\ \A i \in 1 .. Len(chain) :
       chain[i].op \in SessionOps => Bonded(chain[i], session, born)
  /\ \A i, j \in 1 .. Len(chain) :
       /\ chain[i].op \in SessionOps /\ chain[j].op \in SessionOps
       /\ chain[i].who = chain[j].who
       => i = j

\* The running operation of a session is the only one it has.
LEMMA JobHead ==
  ASSUME Formed, JobsOK, NEW op \in SessionOps, Running(op)
  PROVE  /\ chain # <<>> /\ Head(chain).op = op /\ Bonded(Head(chain), session, born)
         /\ Head(chain) = chain[1] /\ Len(chain) \in Nat \ {0}
         /\ \A i \in 2 .. Len(chain) :
              chain[i].op \in SessionOps => chain[i].who # Head(chain).who
<1>1. PICK Jobs : chain \in Seq(Jobs)
  BY DEF Formed
<1>2. /\ chain # <<>> /\ Head(chain) = chain[1] /\ 1 \in 1 .. Len(chain)
      /\ Len(chain) \in Nat \ {0}
  BY <1>1 DEF Running
<1> QED
  BY <1>2 DEF JobsOK, Running

\* The chain moves while the sessions rest.
LEMMA JobsRest ==
  ASSUME Formed, JobsOK, UNCHANGED <<session, born>>,
         \/ UNCHANGED chain \/ Finishes
         \/ \E op, who : op \notin SessionOps /\ Queues(op, who)
  PROVE  JobsOK'
<1>2. CASE UNCHANGED chain
  BY <1>2 DEF JobsOK
<1>3. CASE Finishes
  <2>1. /\ Len(chain) \in Nat \ {0} /\ Len(chain') = Len(chain) - 1
        /\ \A i \in 1 .. Len(chain') : chain'[i] = chain[i + 1]
    BY <1>3, FinishEffect
  <2>2. \A i \in 1 .. Len(chain') : i + 1 \in 1 .. Len(chain)
    BY <2>1
  <2>3. \A i \in 1 .. Len(chain') :
          chain'[i].op \in SessionOps => Bonded(chain'[i], session', born')
    BY <2>1, <2>2 DEF JobsOK
  <2>4. \A i, j \in 1 .. Len(chain') :
          /\ chain'[i].op \in SessionOps /\ chain'[j].op \in SessionOps
          /\ chain'[i].who = chain'[j].who
          => i + 1 = j + 1
    BY <2>1, <2>2 DEF JobsOK
  <2>5. \A i, j \in 1 .. Len(chain') : i + 1 = j + 1 => i = j
    BY <2>1
  <2> QED
    BY <2>3, <2>4, <2>5 DEF JobsOK
<1>4. ASSUME NEW op, NEW who, op \notin SessionOps, Queues(op, who)
      PROVE  JobsOK'
  <2>1. /\ Len(chain') = Len(chain) + 1 /\ Len(chain) \in Nat
        /\ chain'[Len(chain) + 1].op = op
        /\ \A i \in 1 .. Len(chain) : chain'[i] = chain[i]
    BY <1>4, QueueEffect DEF Formed
  <2> QED
    BY <1>4, <2>1 DEF JobsOK
<1> QED
  BY <1>2, <1>3, <1>4

\* A session's operation ends, and moves no other session.
LEMMA JobsFinish ==
  ASSUME Formed, JobsOK, NEW op \in SessionOps, Running(op), Finishes, born' = born,
         \A s \in 1 .. born : s # Head(chain).who => session'[s] = session[s]
  PROVE  JobsOK'
<1>1. /\ Len(chain) \in Nat \ {0} /\ Len(chain') = Len(chain) - 1
      /\ \A i \in 1 .. Len(chain') : chain'[i] = chain[i + 1]
  BY FinishEffect
<1>2. \A i \in 2 .. Len(chain) :
        chain[i].op \in SessionOps => chain[i].who # Head(chain).who
  BY JobHead
<1>3. ASSUME NEW i \in 1 .. Len(chain'), chain'[i].op \in SessionOps
      PROVE  Bonded(chain'[i], session', born')
  <2>1. /\ i + 1 \in 2 .. Len(chain) /\ i + 1 \in 1 .. Len(chain)
        /\ chain'[i] = chain[i + 1]
    BY <1>1
  <2>2. Bonded(chain[i + 1], session, born) /\ chain[i + 1].who # Head(chain).who
    BY <1>2, <1>3, <2>1 DEF JobsOK
  <2> DEFINE job == chain[i + 1]
  <2>3. session'[job.who] = session[job.who]
    BY <2>2 DEF Bonded
  <2> HIDE DEF job
  <2>4. ASSUME NEW j, Bonded(j, session, born), session'[j.who] = session[j.who]
        PROVE  Bonded(j, session', born')
    BY <2>4 DEF Bonded
  <2> QED
    BY <2>1, <2>2, <2>3, <2>4 DEF job
<1>4. ASSUME NEW i \in 1 .. Len(chain'), NEW j \in 1 .. Len(chain'),
             chain'[i].op \in SessionOps, chain'[j].op \in SessionOps,
             chain'[i].who = chain'[j].who
      PROVE  i = j
  <2>1. i + 1 \in 1 .. Len(chain) /\ j + 1 \in 1 .. Len(chain)
    BY <1>1
  <2>2. i + 1 = j + 1
    BY <1>1, <1>4, <2>1 DEF JobsOK
  <2> QED
    BY <2>2
<1> QED
  BY <1>3, <1>4 DEF JobsOK

\* A session without an operation queues one.
LEMMA JobsQueue ==
  ASSUME Formed, JobsOK, NEW op \in SessionOps, NEW s, NEW first, NEW last,
         serialize(op, s, first, last),
         \A i \in 1 .. Len(chain) :
           chain[i].op \in SessionOps => Bonded(chain[i], session', born'),
         \A i \in 1 .. Len(chain) : chain[i].op \in SessionOps => chain[i].who # s,
         Bonded([op |-> op, who |-> s, first |-> first, last |-> last],
                session', born')
  PROVE  JobsOK'
<1> DEFINE job == [op |-> op, who |-> s, first |-> first, last |-> last]
<1>1. PICK Jobs : chain \in Seq(Jobs)
  BY DEF Formed
<1>2. chain \in Seq(Jobs \cup {job})
  BY <1>1
<1>3. /\ Len(chain') = Len(chain) + 1 /\ Len(chain) \in Nat
      /\ chain'[Len(chain) + 1] = job
      /\ \A i \in 1 .. Len(chain) : chain'[i] = chain[i]
  BY <1>2 DEF serialize
<1>4. job.op = op /\ job.who = s
  OBVIOUS
<1> HIDE DEF job
<1>5. Bonded(job, session', born')
  BY DEF job
<1>6. ASSUME NEW i \in 1 .. Len(chain'), chain'[i].op \in SessionOps
      PROVE  Bonded(chain'[i], session', born')
  <2>1. CASE i \in 1 .. Len(chain)
    BY <1>3, <1>6, <2>1
  <2>2. CASE i = Len(chain) + 1
    BY <1>3, <1>5, <2>2
  <2> QED
    BY <1>3, <2>1, <2>2
<1>7. ASSUME NEW i \in 1 .. Len(chain'), NEW j \in 1 .. Len(chain'),
             chain'[i].op \in SessionOps, chain'[j].op \in SessionOps,
             chain'[i].who = chain'[j].who
      PROVE  i = j
  BY <1>3, <1>4, <1>7 DEF JobsOK
<1> QED
  BY <1>6, <1>7 DEF JobsOK

\* A stretch of a log is a log, and has something in it only between its ends.
LEMMA SubLog ==
  ASSUME NEW log \in Logs, NEW first \in Nat \ {0}, NEW last \in 0 .. Len(log)
  PROVE  /\ SubSeq(log, first, last) \in Logs
         /\ SubSeq(log, first, last) # <<>> => first <= last
<1>1. Len(log) \in Nat /\ first \in Int /\ last \in Int
  BY LenProperties DEF Logs
<1>2. \A i \in first .. last : log[i] \in Happening
  BY <1>1, ElementOfSeq DEF Logs
<1>3. SubSeq(log, first, last) \in Logs
  BY <1>1, <1>2, SubSeqProperties DEF Logs
<1>4. ASSUME ~(first <= last) PROVE SubSeq(log, first, last) = <<>>
  <2>1. last < first
    BY <1>1, <1>4
  <2> QED
    BY <1>1, <2>1, SubSeqEmpty
<1> QED
  BY <1>3, <1>4

\* What is stored is a log again, and is counted.
LEMMA StoresTyped ==
  ASSUME stored \in Files, state \in States, NEW events \in Logs, Stores(events)
  PROVE  /\ stored' \in Files /\ state' \in States /\ state'.owner = state.owner
<1>1. /\ stored.log \in Logs /\ stored.log \o events \in Logs /\ Len(events) \in Nat
  BY ConcatProperties, LenProperties DEF Files, Logs
<1>2. stored' \in Files
  BY <1>1 DEF Stores, Files
<1>3. state.cursor \in Nat /\ state.cursor + Len(events) \in Nat
  BY <1>1 DEF States
<1>4. state' = [state EXCEPT !.cursor = state.cursor + Len(events), !.materialized = TRUE]
  BY DEF Stores
<1> DEFINE counted == state.cursor + Len(events)
<1>5. state' \in States /\ state'.owner = state.owner
  <2>1. counted \in Nat
    BY <1>3
  <2> HIDE DEF counted
  <2> QED
    BY <1>4, <2>1 DEF States, counted
<1> QED
  BY <1>2, <1>5

\* A commit tracks the log it has read.
LEMMA CommitTyped ==
  ASSUME state \in States, NEW source \in Files, commitPrepared(source)
  PROVE  state' \in States /\ state'.owner = state.owner
<1>1. Len(source.log) \in Nat
  BY LenProperties DEF Files, Logs
<1> QED
  BY <1>1 DEF commitPrepared, Tracks, States

\* The sessions rest.
LEMMA LivesRest ==
  ASSUME Formed, LivesOK, JobsOK, UNCHANGED <<session, born, current>>,
         state' \in States, state'.owner = state.owner,
         \/ UNCHANGED chain \/ Finishes
         \/ \E op, who : op \notin SessionOps /\ Queues(op, who)
  PROVE  LivesOK' /\ JobsOK'
<1>1. JobsOK'
  BY JobsRest
<1>2. LivesOK'
  BY DEF LivesOK, Ended
<1> QED
  BY <1>1, <1>2

\* Initialization of a session ends.
LEMMA InitializedLive ==
  ASSUME Formed, LivesOK, JobsOK, NEW op \in {"created", "suffix"}, Running(op),
         Finish, NEW outcome \in {"done", "failed"},
         Initialized(Head(chain).who, outcome), UNCHANGED <<born, current>>,
         state' \in States, state'.owner \in {state.owner, Head(chain).who}
  PROVE  LivesOK' /\ JobsOK'
<1> DEFINE s == Head(chain).who
<1>1. /\ s \in 1 .. born /\ session[s].init = "queued" /\ chain # <<>>
  BY JobHead DEF Bonded, SessionOps
<1>2. s \in Lives /\ session[s] \in Sessions /\ session \in [Lives -> Sessions]
      /\ state.owner \in 0 .. born /\ born \in 0 .. MaxLives
  BY <1>1, BoundsAssumption DEF LivesOK, Lives
<1>3. session' = [session EXCEPT ![s].init = outcome]
  BY DEF Initialized
<1>4. /\ session' \in [Lives -> Sessions]
      /\ session'[s].retirement = session[s].retirement
      /\ \A r \in Lives : r # s => session'[r] = session[r]
  BY <1>2, <1>3 DEF Sessions
<1> HIDE DEF s
<1>5. JobsOK'
  <2>1. \A r \in 1 .. born : r # s => session'[r] = session[r]
    BY <1>2, <1>4, BoundsAssumption DEF Lives
  <2>2. Finishes /\ op \in SessionOps
    BY <1>1 DEF Finish, Finishes, SessionOps
  <2> QED
    BY <2>1, <2>2, JobsFinish DEF s
<1>6. ASSUME NEW r \in Lives PROVE Ended(r)'
  <2>1. CASE r = s
    BY <1>1, <1>2, <1>4, <2>1 DEF LivesOK, Ended
  <2>2. CASE r # s
    BY <1>4, <2>2 DEF LivesOK, Ended, s
  <2> QED
    BY <2>1, <2>2
<1>7. \A r \in Lives : r > born => session'[r] = Unborn
  BY <1>1, <1>2, <1>4 DEF LivesOK
<1>8. current # nobody => session'[current].retirement = "none"
  <2> SUFFICES ASSUME current # nobody PROVE session'[current].retirement = "none"
    OBVIOUS
  <2>1. current \in Lives /\ session[current].retirement = "none"
    BY <1>2, BoundsAssumption DEF LivesOK, Lives, nobody
  <2> QED
    BY <1>4, <2>1
<1>9. state'.owner \in 0 .. born
  BY <1>1, <1>2 DEF s
<1> QED
  BY <1>4, <1>5, <1>6, <1>7, <1>8, <1>9 DEF LivesOK

\* A session that is created gets hold of the state.
LEMMA BindsLive ==
  ASSUME Formed, LivesOK, JobsOK, Running("created"), NEW cursor \in Nat,
         NEW mat \in BOOLEAN, NEW last, Binds(Head(chain).who, cursor, mat, last),
         UNCHANGED <<born, current>>
  PROVE  LivesOK' /\ JobsOK'
<1> DEFINE s == Head(chain).who
<1>1. /\ s \in 1 .. born /\ session[s].init = "queued"
  BY JobHead DEF Bonded, SessionOps
<1>2. born \in 0 .. MaxLives /\ s \in Nat /\ s \in 0 .. born /\ s \in Lives
  BY <1>1, BoundsAssumption DEF LivesOK, Lives
<1>3. state' \in States /\ state'.owner = s
  BY <1>2 DEF Binds, Owned, States
<1>4. CASE Finish /\ Initialized(s, "done")
  BY <1>3, <1>4, InitializedLive
<1>5. CASE UNCHANGED <<chain, session>>
  <2>1. JobsOK'
    BY <1>5, JobsRest
  <2>2. \A r \in Lives : Ended(r)'
    BY <1>1, <1>2, <1>3, <1>5 DEF LivesOK, Ended
  <2> QED
    BY <1>2, <1>3, <1>5, <2>1, <2>2 DEF LivesOK
<1> QED
  BY <1>4, <1>5 DEF Binds, Step

\* Types and bonds while the sessions rest: the callers, and a public append.
LEMMA RestLive ==
  ASSUME IInv, SourcesOK, LivesOK, JobsOK,
         \/ UNCHANGED vars \/ Foreign \/ Evict \/ prepareCore \/ CheckInspected
         \/ StartCommit \/ FinishCommit \/ StartAppend \/ TakeSource \/ Adopt
         \/ FinishAppend
         \/ \E k \in Callers : \/ Continues(k) \/ append(k) \/ Abort(k)
                               \/ \E reusable \in BOOLEAN : release(k, reusable)
                               \/ \E op \in {"inspect", "prepare"} : Call(k, op)
  PROVE  LivesOK' /\ JobsOK'
<1> DEFINE Moves == \/ UNCHANGED chain \/ Finishes
                    \/ \E op, who : op \notin SessionOps /\ Queues(op, who)
           Rests == UNCHANGED <<session, born, current>> /\ Moves
<1>1. state \in States /\ Formed
  BY DEF LivesOK, IInv
<1>2. ASSUME Rests, state' \in States, state'.owner = state.owner
      PROVE  LivesOK' /\ JobsOK'
  BY <1>1, <1>2, LivesRest
<1>3. ASSUME Finish, NEW op, Running(op) PROVE Finishes
  BY <1>3 DEF Finish, Finishes, Running
<1>4. CASE UNCHANGED vars \/ Foreign \/ Evict
  BY <1>1, <1>2, <1>4 DEF vars, Foreign, Evict
<1>5. CASE prepareCore \/ CheckInspected \/ FinishCommit
  <2>1. Finishes
    BY <1>3, <1>5 DEF prepareCore, CheckInspected, FinishCommit
  <2> QED
    BY <1>1, <1>2, <1>5, <2>1 DEF prepareCore, CheckInspected, FinishCommit
<1>6. CASE StartCommit
  <2>1. Head(chain).who \in Callers
    BY <1>6, HeadOwn DEF StartCommit, Own
  <2>2. caller[Head(chain).who].source \in Files
    BY <2>1 DEF SourcesOK, Sourced
  <2>3. state' \in States /\ state'.owner = state.owner
    BY <1>1, <1>6, <2>2, CommitTyped DEF StartCommit
  <2>4. UNCHANGED chain \/ Finishes
    BY <1>3, <1>6 DEF StartCommit
  <2> QED
    BY <1>2, <1>6, <2>3, <2>4 DEF StartCommit
<1>7. CASE StartAppend \/ TakeSource
  <2>1. UNCHANGED chain \/ Finishes
    BY <1>3, <1>7 DEF StartAppend, TakeSource, AppendThrows, Step
  <2> QED
    BY <1>1, <1>2, <1>7, <2>1 DEF StartAppend, TakeSource, AppendThrows
<1>8. CASE Adopt
  <2>1. UNCHANGED chain \/ Finishes
    BY <1>3, <1>8 DEF Adopt, AppendThrows, Step
  <2>2. state' \in States /\ state'.owner = state.owner
    BY <1>1, <1>8, CommitTyped DEF Adopt, AppendThrows, SourcesOK
  <2> QED
    BY <1>2, <1>8, <2>1, <2>2 DEF Adopt
<1>9. CASE FinishAppend
  <2>1. Finishes
    BY <1>3, <1>9 DEF FinishAppend, AppendThrows
  <2>2. <<Event(nobody, FALSE)>> \in Logs
    BY SmallLogs DEF nobody
  <2>3. state' \in States /\ state'.owner = state.owner
    BY <1>1, <1>9, <2>2, StoresTyped DEF FinishAppend, AppendThrows, SourcesOK
  <2> QED
    BY <1>2, <1>9, <2>1, <2>3 DEF FinishAppend
<1>10. ASSUME NEW k \in Callers,
              \/ Abort(k) \/ \E reusable \in BOOLEAN : release(k, reusable)
              \/ \E op \in {"inspect", "prepare"} : Call(k, op)
       PROVE  LivesOK' /\ JobsOK'
  BY <1>1, <1>2, <1>10 DEF Abort, release, Call
<1>11. ASSUME NEW k \in Callers, Continues(k) \/ append(k)
       PROVE  LivesOK' /\ JobsOK'
  <2>1. \A op, who, first, last : serialize(op, who, first, last) => Queues(op, who)
    BY DEF serialize, Queues
  <2>2. UNCHANGED chain \/ \E op \in {"load", "check", "commit", "append"} : Queues(op, k)
    BY <1>11, <2>1 DEF Continues, Enter, entryFor, Inspect, reserve, append
  <2>3. UNCHANGED <<session, born, current, state>>
    BY <1>11 DEF Continues, Enter, Inspect, reserve, append
  <2> QED
    BY <1>1, <1>2, <2>2, <2>3 DEF SessionOps
<1> QED
  BY <1>4, <1>5, <1>6, <1>7, <1>8, <1>9, <1>10, <1>11

\* Claiming, adopting, creating, and the repair that adoption needs.
LEMMA OwnersLive ==
  ASSUME IInv, SourcesOK, LivesOK, JobsOK, onCreated \/ Truncate \/ Close
  PROVE  LivesOK' /\ JobsOK'
<1>1. /\ state \in States /\ Formed /\ UNCHANGED <<born, current>>
      /\ state.cursor \in Nat /\ Len(stored.log) \in Nat /\ state.materialized \in BOOLEAN
  <2>1. state \in States /\ Formed /\ UNCHANGED <<born, current>>
    BY DEF LivesOK, IInv, onCreated, Truncate, Close
  <2>2. Len(stored.log) \in Nat
    BY LenProperties DEF SourcesOK, Files, Logs
  <2> QED
    BY <2>1, <2>2 DEF States
<1>2. ASSUME Running("created"), NEW cursor \in Nat, NEW mat \in BOOLEAN, NEW last,
             Binds(Head(chain).who, cursor, mat, last)
      PROVE  LivesOK' /\ JobsOK'
  BY <1>1, <1>2, BindsLive
<1>3. ASSUME Running("created"), Finish, UNCHANGED state,
             Initialized(Head(chain).who, "failed")
      PROVE  LivesOK' /\ JobsOK'
  BY <1>1, <1>3, InitializedLive
<1>4. ASSUME UNCHANGED <<session, state>>, UNCHANGED chain \/ Finishes
      PROVE  LivesOK' /\ JobsOK'
  BY <1>1, <1>4, LivesRest
<1>5. CASE onCreated
  <2>1. Running("created")
    BY <1>5 DEF onCreated
  <2>2. ASSUME NEW seed, adoptLivePrefix(Head(chain).who, seed)
        PROVE  LivesOK' /\ JobsOK'
    BY <1>1, <1>2, <1>3, <1>4, <2>1, <2>2 DEF adoptLivePrefix, Collides
  <2> QED
    BY <1>1, <1>2, <1>3, <1>5, <2>1, <2>2 DEF onCreated, Collides
<1>6. ASSUME Repaired(stored.log) PROVE LivesOK' /\ JobsOK'
  BY <1>1, <1>2, <1>4, <1>6 DEF Repaired, Step
<1>7. ASSUME RepairFails PROVE LivesOK' /\ JobsOK'
  <2>1. Finish /\ UNCHANGED state
    BY <1>7 DEF RepairFails
  <2>2. CASE Running("created") /\ Initialized(Head(chain).who, "failed")
    BY <1>3, <2>1, <2>2
  <2>3. CASE (Running("commit") \/ Running("append")) /\ UNCHANGED session
    BY <1>4, <2>1, <2>3 DEF Finish, Finishes, Running
  <2> QED
    BY <1>7, <2>2, <2>3 DEF RepairFails
<1>8. CASE Truncate \/ Close
  BY <1>4, <1>6, <1>7, <1>8 DEF Truncate, Close, Step
<1> QED
  BY <1>5, <1>8

\* What a batch would store: something only if the session still retains it.
LEMMA BatchEvents ==
  ASSUME Formed, LivesOK, JobsOK, Running("batch")
  PROVE  LET op == Head(chain)
             s == op.who
             first == IF op.first > state.cursor THEN op.first ELSE state.cursor + 1
             events == SubSeq(session[s].log, first, op.last)
         IN  /\ s \in Lives /\ s \in 1 .. born /\ op.last \in Nat
             /\ op.first = session[s].from /\ op.last <= Len(session[s].log)
             /\ session[s].init = "done" /\ session[s].retirement \in {"none", "flush"}
             /\ first \in Nat \ {0} /\ op.first <= first
             /\ events \in Logs /\ (events # <<>> => first <= op.last)
<1> DEFINE op == Head(chain)
           s == op.who
           first == IF op.first > state.cursor THEN op.first ELSE state.cursor + 1
<1>1. /\ Bonded(op, session, born) /\ op.op = "batch"
  BY JobHead DEF SessionOps
<1>2. /\ s \in 1 .. born /\ op.last \in 0 .. Len(session[s].log)
      /\ op.first = session[s].from /\ session[s].init = "done"
      /\ session[s].retirement \in {"none", "flush"}
  BY <1>1 DEF Bonded
<1>3. s \in Lives /\ session[s] \in Sessions /\ state.cursor \in Nat
  BY <1>2, BoundsAssumption DEF LivesOK, Lives, States
<1>4. session[s].from \in Nat \ {0} /\ session[s].log \in Logs
  BY <1>3 DEF Sessions
<1>5. first \in Nat \ {0} /\ op.first <= first
  BY <1>2, <1>3, <1>4
<1>6. Len(session[s].log) \in Nat
  BY <1>4, LenProperties DEF Logs
<1> HIDE DEF op, s, first
<1>7. /\ SubSeq(session[s].log, first, op.last) \in Logs
      /\ SubSeq(session[s].log, first, op.last) # <<>> => first <= op.last
  BY <1>2, <1>4, <1>5, SubLog
<1>8. op.last \in Nat /\ op.last <= Len(session[s].log)
  BY <1>2, <1>6
<1> QED
  BY <1>2, <1>3, <1>5, <1>7, <1>8 DEF op, s, first

\* What is left of a seed to store.
LEMMA SeedEvents ==
  ASSUME Formed, LivesOK, JobsOK, Running("suffix") \/ Running("created")
  PROVE  LET op == Head(chain)
             s == op.who
             first == IF op.op = "created" THEN state.cursor + 1 ELSE op.first
         IN  /\ s \in Lives /\ s \in 1 .. born /\ session[s].init = "queued"
             /\ session[s].from = op.last + 1
             /\ op.last \in Nat /\ op.last <= Len(session[s].log)
             /\ first \in Nat \ {0} /\ SubSeq(session[s].log, first, op.last) \in Logs
<1> DEFINE op == Head(chain)
           s == op.who
           first == IF op.op = "created" THEN state.cursor + 1 ELSE op.first
<1>1. Bonded(op, session, born) /\ op.op \in {"created", "suffix"}
  BY JobHead DEF SessionOps
<1>2. /\ s \in 1 .. born /\ op.last \in 0 .. Len(session[s].log)
      /\ op.first \in Nat \ {0} /\ session[s].init = "queued"
      /\ session[s].from = op.last + 1
  BY <1>1 DEF Bonded
<1>3. s \in Lives /\ session[s] \in Sessions /\ state.cursor \in Nat
  BY <1>2, BoundsAssumption DEF LivesOK, Lives, States
<1>4. session[s].log \in Logs
  BY <1>3 DEF Sessions
<1>5. first \in Nat \ {0}
  BY <1>2, <1>3
<1>6. Len(session[s].log) \in Nat
  BY <1>4, LenProperties DEF Logs
<1> HIDE DEF op, s, first
<1>7. SubSeq(session[s].log, first, op.last) \in Logs
  BY <1>2, <1>4, <1>5, SubLog
<1>8. op.last \in Nat /\ op.last <= Len(session[s].log)
  BY <1>2, <1>6
<1> QED
  BY <1>2, <1>3, <1>5, <1>7, <1>8 DEF op, s, first

\* The seed that is not stored ends an initialization.
LEMMA SeedLive ==
  ASSUME IInv, SourcesOK, LivesOK, JobsOK, AppendSeed
  PROVE  LivesOK' /\ JobsOK' /\ stored' \in Files
<1> DEFINE op == Head(chain)
           s == op.who
           first == IF op.op = "created" THEN state.cursor + 1 ELSE op.first
           events == SubSeq(session[s].log, first, op.last)
<1>1. /\ stored \in Files /\ state \in States /\ Formed /\ UNCHANGED <<born, current>>
      /\ Finish
      /\ Running("suffix") \/ Running("created")
  BY DEF LivesOK, IInv, SourcesOK, AppendSeed
<1>2. events \in Logs
  BY <1>1, SeedEvents
<1>3. \E outcome \in {"done", "failed"} : Initialized(s, outcome)
  BY DEF AppendSeed
<1>4. Stores(events) \/ UNCHANGED <<stored, state>>
  BY DEF AppendSeed
<1> HIDE DEF events, first
<1>5. stored' \in Files /\ state' \in States /\ state'.owner = state.owner
  BY <1>1, <1>2, <1>4, StoresTyped
<1>6. PICK o \in {"created", "suffix"} : Running(o)
  BY <1>1
<1>7. PICK outcome \in {"done", "failed"} : Initialized(s, outcome)
  BY <1>3
<1> QED
  BY <1>1, <1>5, <1>6, <1>7, InitializedLive

\* A write ends.  If it failed while the session was flushed, the session still
\* retains what it did not write.
LEMMA BatchLive ==
  ASSUME IInv, SourcesOK, LivesOK, JobsOK, appendLiveBatch
  PROVE  LivesOK' /\ JobsOK' /\ stored' \in Files
<1> DEFINE op == Head(chain)
           s == op.who
           first == IF op.first > state.cursor THEN op.first ELSE state.cursor + 1
           events == SubSeq(session[s].log, first, op.last)
<1>1. /\ stored \in Files /\ state \in States /\ Formed /\ UNCHANGED <<born, current>>
      /\ Finish /\ Running("batch") /\ session \in [Lives -> Sessions]
      /\ state.owner \in 0 .. born
  BY DEF LivesOK, IInv, SourcesOK, appendLiveBatch
<1>2. /\ s \in Lives /\ s \in 1 .. born /\ op.last \in Nat
      /\ op.first = session[s].from /\ op.last <= Len(session[s].log)
      /\ session[s].init = "done" /\ session[s].retirement \in {"none", "flush"}
      /\ first \in Nat \ {0} /\ op.first <= first
      /\ events \in Logs /\ (events # <<>> => first <= op.last)
  BY <1>1, BatchEvents
<1>3. Stores(events) \/ UNCHANGED <<stored, state>>
  BY DEF appendLiveBatch
<1>4. \/ session' = [session EXCEPT ![s].writing = FALSE, ![s].from = op.last + 1]
      \/ events # <<>> /\ session' = [session EXCEPT ![s].writing = FALSE]
      \/ /\ events # <<>> /\ session[s].retirement = "flush"
         /\ session' = [session EXCEPT ![s].writing = FALSE, ![s].retirement = "failed"]
  BY DEF appendLiveBatch
<1> HIDE DEF events
<1>5. stored' \in Files /\ state' \in States /\ state'.owner = state.owner
  BY <1>1, <1>2, <1>3, StoresTyped
<1>6. session[s] \in Sessions /\ Len(session[s].log) \in Nat
  <2>1. session[s] \in Sessions /\ session[s].log \in Logs
    BY <1>1, <1>2 DEF Sessions
  <2> QED
    BY <2>1, LenProperties DEF Logs
<1> HIDE DEF s, first, op
<1>7. /\ session' \in [Lives -> Sessions]
      /\ \A r \in Lives : r # s => session'[r] = session[r]
      /\ session'[s].init = "done" /\ session'[s].log = session[s].log
      /\ \/ session'[s].retirement = session[s].retirement
         \/ /\ session'[s].retirement = "failed" /\ session[s].retirement = "flush"
            /\ events # <<>> /\ session'[s].from = session[s].from
  <2> DEFINE next == op.last + 1
  <2>1. next \in Nat \ {0}
    BY <1>2
  <2> HIDE DEF next
  <2>2. CASE session' = [session EXCEPT ![s].writing = FALSE, ![s].from = next]
    BY <1>1, <1>2, <1>6, <2>1, <2>2 DEF Sessions
  <2>3. CASE events # <<>> /\ session' = [session EXCEPT ![s].writing = FALSE]
    BY <1>1, <1>2, <1>6, <2>3 DEF Sessions
  <2>4. CASE /\ events # <<>> /\ session[s].retirement = "flush"
             /\ session' = [session EXCEPT ![s].writing = FALSE,
                                           ![s].retirement = "failed"]
    BY <1>1, <1>2, <1>6, <2>4 DEF Sessions
  <2> QED
    BY <1>4, <2>2, <2>3, <2>4 DEF next
<1>8. JobsOK'
  <2>1. \A r \in 1 .. born : r # s => session'[r] = session[r]
    BY <1>7, BoundsAssumption DEF LivesOK, Lives
  <2>2. Finishes /\ "batch" \in SessionOps
    BY <1>1 DEF Finish, Finishes, SessionOps, Running
  <2> QED
    BY <1>1, <2>1, <2>2, JobsFinish DEF s, op
<1>9. ASSUME NEW r \in Lives PROVE Ended(r)'
  <2>1. CASE r = s
    <3>1. events # <<>> => session[s].from <= Len(session[s].log)
      BY <1>2, <1>6 DEF Sessions
    <3> QED
      BY <1>2, <1>7, <2>1, <3>1 DEF Ended
  <2>2. CASE r # s
    BY <1>5, <1>7, <2>2 DEF LivesOK, Ended
  <2> QED
    BY <2>1, <2>2
<1>10. \A r \in Lives : r > born => session'[r] = Unborn
  BY <1>2, <1>7 DEF LivesOK
<1>11. current # nobody => session'[current].retirement = "none"
  <2> SUFFICES ASSUME current # nobody PROVE session'[current].retirement = "none"
    OBVIOUS
  <2>1. current \in Lives /\ session[current].retirement = "none"
    BY BoundsAssumption DEF LivesOK, Lives, nobody
  <2> QED
    BY <1>7, <2>1
<1> QED
  BY <1>1, <1>5, <1>7, <1>8, <1>9, <1>10, <1>11 DEF LivesOK

\* What an operation knows of a session that rests stays true.
LEMMA BondKept ==
  ASSUME LivesOK, NEW job, Bonded(job, session, born), born' \in Nat, born <= born',
         session'[job.who] = session[job.who]
  PROVE  Bonded(job, session', born')
<1>1. born \in Nat /\ job.who \in 1 .. born
  BY BoundsAssumption DEF LivesOK, Bonded
<1>2. job.who \in 1 .. born'
  BY <1>1
<1> QED
  BY <1>2 DEF Bonded

\* One session moves, without an operation of its own or one that minds.
LEMMA OneSessionMoves ==
  ASSUME Formed, LivesOK, JobsOK, UNCHANGED chain, NEW s \in Lives,
         born' \in Nat, born <= born',
         \A r \in Lives : r # s => session'[r] = session[r],
         \A i \in 1 .. Len(chain) :
           chain[i].op \in SessionOps /\ chain[i].who = s
             => Bonded(chain[i], session', born')
  PROVE  JobsOK'
<1>1. ASSUME NEW i \in 1 .. Len(chain), chain[i].op \in SessionOps
      PROVE  Bonded(chain[i], session', born')
  <2>1. Bonded(chain[i], session, born) /\ chain[i].who \in Lives
    BY <1>1, BoundsAssumption DEF JobsOK, Bonded, LivesOK, Lives
  <2>2. CASE chain[i].who = s
    BY <1>1, <2>1, <2>2
  <2>3. CASE chain[i].who # s
    BY <2>1, <2>3, BondKept
  <2> QED
    BY <2>2, <2>3
<1> QED
  BY <1>1 DEF JobsOK

\* A Session begins, and at most one operation of its own with it.
LEMMA BirthLive ==
  ASSUME Formed, LivesOK, JobsOK, born < MaxLives, NEW s, s = born + 1,
         born' = s, current' = s, state' \in States, state'.owner \in {state.owner, s},
         NEW log \in Logs, NEW init \in {"queued", "done"},
         session' = [session EXCEPT ![s] =
           [Unborn EXCEPT !.log = log, !.from = Len(log) + 1, !.init = init]],
         \/ UNCHANGED chain
         \/ /\ init = "queued"
            /\ \E op \in {"created", "suffix"}, first \in Nat \ {0} :
                 serialize(op, s, first, Len(log))
  PROVE  LivesOK' /\ JobsOK'
<1>1. /\ born \in Nat /\ s \in Nat /\ s \in Lives /\ s \in 0 .. MaxLives /\ born <= born'
      /\ state.owner \in 0 .. s /\ s \in 0 .. s /\ s # nobody /\ s \in 1 .. s
  BY BoundsAssumption DEF LivesOK, Lives, nobody
<1>2. Len(log) \in Nat
  BY LenProperties DEF Logs
<1> DEFINE next == Len(log) + 1
           fresh == [Unborn EXCEPT !.log = log, !.from = next, !.init = init]
<1>3. next \in Nat \ {0}
  BY <1>2
<1>4. session' = [session EXCEPT ![s] = fresh]
  OBVIOUS
<1> HIDE DEF next
<1>5. /\ fresh \in Sessions /\ fresh.log = log /\ fresh.from = next
      /\ fresh.init = init /\ fresh.retirement = "none"
  BY <1>3 DEF Unborn, Sessions
<1> HIDE DEF fresh
<1>6. /\ session' \in [Lives -> Sessions] /\ session'[s] = fresh
      /\ \A r \in Lives : r # s => session'[r] = session[r]
  BY <1>1, <1>4, <1>5 DEF LivesOK
<1>7. \A r \in Lives : r > s => session'[r] = Unborn
  <2>1. \A r \in Lives : r > s => r > born /\ r # s
    BY <1>1 DEF Lives
  <2> QED
    BY <1>6, <2>1 DEF LivesOK
<1>8. ASSUME NEW r \in Lives PROVE Ended(r)'
  <2>1. CASE r = s
    BY <1>5, <1>6, <2>1 DEF Ended
  <2>2. CASE r # s
    BY <1>6, <2>2 DEF LivesOK, Ended
  <2> QED
    BY <2>1, <2>2
<1>9. LivesOK'
  BY <1>1, <1>5, <1>6, <1>7, <1>8 DEF LivesOK
<1>10. \A job : Bonded(job, session, born) => job.who # s
  BY <1>1 DEF Bonded
<1>11. CASE UNCHANGED chain
  <2>1. \A i \in 1 .. Len(chain) :
          chain[i].op \in SessionOps /\ chain[i].who = s
            => Bonded(chain[i], session', born')
    BY <1>10 DEF JobsOK
  <2>2. born' \in Nat /\ s \in Lives /\ \A r \in Lives : r # s => session'[r] = session[r]
    BY <1>1, <1>6
  <2> QED
    BY <1>1, <1>9, <1>11, <2>1, <2>2, OneSessionMoves
<1>12. ASSUME init = "queued", NEW op \in {"created", "suffix"},
              NEW first \in Nat \ {0}, serialize(op, s, first, Len(log))
       PROVE  JobsOK'
  <2>1. ASSUME NEW i \in 1 .. Len(chain), chain[i].op \in SessionOps
        PROVE  Bonded(chain[i], session', born') /\ chain[i].who # s
    <3>1. Bonded(chain[i], session, born)
      BY <2>1 DEF JobsOK
    <3>2. chain[i].who # s /\ chain[i].who \in Lives
      BY <1>10, <3>1, BoundsAssumption DEF Bonded, LivesOK, Lives
    <3>3. session'[chain[i].who] = session[chain[i].who]
      BY <1>6, <3>2
    <3> QED
      BY <1>1, <3>1, <3>2, <3>3, BondKept
  <2> DEFINE job == [op |-> op, who |-> s, first |-> first, last |-> Len(log)]
  <2>2. Bonded(job, session', born')
    <3>1. job.op = op /\ job.who = s /\ job.first = first /\ job.last = Len(log)
      OBVIOUS
    <3>2. Len(log) \in 0 .. Len(session'[s].log) /\ s \in 1 .. born'
      BY <1>1, <1>2, <1>5, <1>6
    <3>3. session'[s].init = "queued" /\ session'[s].from = Len(log) + 1
      BY <1>5, <1>6, <1>12 DEF next
    <3> HIDE DEF job
    <3> QED
      BY <3>1, <3>2, <3>3, <1>12 DEF Bonded
  <2>3. op \in SessionOps
    BY DEF SessionOps
  <2> QED
    BY <1>12, <2>1, <2>2, <2>3, JobsQueue
<1> QED
  BY <1>9, <1>11, <1>12

\* Publication, and a Session created afresh.
LEMMA BornLive ==
  ASSUME IInv, SourcesOK, LivesOK, JobsOK,
         \/ \E k \in Callers, n \in 0 .. 1 : Publish(k, n)
         \/ \E n \in 0 .. 1 : Create(n)
  PROVE  LivesOK' /\ JobsOK'
<1>1. /\ Formed /\ state \in States /\ born \in Nat
  BY BoundsAssumption DEF IInv, LivesOK
<1> DEFINE s == born + 1
<1>2. s \in Nat
  BY <1>1
<1>3. ASSUME NEW n \in 0 .. 1, Create(n) PROVE LivesOK' /\ JobsOK'
  <2> DEFINE log == SessionEvents(s, n)
  <2>1. log \in Logs /\ Len(log) = n
    BY <1>2, SmallLogs
  <2>2. session' = [session EXCEPT ![s] =
           [Unborn EXCEPT !.log = log, !.from = Len(log) + 1, !.init = "queued"]]
    BY <1>3, <2>1 DEF Create
  <2>3. /\ born < MaxLives /\ born' = s /\ current' = s /\ UNCHANGED state
        /\ serialize("created", s, 1, Len(log))
    BY <1>3, <2>1 DEF Create
  <2>4. \E op \in {"created", "suffix"}, first \in Nat \ {0} :
          serialize(op, s, first, Len(log))
    BY <2>3
  <2> HIDE DEF log, s
  <2> QED
    BY <1>1, <2>1, <2>2, <2>3, <2>4, BirthLive DEF s
<1>4. ASSUME NEW k \in Callers, NEW n \in 0 .. 1, Publish(k, n)
      PROVE  LivesOK' /\ JobsOK'
  <2> DEFINE base == caller[k].source.log
             log == base \o SessionEvents(s, n)
             init == IF n = 0 THEN "done" ELSE "queued"
  <2>1. base \in Logs /\ SessionEvents(s, n) \in Logs
    BY <1>2, SmallLogs DEF SourcesOK, Sourced, Files
  <2>2. log \in Logs
    BY <2>1, ConcatProperties DEF Logs
  <2>3. session' = [session EXCEPT ![s] =
           [Unborn EXCEPT !.log = log, !.from = Len(log) + 1, !.init = init]]
    BY <1>4 DEF Publish
  <2>4. /\ born < MaxLives /\ born' = s /\ current' = s
        /\ state' = [state EXCEPT !.owner = s]
        /\ \/ UNCHANGED chain
           \/ n # 0 /\ serialize("suffix", s, state.cursor + 1, Len(log))
    BY <1>4 DEF Publish
  <2>5. state' \in States /\ state'.owner = s
    BY <1>1, <1>2, <2>4 DEF States
  <2>6. state.cursor + 1 \in Nat \ {0}
    BY <1>1 DEF States
  <2>7. \/ UNCHANGED chain
        \/ /\ init = "queued"
           /\ \E op \in {"created", "suffix"}, first \in Nat \ {0} :
                serialize(op, s, first, Len(log))
    BY <2>4, <2>6
  <2>8. init \in {"queued", "done"}
    OBVIOUS
  <2> HIDE DEF log, s, init
  <2> QED
    BY <1>1, <2>2, <2>3, <2>4, <2>5, <2>7, <2>8, BirthLive DEF s
<1> QED
  BY <1>3, <1>4

\* A session records an event, or is disposed.
LEMMA StoreLive ==
  ASSUME IInv, SourcesOK, LivesOK, JobsOK, Record \/ Dispose
  PROVE  LivesOK' /\ JobsOK'
<1> DEFINE s == current
<1>1. /\ Formed /\ s # nobody /\ s = born /\ s \in Lives /\ UNCHANGED <<born, chain, state>>
      /\ born \in Nat /\ session \in [Lives -> Sessions]
  <2>1. /\ Formed /\ s # nobody /\ s = born /\ UNCHANGED <<born, chain, state>>
        /\ session \in [Lives -> Sessions] /\ born \in 0 .. MaxLives
    BY DEF IInv, LivesOK, Record, Dispose
  <2> QED
    BY <2>1, BoundsAssumption DEF Lives, nobody
<1>2. session[s] \in Sessions /\ session[s].retirement = "none"
  BY <1>1 DEF LivesOK
<1>3. session[s].log \in Logs /\ Len(session[s].log) \in Nat
  BY <1>2, LenProperties DEF Sessions, Logs
<1> DEFINE longer == Append(session[s].log, Event(s, FALSE))
<1>4. longer \in Logs /\ Len(longer) = Len(session[s].log) + 1
  <2>1. Event(s, FALSE) \in Happening
    BY <1>1 DEF Event, Happening
  <2> QED
    BY <1>3, <2>1, AppendProperties DEF Logs
<1> HIDE DEF longer, s
<1>5. /\ session' \in [Lives -> Sessions]
      /\ \A r \in Lives : r # s => session'[r] = session[r]
      /\ session'[s].init = session[s].init /\ session'[s].from = session[s].from
      /\ session'[s].writing = session[s].writing
      /\ Len(session[s].log) <= Len(session'[s].log) /\ Len(session'[s].log) \in Nat
      /\ \/ session'[s].retirement = "none" /\ current' = s
         \/ session'[s].retirement = "flush" /\ current' = nobody
  <2>1. CASE Record
    <3>1. session' = [session EXCEPT ![s].log = longer] /\ current' = s
      BY <2>1 DEF Record, longer, s
    <3> QED
      BY <1>1, <1>2, <1>3, <1>4, <3>1 DEF Sessions
  <2>2. CASE Dispose
    <3>1. session' = [session EXCEPT ![s].retirement = "flush"] /\ current' = nobody
      BY <2>2 DEF Dispose, s
    <3> QED
      BY <1>1, <1>2, <1>3, <3>1 DEF Sessions
  <2> QED
    BY <2>1, <2>2
<1>6. JobsOK'
  <2>1. ASSUME NEW i \in 1 .. Len(chain), chain[i].op \in SessionOps, chain[i].who = s
        PROVE  Bonded(chain[i], session', born')
    <3> DEFINE job == chain[i]
    <3>1. Bonded(job, session, born) /\ job.who = s
      BY <2>1 DEF JobsOK
    <3> HIDE DEF job
    <3>2. /\ job.last \in 0 .. Len(session[s].log) /\ s \in 1 .. born
          /\ job.op # "release"
      BY <1>2, <3>1 DEF Bonded
    <3>3. job.last \in 0 .. Len(session'[s].log)
      BY <1>3, <1>5, <3>2
    <3>4. Bonded(job, session', born')
      BY <1>1, <1>5, <3>1, <3>2, <3>3 DEF Bonded
    <3> QED
      BY <3>4 DEF job
  <2>2. born' \in Nat /\ born <= born'
    BY <1>1
  <2> QED
    BY <1>1, <1>5, <2>1, <2>2, OneSessionMoves
<1>7. ASSUME NEW r \in Lives PROVE Ended(r)'
  <2>1. CASE r = s
    BY <1>5, <2>1 DEF Ended
  <2>2. CASE r # s
    BY <1>1, <1>5, <2>2 DEF LivesOK, Ended
  <2> QED
    BY <2>1, <2>2
<1>8. \A r \in Lives : r > born => session'[r] = Unborn
  BY <1>1, <1>5 DEF LivesOK, s
<1> QED
  BY <1>1, <1>5, <1>6, <1>7, <1>8 DEF LivesOK

\* A controller writes, and a retirement is flushed.
LEMMA DrainsLive ==
  ASSUME IInv, SourcesOK, LivesOK, JobsOK, NEW s \in Lives, Write(s) \/ Flushed(s)
  PROVE  LivesOK' /\ JobsOK'
<1>1. /\ Formed /\ UNCHANGED <<born, current, state>> /\ born \in Nat
      /\ session \in [Lives -> Sessions] /\ session[s] \in Sessions
  BY BoundsAssumption DEF IInv, LivesOK, Write, Flushed
<1>2. s \in 1 .. born
  <2>1. session[s] # Unborn
    BY DEF Write, Flushed, Unborn
  <2> QED
    BY <1>1, <2>1 DEF LivesOK, Lives
<1>3. session[s].log \in Logs /\ Len(session[s].log) \in Nat /\ session[s].from \in Nat \ {0}
  BY <1>1, LenProperties DEF Sessions, Logs
<1>4. /\ session' \in [Lives -> Sessions]
      /\ \A r \in Lives : r # s => session'[r] = session[r]
      /\ session'[s].init = session[s].init /\ session'[s].from = session[s].from
      /\ session'[s].log = session[s].log
  <2>1. \/ session' = [session EXCEPT ![s].writing = TRUE]
        \/ session' = [session EXCEPT ![s].retirement = "failed"]
        \/ session' = [session EXCEPT ![s].retirement = "release"]
    BY DEF Write, Flushed
  <2>2. ASSUME NEW live \in Sessions,
               live \in {[session[s] EXCEPT !.writing = TRUE],
                         [session[s] EXCEPT !.retirement = "failed"],
                         [session[s] EXCEPT !.retirement = "release"]},
               session' = [session EXCEPT ![s] = live]
        PROVE  /\ session' \in [Lives -> Sessions]
               /\ \A r \in Lives : r # s => session'[r] = session[r]
               /\ session'[s].init = session[s].init
               /\ session'[s].from = session[s].from
               /\ session'[s].log = session[s].log
    <3>1. session' \in [Lives -> Sessions] /\ session'[s] = live
      BY <1>1, <2>2
    <3>2. /\ live.init = session[s].init /\ live.from = session[s].from
          /\ live.log = session[s].log
      BY <1>1, <2>2 DEF Sessions
    <3> QED
      BY <1>1, <2>2, <3>1, <3>2
  <2>3. /\ [session[s] EXCEPT !.writing = TRUE] \in Sessions
        /\ [session[s] EXCEPT !.retirement = "failed"] \in Sessions
        /\ [session[s] EXCEPT !.retirement = "release"] \in Sessions
    BY <1>1 DEF Sessions
  <2> QED
    BY <2>1, <2>2, <2>3
<1>5. ASSUME NEW i \in 1 .. Len(chain), chain[i].op \in SessionOps
      PROVE  /\ Bonded(chain[i], session, born) /\ chain[i].who \in Lives
             /\ chain[i].who # s => Bonded(chain[i], session', born')
  <2>1. Bonded(chain[i], session, born)
    BY <1>5 DEF JobsOK
  <2>2. chain[i].who \in Lives
    BY <2>1, BoundsAssumption DEF LivesOK, Lives, Bonded
  <2>3. chain[i].who # s => session'[chain[i].who] = session[chain[i].who]
    BY <1>4, <2>2
  <2> QED
    BY <1>1, <2>1, <2>2, <2>3, BondKept
<1>6. current # nobody => current \in Lives /\ session[current].retirement = "none"
  BY BoundsAssumption DEF LivesOK, Lives, nobody
<1>7. \A r \in Lives : r > born => session'[r] = Unborn
  BY <1>1, <1>2, <1>4 DEF LivesOK
<1>8. ASSUME Ended(s)', current # nobody => session'[current].retirement = "none"
      PROVE  LivesOK'
  <2>1. ASSUME NEW r \in Lives PROVE Ended(r)'
    <3>1. CASE r = s
      BY <1>8, <3>1
    <3>2. CASE r # s
      BY <1>1, <1>4, <3>2 DEF LivesOK, Ended
    <3> QED
      BY <3>1, <3>2
  <2> QED
    BY <1>1, <1>4, <1>7, <1>8, <2>1 DEF LivesOK
<1>9. CASE Write(s)
  <2>1. /\ session[s].init = "done" /\ ~session[s].writing
        /\ session[s].retirement \in {"none", "flush"}
        /\ session' = [session EXCEPT ![s].writing = TRUE]
        /\ serialize("batch", s, session[s].from, Len(session[s].log))
    BY <1>9 DEF Write
  <2>2. session'[s].writing /\ session'[s].retirement = session[s].retirement
    BY <1>1, <2>1 DEF Sessions
  <2>3. ASSUME NEW i \in 1 .. Len(chain), chain[i].op \in SessionOps
        PROVE  chain[i].who # s
    BY <1>5, <2>1, <2>3 DEF Bonded, SessionOps
  <2> DEFINE job == [op |-> "batch", who |-> s, first |-> session[s].from,
                     last |-> Len(session[s].log)]
  <2>4. Bonded(job, session', born')
    <3>1. /\ job.op = "batch" /\ job.who = s /\ job.first = session[s].from
          /\ job.last = Len(session[s].log)
      OBVIOUS
    <3>2. Len(session[s].log) \in 0 .. Len(session'[s].log)
      BY <1>3, <1>4
    <3> HIDE DEF job
    <3> QED
      BY <1>1, <1>2, <1>4, <2>1, <2>2, <3>1, <3>2 DEF Bonded
  <2>5. JobsOK'
    BY <1>1, <1>5, <2>1, <2>3, <2>4, JobsQueue DEF SessionOps
  <2>6. Ended(s)'
    BY <1>4, <2>1, <2>2 DEF Ended
  <2>7. current # nobody => session'[current].retirement = "none"
    BY <1>4, <1>6, <2>2
  <2> QED
    BY <1>8, <2>5, <2>6, <2>7
<1>10. CASE Flushed(s)
  <2>1. session[s].retirement = "flush"
    BY <1>10 DEF Flushed
  <2>2. current # nobody => session'[current].retirement = "none"
    BY <1>4, <1>6, <2>1
  <2>3. CASE session[s].init = "failed" /\ UNCHANGED chain
    <3>1. session' = [session EXCEPT ![s].retirement = "failed"]
      BY <1>10, <2>3 DEF Flushed
    <3>2. Ended(s)'
      BY <1>1, <1>4, <2>3, <3>1 DEF Ended, Sessions
    <3>3. ASSUME NEW i \in 1 .. Len(chain), chain[i].op \in SessionOps, chain[i].who = s
          PROVE  Bonded(chain[i], session', born')
      BY <1>5, <2>1, <2>3, <3>3 DEF Bonded, SessionOps
    <3>4. born' \in Nat /\ born <= born'
      BY <1>1
    <3>5. JobsOK'
      BY <1>1, <1>4, <2>3, <3>3, <3>4, OneSessionMoves
    <3> QED
      BY <1>8, <2>2, <3>2, <3>5
  <2>4. CASE session[s].init = "done" /\ ~hasWork(s) /\ serialize("release", s, 0, 0)
    <3>1. session' = [session EXCEPT ![s].retirement = "release"]
      BY <1>10, <2>4 DEF Flushed
    <3>2. session'[s].retirement = "release"
      BY <1>1, <3>1 DEF Sessions
    <3>3. Ended(s)'
      BY <3>2 DEF Ended
    <3>4. ASSUME NEW i \in 1 .. Len(chain), chain[i].op \in SessionOps
          PROVE  chain[i].who # s
      BY <1>5, <2>1, <2>4, <3>4 DEF Bonded, SessionOps, hasWork
    <3> DEFINE job == [op |-> "release", who |-> s, first |-> 0, last |-> 0]
    <3>5. Bonded(job, session', born')
      <4>1. job.op = "release" /\ job.who = s /\ job.last = 0
        OBVIOUS
      <4>2. 0 \in 0 .. Len(session'[s].log)
        BY <1>3, <1>4
      <4> HIDE DEF job
      <4> QED
        BY <1>1, <1>2, <3>2, <4>1, <4>2 DEF Bonded
    <3>6. JobsOK'
      BY <1>1, <1>5, <2>4, <3>4, <3>5, JobsQueue DEF SessionOps
    <3> QED
      BY <1>8, <2>2, <3>3, <3>6
  <2> QED
    BY <1>10, <2>3, <2>4 DEF Flushed
<1> QED
  BY <1>9, <1>10

\* The release: whoever owned the identity does so no longer.
LEMMA RetireLive ==
  ASSUME IInv, SourcesOK, LivesOK, JobsOK, retireCore
  PROVE  LivesOK' /\ JobsOK'
<1> DEFINE s == Head(chain).who
           gone == [Unborn EXCEPT !.retirement = "done"]
<1>1. /\ Formed /\ UNCHANGED <<born, current>> /\ born \in Nat /\ Running("release")
      /\ session \in [Lives -> Sessions] /\ state \in States /\ Finish
  BY BoundsAssumption DEF IInv, LivesOK, retireCore
<1>2. s \in 1 .. born /\ session[s].retirement = "release" /\ s \in Lives
  BY <1>1, JobHead, BoundsAssumption DEF Bonded, SessionOps, LivesOK, Lives
<1>3. gone \in Sessions /\ gone.retirement = "done" /\ gone.init = "none"
  <2>1. <<>> \in Logs /\ 1 \in Nat \ {0}
    BY SmallLogs
  <2>2. Unborn \in Sessions
    BY <2>1 DEF Unborn, Sessions
  <2> QED
    BY <2>2 DEF Sessions, Unborn
<1>4. /\ session' = [session EXCEPT ![s] = gone]
      /\ state' = IF state.owner = s THEN NoState ELSE state
  BY DEF retireCore
<1>5. state' \in States /\ state'.owner # s /\ state'.owner \in {nobody, state.owner}
  <2>1. NoState \in States /\ NoState.owner = nobody /\ nobody \in Nat /\ s # nobody
    BY <1>2 DEF NoState, States, nobody
  <2> QED
    BY <1>1, <1>4, <2>1
<1> HIDE DEF s, gone
<1>6. /\ session' \in [Lives -> Sessions] /\ session'[s] = gone
      /\ \A r \in Lives : r # s => session'[r] = session[r]
  BY <1>1, <1>2, <1>3, <1>4
<1>7. ASSUME NEW r \in Lives PROVE Ended(r)'
  <2>1. CASE r = s
    BY <1>3, <1>5, <1>6, <2>1 DEF Ended
  <2>2. CASE r # s
    <3>1. r # nobody
      BY DEF Lives, nobody
    <3> QED
      BY <1>5, <1>6, <2>2, <3>1 DEF LivesOK, Ended
  <2> QED
    BY <2>1, <2>2
<1>8. \A r \in Lives : r > born => session'[r] = Unborn
  BY <1>1, <1>2, <1>6 DEF LivesOK
<1>9. current # nobody => session'[current].retirement = "none"
  <2>1. current # nobody => current \in Lives /\ session[current].retirement = "none"
    BY BoundsAssumption DEF LivesOK, Lives, nobody
  <2> QED
    BY <1>2, <1>6, <2>1
<1>10. state'.owner \in 0 .. born
  BY <1>1, <1>5 DEF LivesOK, nobody
<1>11. JobsOK'
  <2>1. \A r \in 1 .. born : r # s => session'[r] = session[r]
    BY <1>6, BoundsAssumption DEF LivesOK, Lives
  <2>2. Finishes /\ "release" \in SessionOps
    BY <1>1 DEF Finish, Finishes, SessionOps, Running
  <2> QED
    BY <1>1, <2>1, <2>2, JobsFinish DEF s
<1> QED
  BY <1>1, <1>5, <1>6, <1>7, <1>8, <1>9, <1>10, <1>11 DEF LivesOK

\* Every step stores a log.
LEMMA StoredTyped ==
  ASSUME IInv, SourcesOK, LivesOK, JobsOK, [Next]_vars PROVE stored' \in Files
<1>1. stored \in Files /\ stored.log \in Logs /\ stored.torn \in BOOLEAN
  BY DEF SourcesOK, Files
<1>2. ASSUME UNCHANGED stored PROVE stored' \in Files
  BY <1>1, <1>2
<1>3. <<Event(nobody, TRUE)>> \in Logs /\ <<Event(nobody, FALSE)>> \in Logs
  BY SmallLogs DEF nobody
<1>4. CASE \/ Truncate \/ Close
  <2>1. CASE stored' = [stored EXCEPT !.torn = FALSE]
    BY <1>1, <2>1 DEF Files
  <2>2. CASE stored' = [stored EXCEPT !.log = @ \o closers(task.source.log)]
    <3>1. stored.log \o closers(task.source.log) \in Logs
      BY <1>1, ClosersLog, ConcatProperties DEF Logs
    <3> QED
      BY <1>1, <2>2, <3>1 DEF Files
  <2> QED
    BY <1>2, <1>4, <2>1, <2>2 DEF Truncate, Close, RepairFails
<1>5. CASE Foreign
  <2>1. Append(stored.log, Event(nobody, TRUE)) \in Logs
    <3>1. Event(nobody, TRUE) \in Happening
      BY DEF Event, Happening, nobody
    <3> QED
      BY <1>1, <3>1, AppendProperties DEF Logs
  <2>2. PICK torn \in BOOLEAN :
          stored' = [log |-> Append(stored.log, Event(nobody, TRUE)), torn |-> torn]
    BY <1>5 DEF Foreign
  <2> QED
    BY <2>1, <2>2 DEF Files
<1>6. CASE FinishAppend
  <2>1. state \in States
    BY DEF LivesOK
  <2> QED
    BY <1>1, <1>2, <1>3, <1>6, <2>1, StoresTyped DEF FinishAppend, AppendThrows
<1>7. CASE appendLiveBatch \/ AppendSeed
  BY <1>7, BatchLive, SeedLive
<1>8. CASE \/ UNCHANGED vars \/ Record \/ Evict \/ Dispose \/ prepareCore
           \/ CheckInspected \/ StartCommit \/ FinishCommit \/ retireCore
           \/ onCreated \/ StartAppend \/ TakeSource \/ Adopt
  BY <1>2, <1>8
  DEF vars, Record, Evict, Dispose, prepareCore, CheckInspected, StartCommit,
      FinishCommit, retireCore, onCreated, StartAppend, TakeSource, AppendThrows, Adopt
<1>9. ASSUME \/ \E s \in Lives : Drains(s)
             \/ \E n \in 0 .. 1 : Create(n)
             \/ \E k \in Callers : \/ Continues(k) \/ HolderEnds(k)
                                   \/ append(k) \/ Abort(k)
                                   \/ \E op \in {"inspect", "prepare"} : Call(k, op)
      PROVE  stored' \in Files
  BY <1>2, <1>9
  DEF Drains, Write, Flushed, Create, Continues, HolderEnds, Enter, Inspect, reserve,
      Publish, release, append, Abort, Call
<1> QED
  BY <1>4, <1>5, <1>6, <1>7, <1>8, <1>9 DEF Next, Progress, Serialized

\* A hot reload finds a live session whose initialization is queued.
LEMMA InitLive ==
  ASSUME Init PROVE SourcesOK /\ LivesOK /\ JobsOK
<1>1. PICK log \in {<<>>, <<Event(nobody, FALSE)>>, <<Event(nobody, TRUE)>>},
           torn \in BOOLEAN : stored = [log |-> log, torn |-> torn /\ log # <<>>]
  BY DEF Init
<1>2. log \in Logs
  BY SmallLogs DEF nobody
<1>3. stored \in Files /\ stored.log = log
  <2>1. (torn /\ log # <<>>) \in BOOLEAN
    OBVIOUS
  <2> QED
    BY <1>1, <1>2, <2>1 DEF Files
<1>4. SourcesOK
  BY <1>3, SmallLogs
  DEF Init, SourcesOK, Sourced, Outside, NoEntry, AtStart
<1>5. state \in States /\ state.owner = 0 /\ MaxLives \in Nat
  BY BoundsAssumption DEF Init, NoState, States, nobody
<1>6. Unborn \in Sessions /\ Unborn.init = "none" /\ Unborn.retirement = "none"
  <2>1. <<>> \in Logs /\ 1 \in Nat \ {0}
    BY SmallLogs
  <2> QED
    BY <2>1 DEF Unborn, Sessions
<1>7. CASE /\ current = nobody /\ born = 0 /\ chain = <<>>
           /\ session = [s \in Lives |-> Unborn]
  BY <1>4, <1>5, <1>6, <1>7 DEF LivesOK, JobsOK, Ended, nobody, Lives
<1>8. ASSUME current = 1, born = 1, NEW base \in {stored.log, <<>>}, NEW n \in 0 .. 1,
             NEW events, events = base \o SessionEvents(1, n),
             session = [s \in Lives |->
                IF s = 1 THEN [Unborn EXCEPT !.log = events, !.init = "queued",
                                             !.from = Len(events) + 1]
                ELSE Unborn],
             chain = <<[op |-> "created", who |-> 1, first |-> 1, last |-> Len(events)]>>
      PROVE  LivesOK /\ JobsOK
  <2>1. base \in Logs /\ SessionEvents(1, n) \in Logs
    <3>1. n \in Nat /\ 1 \in Nat
      BY <1>8
    <3>2. SessionEvents(1, n) \in Logs
      BY <3>1, SmallLogs
    <3> QED
      BY <1>2, <1>3, <1>8, <3>2, SmallLogs
  <2>2. events \in Logs /\ Len(events) \in Nat
    BY <1>8, <2>1, ConcatProperties, LenProperties DEF Logs
  <2>3. MaxLives \in Nat \ {0} /\ born \in 0 .. MaxLives /\ 1 \in Lives
    BY <1>8, BoundsAssumption DEF Lives
  <2> DEFINE next == Len(events) + 1
             live == [Unborn EXCEPT !.log = events, !.init = "queued", !.from = next]
             job == [op |-> "created", who |-> 1, first |-> 1, last |-> Len(events)]
  <2>4. next \in Nat \ {0}
    BY <2>2
  <2>5. session = [s \in Lives |-> IF s = 1 THEN live ELSE Unborn] /\ chain = <<job>>
    BY <1>8
  <2>6. job.op = "created" /\ job.who = 1 /\ job.first = 1 /\ job.last = Len(events)
    OBVIOUS
  <2> HIDE DEF next, job
  <2>7. /\ live \in Sessions /\ live.log = events /\ live.init = "queued"
        /\ live.from = next /\ live.retirement = "none"
    BY <1>6, <2>2, <2>4 DEF Sessions, Unborn
  <2> HIDE DEF live
  <2>8. /\ session \in [Lives -> Sessions] /\ session[1] = live
        /\ \A s \in Lives : s # 1 => session[s] = Unborn
    BY <1>6, <2>3, <2>5, <2>7
  <2>9. \A s \in Lives : s > 1 => s # 1
    OBVIOUS
  <2>10. \A s \in Lives : Ended(s)
    BY <1>6, <2>7, <2>8 DEF Ended
  <2>11. LivesOK
    BY <1>5, <1>8, <2>3, <2>7, <2>8, <2>9, <2>10 DEF LivesOK
  <2>12. Len(chain) = 1 /\ chain[1] = job
    BY <2>5
  <2>13. Bonded(job, session, born)
    <3>1. Len(events) \in 0 .. Len(session[1].log) /\ 1 \in 1 .. born
      BY <1>8, <2>2, <2>7, <2>8
    <3>2. session[1].init = "queued" /\ session[1].from = Len(events) + 1 /\ 1 \in Nat \ {0}
      BY <2>7, <2>8 DEF next
    <3> QED
      BY <2>6, <3>1, <3>2 DEF Bonded
  <2> QED
    BY <2>11, <2>12, <2>13 DEF JobsOK
<1>9. \/ /\ current = nobody /\ born = 0 /\ chain = <<>>
         /\ session = [s \in Lives |-> Unborn]
      \/ /\ current = 1 /\ born = 1
         /\ \E base \in {stored.log, <<>>}, n \in 0 .. 1 : \E events :
              /\ events = base \o SessionEvents(1, n)
              /\ session = [s \in Lives |->
                   IF s = 1 THEN [Unborn EXCEPT !.log = events, !.init = "queued",
                                                !.from = Len(events) + 1]
                   ELSE Unborn]
              /\ chain = <<[op |-> "created", who |-> 1, first |-> 1,
                            last |-> Len(events)]>>
  BY DEF Init
<1>10. CASE current = 1 /\ born = 1 /\ current # nobody
  <2>1. PICK base \in {stored.log, <<>>}, n \in 0 .. 1 : \E events :
              /\ events = base \o SessionEvents(1, n)
              /\ session = [s \in Lives |->
                   IF s = 1 THEN [Unborn EXCEPT !.log = events, !.init = "queued",
                                                !.from = Len(events) + 1]
                   ELSE Unborn]
              /\ chain = <<[op |-> "created", who |-> 1, first |-> 1,
                            last |-> Len(events)]>>
    BY <1>9, <1>10
  <2>2. PICK events :
              /\ events = base \o SessionEvents(1, n)
              /\ session = [s \in Lives |->
                   IF s = 1 THEN [Unborn EXCEPT !.log = events, !.init = "queued",
                                                !.from = Len(events) + 1]
                   ELSE Unborn]
              /\ chain = <<[op |-> "created", who |-> 1, first |-> 1,
                            last |-> Len(events)]>>
    BY <2>1
  <2> QED
    BY <1>4, <1>8, <1>10, <2>2
<1>11. 1 # nobody
  BY DEF nobody
<1> QED
  BY <1>4, <1>7, <1>9, <1>10, <1>11

\* What the records of the sessions hold, and the operations they wait for, is
\* an invariant of the coordinator.
LifeInv == IInv /\ SourcesOK /\ LivesOK /\ JobsOK

\* Every step preserves it.
LEMMA LifeNext == LifeInv /\ [Next]_vars => LifeInv'
<1> SUFFICES ASSUME IInv, SourcesOK, LivesOK, JobsOK, [Next]_vars PROVE LifeInv'
  BY DEF LifeInv
<1>1. IInv' /\ SourcesOK'
  BY NextInv, StoredTyped, EntrySourced, TaskSourced, CallersSourced DEF SourcesOK
<1> SUFFICES LivesOK' /\ JobsOK'
  BY <1>1 DEF LifeInv
<1>2. CASE UNCHANGED vars \/ Foreign \/ Evict
  BY <1>2, RestLive
<1>3. CASE Serialized
  BY <1>3, RestLive, OwnersLive, BatchLive, SeedLive, RetireLive DEF Serialized
<1>4. ASSUME NEW k \in Callers,
             \/ Continues(k) \/ append(k) \/ Abort(k)
             \/ \E op \in {"inspect", "prepare"} : Call(k, op)
             \/ \E reusable \in BOOLEAN : release(k, reusable)
      PROVE  LivesOK' /\ JobsOK'
  BY <1>4, RestLive
<1>5. ASSUME \/ \E n \in 0 .. 1 : Create(n)
             \/ \E k \in Callers, n \in 0 .. 1 : Publish(k, n)
      PROVE  LivesOK' /\ JobsOK'
  BY <1>5, BornLive
<1>6. CASE Record \/ Dispose
  BY <1>6, StoreLive
<1>7. ASSUME NEW s \in Lives, Drains(s) PROVE LivesOK' /\ JobsOK'
  BY <1>7, DrainsLive DEF Drains
<1> QED
  BY <1>2, <1>3, <1>4, <1>5, <1>6, <1>7 DEF Next, Progress, HolderEnds

\* For any callers, operations, sessions, events and disturbances: each session
\* has at most one operation in the chain, which finds it as it was when it was
\* queued: not initialized for a seed, writing what it retains for a batch,
\* waiting for its release.
THEOREM OperationsCorrect == Spec => []LifeInv
BY InitInv, InitLive, LifeNext, PTL DEF Spec, LifeInv

\* For any callers, operations, sessions, events and disturbances: through
\* every order of write, flush, failure and release, a retired session owns the
\* identity only if it still retains events or never was initialized.
THEOREM RetirementCorrect == Spec => []RetiredLetsGo
<1>1. LifeInv => RetiredLetsGo
  <2> SUFFICES ASSUME LifeInv, NEW s \in Lives,
                      session[s].retirement \in {"failed", "done"}, state.owner = s
               PROVE  hasWork(s) \/ session[s].init = "failed"
    BY DEF RetiredLetsGo
  <2>1. Ended(s)
    BY DEF LifeInv, LivesOK
  <2> QED
    BY <2>1 DEF Ended, hasWork
<1> QED
  BY <1>1, OperationsCorrect, PTL
-----------------------------------------------------------------------------
(***************************************************************************)
(* Logs that continue one another, and who wrote what is in them.          *)
(***************************************************************************)
\* A prefix, point by point.
LEMMA PrefixPoints ==
  ASSUME NEW a \in Logs, NEW b \in Logs
  PROVE  IsPrefix(a, b) <=> /\ Len(a) <= Len(b)
                            /\ \A k \in 1 .. Len(a) : a[k] = b[k]
<1>1. Len(a) \in Nat /\ Len(b) \in Nat /\ 1 \in Int
  BY LenProperties DEF Logs
<1>2. CASE Len(a) <= Len(b)
  <2> DEFINE n == Len(a)
             p == SubSeq(a, 1, n)
             q == SubSeq(b, 1, n)
  <2>1. (\A k \in 1 .. n : a[k] \in Happening) /\ (\A k \in 1 .. n : b[k] \in Happening)
    BY <1>1, <1>2, ElementOfSeq DEF Logs
  <2>2. /\ p \in Seq(Happening) /\ Len(p) = n
        /\ \A k \in 1 .. n : p[k] = a[k]
    BY <1>1, <2>1, SubSeqProperties
  <2>3. /\ q \in Seq(Happening) /\ Len(q) = n
        /\ \A k \in 1 .. n : q[k] = b[k]
    BY <1>1, <2>1, SubSeqProperties
  <2> HIDE DEF p, q
  <2>4. ASSUME \A k \in 1 .. n : a[k] = b[k] PROVE p = q
    BY <2>2, <2>3, <2>4, SeqEqual
  <2>5. ASSUME p = q PROVE \A k \in 1 .. n : a[k] = b[k]
    BY <2>2, <2>3, <2>5
  <2> QED
    BY <1>2, <2>4, <2>5 DEF IsPrefix, p, q
<1> QED
  BY <1>2 DEF IsPrefix

\* Prefixes of one log, and of what continues it.
LEMMA PrefixFacts ==
  ASSUME NEW a \in Logs, NEW b \in Logs
  PROVE  /\ IsPrefix(a, a) /\ IsPrefix(<<>>, a)
         /\ IsPrefix(a, b) => Len(a) <= Len(b)
         /\ IsPrefix(a, b) /\ Len(b) <= Len(a) => a = b
         /\ IsPrefix(a, b) /\ a # <<>> => b # <<>>
         /\ Len(a) \in Nat /\ (a = <<>> <=> Len(a) = 0)
         /\ <<>> \in Logs /\ Len(<<>>) = 0
<1>1. /\ Len(a) \in Nat /\ Len(b) \in Nat /\ <<>> \in Logs /\ Len(<<>>) = 0
      /\ (a # <<>> => Len(a) \in Nat \ {0}) /\ (b # <<>> => Len(b) \in Nat \ {0})
  BY LenProperties, EmptySeq DEF Logs
<1>2. IsPrefix(a, a) /\ IsPrefix(<<>>, a)
  BY <1>1, PrefixPoints
<1>3. IsPrefix(a, b) /\ Len(b) <= Len(a) => a = b
  BY <1>1, PrefixPoints, SeqEqual DEF Logs
<1> QED
  BY <1>1, <1>2, <1>3, PrefixPoints

\* A prefix of a prefix is one.
LEMMA PrefixTrans ==
  ASSUME NEW a \in Logs, NEW b \in Logs, NEW c \in Logs, IsPrefix(a, b), IsPrefix(b, c)
  PROVE  IsPrefix(a, c)
<1>1. Len(a) \in Nat /\ Len(b) \in Nat /\ Len(c) \in Nat
  BY LenProperties DEF Logs
<1> QED
  BY <1>1, PrefixPoints

\* A log is a prefix of what is written behind it.
LEMMA PrefixGrows ==
  ASSUME NEW a \in Logs, NEW b \in Logs
  PROVE  /\ a \o b \in Logs /\ IsPrefix(a, a \o b) /\ Len(a \o b) = Len(a) + Len(b)
         /\ \A e \in Happening : /\ Append(a, e) \in Logs /\ IsPrefix(a, Append(a, e))
                                /\ Append(a, e) # <<>>
<1> DEFINE w == a \o b
<1>1. Len(a) \in Nat /\ Len(b) \in Nat
  BY LenProperties DEF Logs
<1>2. /\ w \in Logs /\ Len(w) = Len(a) + Len(b)
      /\ \A k \in 1 .. Len(a) : w[k] = a[k]
  BY <1>1, ConcatProperties DEF Logs
<1> HIDE DEF w
<1>3. ASSUME NEW e \in Happening
      PROVE  /\ Append(a, e) \in Logs /\ IsPrefix(a, Append(a, e))
             /\ Append(a, e) # <<>>
  <2> DEFINE v == Append(a, e)
  <2>1. /\ v \in Logs /\ Len(v) = Len(a) + 1 /\ v # <<>>
        /\ \A k \in 1 .. Len(a) : v[k] = a[k]
    BY AppendProperties DEF Logs
  <2> HIDE DEF v
  <2>2. IsPrefix(a, v)
    BY <1>1, <2>1, PrefixPoints
  <2> QED
    BY <2>1, <2>2 DEF v
<1>4. IsPrefix(a, w)
  BY <1>1, <1>2, PrefixPoints
<1> QED
  BY <1>2, <1>3, <1>4 DEF w

\* A stretch of a log, point by point.
LEMMA Stretch ==
  ASSUME NEW b \in Logs, NEW first \in Nat \ {0}, NEW last \in 0 .. Len(b)
  PROVE  LET events == SubSeq(b, first, last)
         IN  /\ events \in Logs
             /\ Len(events) = IF first <= last THEN last - first + 1 ELSE 0
             /\ \A k \in 1 .. Len(events) : events[k] = b[first + k - 1]
             /\ \A k \in 1 .. Len(events) : first + k - 1 \in 1 .. Len(b)
<1> DEFINE events == SubSeq(b, first, last)
<1>1. Len(b) \in Nat /\ first \in Int /\ last \in Int
  BY LenProperties DEF Logs
<1>2. \A i \in first .. last : b[i] \in Happening
  BY <1>1, ElementOfSeq DEF Logs
<1>3. /\ events \in Seq(Happening)
      /\ Len(events) = IF first <= last THEN last - first + 1 ELSE 0
      /\ \A i \in 1 .. last - first + 1 : events[i] = b[first + i - 1]
  BY <1>1, <1>2, SubSeqProperties
<1> HIDE DEF events
<1>4. /\ \A k \in 1 .. Len(events) : events[k] = b[first + k - 1]
      /\ \A k \in 1 .. Len(events) : first + k - 1 \in 1 .. Len(b)
  BY <1>1, <1>3
<1> QED
  BY <1>3, <1>4 DEF Logs, events

\* What a log retains behind its stored prefix continues it.
LEMMA Continued ==
  ASSUME NEW a \in Logs, NEW b \in Logs, IsPrefix(a, b), NEW last \in 0 .. Len(b)
  PROVE  LET events == SubSeq(b, Len(a) + 1, last)
         IN  /\ events \in Logs /\ a \o events \in Logs /\ IsPrefix(a \o events, b)
             /\ Len(a \o events) = Len(a) + Len(events)
             /\ last <= Len(a \o events)
<1> DEFINE n == Len(a)
           events == SubSeq(b, n + 1, last)
           w == a \o events
<1>1. n \in Nat /\ Len(b) \in Nat /\ n <= Len(b) /\ n + 1 \in Nat \ {0} /\ last \in Nat
  BY LenProperties, PrefixPoints DEF Logs
<1>2. /\ events \in Logs
      /\ Len(events) = IF n + 1 <= last THEN last - (n + 1) + 1 ELSE 0
      /\ \A k \in 1 .. Len(events) : events[k] = b[n + 1 + k - 1]
  BY <1>1, Stretch
<1> HIDE DEF events
<1>3. /\ w \in Logs /\ Len(w) = n + Len(events)
      /\ \A k \in 1 .. n + Len(events) : w[k] = IF k <= n THEN a[k] ELSE events[k - n]
  BY <1>2, ConcatProperties DEF Logs
<1> HIDE DEF w
<1>4. Len(w) <= Len(b) /\ last <= Len(w)
  BY <1>1, <1>2, <1>3
<1>5. ASSUME NEW k \in 1 .. Len(w) PROVE w[k] = b[k]
  <2>1. CASE k <= n
    BY <1>1, <1>2, <1>3, <2>1, PrefixPoints
  <2>2. CASE ~(k <= n)
    <3>1. k - n \in 1 .. Len(events) /\ n + 1 + (k - n) - 1 = k
      BY <1>1, <1>2, <1>3, <2>2
    <3> QED
      BY <1>1, <1>2, <1>3, <2>2, <3>1
  <2> QED
    BY <2>1, <2>2
<1>6. IsPrefix(w, b)
  BY <1>3, <1>4, <1>5, PrefixPoints
<1> QED
  BY <1>2, <1>3, <1>4, <1>6 DEF events, w

\* A prefix of a beginning is a prefix of the whole.
LEMMA PrefixOfStart ==
  ASSUME NEW a \in Logs, NEW b \in Logs, NEW last \in 0 .. Len(b)
  PROVE  LET seed == SubSeq(b, 1, last)
         IN  /\ seed \in Logs /\ Len(seed) = last
             /\ \A k \in 1 .. last : seed[k] = b[k]
             /\ IsPrefix(a, seed) => IsPrefix(a, b)
<1> DEFINE seed == SubSeq(b, 1, last)
<1>1. Len(a) \in Nat /\ Len(b) \in Nat /\ 1 \in Nat \ {0} /\ last \in Nat
  BY LenProperties DEF Logs
<1>2. /\ seed \in Logs /\ Len(seed) = IF 1 <= last THEN last - 1 + 1 ELSE 0
      /\ \A k \in 1 .. Len(seed) : seed[k] = b[1 + k - 1]
  BY <1>1, Stretch
<1> HIDE DEF seed
<1>3. Len(seed) = last /\ \A k \in 1 .. last : seed[k] = b[k]
  BY <1>1, <1>2
<1>4. IsPrefix(a, seed) => IsPrefix(a, b)
  BY <1>1, <1>2, <1>3, PrefixPoints
<1> QED
  BY <1>2, <1>3, <1>4 DEF seed

\* Nothing in the log is the session's.
Alien(s, log) == \A k \in 1 .. Len(log) : log[k].by # s

\* What is put together from others' events is theirs.
LEMMA AlienLogs ==
  ASSUME NEW s, NEW a \in Logs, Alien(s, a)
  PROVE  /\ \A b \in Logs : Alien(s, b) => Alien(s, a \o b)
         /\ \A b \in Logs : IsPrefix(b, a) => Alien(s, b)
         /\ \A first \in Nat \ {0}, last \in 0 .. Len(a) : Alien(s, SubSeq(a, first, last))
         /\ \A e \in Happening : e.by # s => Alien(s, Append(a, e))
<1>1. Len(a) \in Nat
  BY LenProperties DEF Logs
<1>2. ASSUME NEW b \in Logs, Alien(s, b) PROVE Alien(s, a \o b)
  <2> DEFINE w == a \o b
  <2>1. /\ Len(b) \in Nat /\ Len(w) = Len(a) + Len(b)
        /\ \A k \in 1 .. Len(a) + Len(b) :
             w[k] = IF k <= Len(a) THEN a[k] ELSE b[k - Len(a)]
    BY <1>2, ConcatProperties, LenProperties DEF Logs
  <2> HIDE DEF w
  <2>2. ASSUME NEW k \in 1 .. Len(w) PROVE w[k].by # s
    <3>1. CASE k <= Len(a)
      BY <1>1, <2>1, <3>1 DEF Alien
    <3>2. CASE ~(k <= Len(a))
      <4>1. k - Len(a) \in 1 .. Len(b)
        BY <1>1, <2>1, <3>2
      <4> QED
        BY <1>1, <1>2, <2>1, <3>2, <4>1 DEF Alien
    <3> QED
      BY <3>1, <3>2
  <2> QED
    BY <2>2 DEF Alien, w
<1>3. ASSUME NEW b \in Logs, IsPrefix(b, a) PROVE Alien(s, b)
  <2>1. Len(b) \in Nat /\ Len(b) <= Len(a) /\ \A k \in 1 .. Len(b) : b[k] = a[k]
    BY <1>3, PrefixPoints, LenProperties DEF Logs
  <2> QED
    BY <1>1, <2>1 DEF Alien
<1>4. ASSUME NEW first \in Nat \ {0}, NEW last \in 0 .. Len(a)
      PROVE  Alien(s, SubSeq(a, first, last))
  <2> DEFINE events == SubSeq(a, first, last)
  <2>1. /\ \A k \in 1 .. Len(events) : events[k] = a[first + k - 1]
        /\ \A k \in 1 .. Len(events) : first + k - 1 \in 1 .. Len(a)
    BY Stretch
  <2> HIDE DEF events
  <2>2. Alien(s, events)
    BY <2>1 DEF Alien
  <2> QED
    BY <2>2 DEF events
<1>5. ASSUME NEW e \in Happening, e.by # s PROVE Alien(s, Append(a, e))
  <2> DEFINE w == Append(a, e)
  <2>1. /\ Len(w) = Len(a) + 1 /\ w[Len(a) + 1] = e
        /\ \A k \in 1 .. Len(a) : w[k] = a[k]
    BY AppendProperties DEF Logs
  <2> HIDE DEF w
  <2>2. \A k \in 1 .. Len(w) : k \in 1 .. Len(a) \/ k = Len(a) + 1
    BY <1>1, <2>1
  <2>3. Alien(s, w)
    BY <1>5, <2>1, <2>2 DEF Alien
  <2> QED
    BY <2>3 DEF w
<1> QED
  BY <1>2, <1>3, <1>4, <1>5

\* The small logs and who wrote them.
LEMMA SmallAliens ==
  /\ \A s : Alien(s, <<>>)
  /\ \A by, end, s : by # s => Alien(s, <<Event(by, end)>>)
  /\ \A s \in Nat, n \in Nat :
       /\ \A r : r # s => Alien(r, SessionEvents(s, n))
       /\ \A k \in 1 .. n : SessionEvents(s, n)[k].by = s
<1>1. \A s : Alien(s, <<>>)
  BY DEF Alien
<1>2. \A by, end, s : by # s => Alien(s, <<Event(by, end)>>)
  BY DEF Alien, Event
<1>3. ASSUME NEW s \in Nat, NEW n \in Nat
      PROVE  /\ \A r : r # s => Alien(r, SessionEvents(s, n))
             /\ \A k \in 1 .. n : SessionEvents(s, n)[k].by = s
  <2>1. Len(SessionEvents(s, n)) = n
    BY SmallLogs
  <2>2. \A k \in 1 .. n : SessionEvents(s, n)[k].by = s
    BY DEF SessionEvents, Event
  <2> QED
    BY <2>1, <2>2 DEF Alien
<1> QED
  BY <1>1, <1>2, <1>3
-----------------------------------------------------------------------------
(***************************************************************************)
(* What the ledger says of the store.                                      *)
(***************************************************************************)
Holds == {"commit", "hold"}
Read  == {"ready", "committing", "reserved"}

\* What was read is the beginning of what is stored; a commit whose entry was
\* taken from it has been overtaken by an append.
ReadOK ==
  /\ stored.torn => stored.log # <<>>
  /\ entry.phase \in Read =>
       entry.source.log # <<>> /\ IsPrefix(entry.source.log, stored.log)
  /\ \A c \in Callers :
       /\ caller[c].at \in Holds =>
            caller[c].source.log # <<>> /\ IsPrefix(caller[c].source.log, stored.log)
       /\ caller[c].at = "commit" /\ ~caller[c].same =>
            Len(caller[c].source.log) < Len(stored.log)

\* What is counted is stored, and all of it under a reservation; ownerless
\* state was read from a log.
CountOK ==
  /\ ~state.tracked => state = NoState
  /\ state.cursor <= Len(stored.log)
  /\ state.tracked /\ state.owner = nobody => state.materialized /\ state.cursor # 0
  /\ ~state.materialized => state.cursor = 0
  /\ state.tracked /\ entry.phase = "reserved" => state.cursor = Len(stored.log)

\* The owner's log continues what is stored, and so do the events it retains.
OwnerOK ==
  state.owner # nobody =>
    /\ state.cursor = Len(stored.log)
    /\ IsPrefix(stored.log, session[state.owner].log)
    /\ session[state.owner].init = "done" =>
         session[state.owner].from <= state.cursor + 1

\* An initialized session that may still have something to write is the owner.
WorkOK ==
  /\ \A s \in Lives :
       session[s].init = "done" /\ (current = s \/ hasWork(s)) => state.owner = s
  /\ current = nobody /\ born # nobody => session[born].retirement # "none"

\* Only a session writes events of its own, and it tells no one.
Unheard(s) ==
  Alien(s, stored.log) /\ \A r \in Lives : r # s => Alien(s, session[r].log)

HeardOK == \A s \in Lives : s > born => Unheard(s)

\* A session that waits to be initialized begins with events of its own, which
\* nobody has heard of; or it was found by a hot reload, and nothing is tracked.
Waits(i) == chain[i].op = "created" /\ (i = 1 => task.step # "append")
Seeded(job) ==
  Unheard(job.who) /\ \A k \in 1 .. job.last : session[job.who].log[k].by = job.who

SeedsOK == \A i \in 1 .. Len(chain) :
             Waits(i) => Seeded(chain[i]) \/ (i = 1 /\ ~state.tracked)

\* Sessions are initialized in the order of their births, and no operation of a
\* younger one overtakes an initialization.
OrderOK ==
  /\ \A i, j \in 1 .. Len(chain) :
       /\ chain[i].op = "created" /\ chain[j].op \in SessionOps
       /\ chain[i].who < chain[j].who
       => i < j
  /\ \A i \in 1 .. Len(chain) :
       chain[i].op = "created" =>
         /\ state.owner > chain[i].who => state.materialized
         /\ \A s \in Lives : s > chain[i].who =>
              session[s].retirement # "done" /\ session[s].init # "failed"

\* A published session owns the identity when its seed is stored; while an
\* append waits or runs nobody does, and nobody is about to.
ClaimsOK ==
  /\ \A i \in 1 .. Len(chain) :
       chain[i].op = "suffix" => state.owner = chain[i].who /\ state.materialized
  /\ \A i, j \in 1 .. Len(chain) :
       chain[i].op = "append" => state.owner = nobody /\ chain[j].op # "created"

\* How far the running operation is, and what it relies on there.
StepsOK ==
  /\ task.step # "start" =>
       Running("created") \/ Running("commit") \/ Running("append")
  /\ Running("created") =>
       /\ task.step \in {"start", "truncate", "append"}
       /\ task.step = "append" => state.owner = Head(chain).who
       /\ task.step = "truncate" =>
            ~state.tracked /\ IsPrefix(stored.log, session[Head(chain).who].log)
  /\ Running("commit") =>
       /\ task.step \in {"start", "stale", "truncate", "close", "kept"}
       /\ task.step \in {"truncate", "close", "kept"} =>
            state.owner = nobody /\ caller[Head(chain).who].same
       /\ task.step = "kept" => state.tracked /\ state.cursor = Len(stored.log)
  /\ Running("append") =>
       /\ task.step \in {"start", "source", "adopt", "stale", "truncate", "close",
                         "kept", "append"}
       /\ task.step = "adopt" => task.source.log # <<>>
       /\ task.step \in {"kept", "append"} => state.tracked
       /\ task.step \notin {"start", "kept", "append"} => ~state.tracked

CountsInv == /\ LifeInv /\ ReadOK /\ CountOK /\ OwnerOK /\ WorkOK /\ HeardOK
             /\ SeedsOK /\ OrderOK /\ ClaimsOK /\ StepsOK
-----------------------------------------------------------------------------
(***************************************************************************)
(* What is stored stays, and what was read from it.                        *)
(***************************************************************************)
\* Storing adds events to the log and the count, and empties the pool.
LEMMA StoresFacts ==
  ASSUME stored \in Files, state \in States, NEW events \in Logs, Stores(events)
  PROVE  /\ stored'.log = stored.log \o events /\ stored'.torn = stored.torn
         /\ IsPrefix(stored.log, stored'.log)
         /\ Len(stored'.log) = Len(stored.log) + Len(events)
         /\ state'.cursor = state.cursor + Len(events) /\ state'.materialized
         /\ state'.tracked = state.tracked /\ state'.owner = state.owner
         /\ entry' = NoEntry
<1>1. stored.log \in Logs
  BY DEF Files
<1>2. stored'.log = stored.log \o events /\ stored'.torn = stored.torn
  BY DEF Stores, Files
<1>3. /\ state'.cursor = state.cursor + Len(events) /\ state'.materialized
      /\ state'.tracked = state.tracked /\ state'.owner = state.owner
      /\ entry' = NoEntry
  BY DEF Stores, States, remove
<1> QED
  BY <1>1, <1>2, <1>3, PrefixGrows

\* No step takes anything from the log, and none leaves a torn tail alone.
LEMMA StoredGrows ==
  ASSUME LifeInv, ReadOK, [Next]_vars
  PROVE  /\ IsPrefix(stored.log, stored'.log)
         /\ stored'.torn => stored'.log # <<>>
<1> DEFINE Goal == /\ IsPrefix(stored.log, stored'.log)
                   /\ stored'.torn => stored'.log # <<>>
<1>1. /\ stored \in Files /\ stored.log \in Logs /\ stored.torn \in BOOLEAN
      /\ state \in States /\ Formed
      /\ IInv /\ SourcesOK /\ LivesOK /\ JobsOK
  BY DEF LifeInv, SourcesOK, Files, LivesOK, IInv
<1>2. stored.torn => stored.log # <<>>
  BY DEF ReadOK
<1>3. ASSUME stored'.log = stored.log, stored'.torn => stored.torn PROVE Goal
  BY <1>1, <1>2, <1>3, PrefixFacts
<1>4. ASSUME NEW events \in Logs, stored'.log = stored.log \o events,
             stored'.torn = stored.torn
      PROVE  Goal
  <2> DEFINE w == stored.log \o events
  <2>1. w \in Logs /\ IsPrefix(stored.log, w)
    BY <1>1, PrefixGrows
  <2>2. stored'.log = w
    BY <1>4
  <2> HIDE DEF w
  <2>3. stored.log # <<>> => w # <<>>
    BY <1>1, <2>1, PrefixFacts
  <2> QED
    BY <1>2, <1>4, <2>1, <2>2, <2>3
<1>5. ASSUME NEW events \in Logs, Stores(events) PROVE Goal
  BY <1>1, <1>4, <1>5, StoresFacts
<1>6. CASE Truncate \/ Close
  <2>1. CASE stored' = [stored EXCEPT !.torn = FALSE]
    BY <1>1, <1>3, <2>1 DEF Files
  <2>2. CASE stored' = [stored EXCEPT !.log = @ \o closers(task.source.log)]
    BY <1>1, <1>4, <2>2, ClosersLog DEF Files
  <2>3. CASE UNCHANGED stored
    BY <1>3, <2>3
  <2> QED
    BY <1>6, <2>1, <2>2, <2>3 DEF Truncate, Close, RepairFails
<1>7. CASE Foreign
  <2> DEFINE e == Event(nobody, TRUE)
             w == Append(stored.log, e)
  <2>1. e \in Happening
    BY DEF Event, Happening, nobody
  <2>2. IsPrefix(stored.log, w)
    BY <1>1, <2>1, PrefixGrows
  <2>3. w # <<>>
    BY <1>1, <2>1, PrefixGrows
  <2>4. PICK torn \in BOOLEAN : stored' = [log |-> w, torn |-> torn]
    BY <1>7 DEF Foreign
  <2> HIDE DEF w
  <2>5. stored'.log = w
    BY <2>4
  <2> QED
    BY <2>2, <2>3, <2>5
<1>8. CASE FinishAppend
  <2>1. <<Event(nobody, FALSE)>> \in Logs
    BY SmallLogs DEF nobody
  <2> QED
    BY <1>3, <1>5, <1>8, <2>1 DEF FinishAppend, AppendThrows
<1>9. CASE appendLiveBatch
  <2> DEFINE op == Head(chain)
             s == op.who
             first == IF op.first > state.cursor THEN op.first ELSE state.cursor + 1
             events == SubSeq(session[s].log, first, op.last)
  <2>1. events \in Logs
    BY <1>1, <1>9, BatchEvents DEF appendLiveBatch
  <2>2. Stores(events) \/ UNCHANGED stored
    BY <1>9 DEF appendLiveBatch
  <2> HIDE DEF events
  <2> QED
    BY <1>3, <1>5, <2>1, <2>2
<1>10. CASE AppendSeed
  <2> DEFINE op == Head(chain)
             s == op.who
             first == IF op.op = "created" THEN state.cursor + 1 ELSE op.first
             events == SubSeq(session[s].log, first, op.last)
  <2>1. events \in Logs
    BY <1>1, <1>10, SeedEvents DEF AppendSeed
  <2>2. Stores(events) \/ UNCHANGED stored
    BY <1>10 DEF AppendSeed
  <2> HIDE DEF events
  <2> QED
    BY <1>3, <1>5, <2>1, <2>2
<1>11. CASE \/ UNCHANGED vars \/ Record \/ Evict \/ Dispose \/ prepareCore
            \/ CheckInspected \/ StartCommit \/ FinishCommit \/ retireCore
            \/ onCreated \/ StartAppend \/ TakeSource \/ Adopt
  BY <1>3, <1>11
  DEF vars, Record, Evict, Dispose, prepareCore, CheckInspected, StartCommit,
      FinishCommit, retireCore, onCreated, StartAppend, TakeSource, AppendThrows, Adopt
<1>12. ASSUME \/ \E s \in Lives : Drains(s)
              \/ \E n \in 0 .. 1 : Create(n)
              \/ \E k \in Callers : \/ Continues(k) \/ HolderEnds(k)
                                    \/ append(k) \/ Abort(k)
                                    \/ \E op \in {"inspect", "prepare"} : Call(k, op)
       PROVE  Goal
  BY <1>3, <1>12
  DEF Drains, Write, Flushed, Create, Continues, HolderEnds, Enter, Inspect, reserve,
      Publish, release, append, Abort, Call
<1>13. Goal
  BY <1>6, <1>7, <1>8, <1>9, <1>10, <1>11, <1>12 DEF Next, Progress, Serialized
<1> QED
  BY <1>13

\* How a caller comes to a log it holds: it goes on holding it, losing the entry
\* only if it commits nothing or the store has grown; or it takes the entry's.
Carries(c) ==
  \/ caller'[c].at \notin Holds
  \/ /\ caller[c].at \in Holds /\ caller'[c].at \in {caller[c].at, "hold"}
     /\ caller'[c].source = caller[c].source
     /\ \/ caller'[c].same = caller[c].same
        \/ ~Commits(c) \/ Len(stored.log) < Len(stored'.log)
  \/ /\ caller'[c].same /\ caller'[c].source = entry.source
     /\ entry.phase \in Read

\* A caller that rests, or only learns that the entry is gone.
LEMMA RestCarries ==
  ASSUME Formed, NEW c \in Callers,
         \/ caller'[c] = caller[c]
         \/ caller'[c] = Forgotten[c]
            /\ (~Commits(c) \/ Len(stored.log) < Len(stored'.log))
  PROVE  Carries(c)
<1>1. Fields(caller[c])
  BY DEF Formed
<1>2. Forgotten[c].at = caller[c].at /\ Forgotten[c].source = caller[c].source
  BY <1>1 DEF Forgotten, Fields
<1> QED
  BY <1>2 DEF Carries

\* One caller leaves, the others rest or learn that the entry is gone.
LEMMA LeaveCarries ==
  ASSUME Formed, NEW k \in Callers, NEW callers \in {caller, Forgotten},
         caller' \in {Returned(k, callers), Gone(k, callers), Again(k, callers)},
         callers = Forgotten =>
           \A c \in Callers \ {k} : ~Commits(c) \/ Len(stored.log) < Len(stored'.log)
  PROVE  \A c \in Callers : Carries(c)
<1>1. Well(callers)
  BY ForgottenWell
<1>2. /\ caller'[k].at \in {"outside", "gone", "retirement"}
      /\ \A c \in Callers \ {k} : caller'[c] = callers[c]
  BY <1>1, LeaveWell
<1>3. Carries(k)
  BY <1>2 DEF Carries, Holds
<1>4. ASSUME NEW c \in Callers \ {k} PROVE Carries(c)
  BY <1>2, RestCarries
<1> QED
  BY <1>3, <1>4

\* The commit of a caller yields nothing, or throws.
LEMMA DropCarries ==
  ASSUME IInv, NEW k \in Callers, caller[k].at = "commit",
         Throws(k) \/ Undefined(k) \/ caller' = Gone(k, Others(k))
  PROVE  \A c \in Callers : Carries(c)
<1>1. Formed /\ PoolOK
  BY DEF IInv
<1>2. caller[k].same => \A c \in Callers \ {k} : ~Commits(c)
  BY <1>1 DEF PoolOK, Commits
<1>3. /\ Others(k) \in {caller, Forgotten}
      /\ caller[k].same \/ Others(k) = caller
  BY DEF Others
<1>4. caller' \in {Returned(k, Others(k)), Gone(k, Others(k)), Again(k, Others(k))}
  BY DEF Throws, Undefined
<1>5. CASE caller[k].same
  BY <1>1, <1>2, <1>3, <1>4, <1>5, LeaveCarries
<1>6. CASE Others(k) = caller
  <2>1. caller' \in {Returned(k, caller), Gone(k, caller), Again(k, caller)}
    BY <1>4, <1>6
  <2> DEFINE left(f) == caller' \in {Returned(k, f), Gone(k, f), Again(k, f)}
  <2>2. Well(caller)
    BY <1>1, ForgottenWell
  <2>3. /\ caller'[k].at \in {"outside", "gone", "retirement"}
        /\ \A c \in Callers \ {k} : caller'[c] = caller[c]
    BY <2>1, <2>2, LeaveWell
  <2>4. Carries(k)
    BY <2>3 DEF Carries, Holds
  <2>5. ASSUME NEW c \in Callers \ {k} PROVE Carries(c)
    BY <1>1, <2>3, RestCarries
  <2> QED
    BY <2>4, <2>5
<1> QED
  BY <1>3, <1>5, <1>6

\* Every step lets every caller keep what it holds.
LEMMA CallersCarry ==
  ASSUME LifeInv, [Next]_vars
  PROVE  \A c \in Callers : Carries(c)
<1> DEFINE Goal == \A c \in Callers : Carries(c)
<1>1. /\ IInv /\ Formed /\ PoolOK /\ Well(caller)
      /\ state \in States /\ stored \in Files
  BY ForgottenWell DEF LifeInv, IInv, LivesOK, SourcesOK
<1>2. ASSUME UNCHANGED caller PROVE Goal
  BY <1>1, <1>2, RestCarries
<1>3. ASSUME NEW k \in Callers,
             caller' \in {Returned(k, caller), Gone(k, caller), Again(k, caller)}
      PROVE  Goal
  <2>1. /\ caller'[k].at \in {"outside", "gone", "retirement"}
        /\ \A c \in Callers \ {k} : caller'[c] = caller[c]
    BY <1>1, <1>3, LeaveWell
  <2>2. Carries(k)
    BY <2>1 DEF Carries, Holds
  <2>3. ASSUME NEW c \in Callers \ {k} PROVE Carries(c)
    BY <1>1, <2>1, RestCarries
  <2> QED
    BY <2>2, <2>3
<1>4. ASSUME entry.phase # "committing", caller' = Forgotten PROVE Goal
  BY <1>1, <1>4, RestCarries, Unheld
<1>5. ASSUME entry.phase # "committing", NEW k \in Callers,
             caller' \in {Returned(k, Forgotten), Gone(k, Forgotten),
                          Again(k, Forgotten)}
      PROVE  Goal
  BY <1>1, <1>5, LeaveCarries, Unheld
<1>6. CASE UNCHANGED vars \/ Record \/ Dispose \/ Foreign \/ retireCore \/ onCreated
  BY <1>2, <1>6 DEF vars, Record, Dispose, Foreign, retireCore, onCreated
<1>7. ASSUME \/ \E s \in Lives : Write(s) \/ Flushed(s)
             \/ \E n \in 0 .. 1 : Create(n)
      PROVE  Goal
  BY <1>2, <1>7 DEF Write, Flushed, Create
<1>8. CASE Evict \/ appendLiveBatch \/ AppendSeed
  BY <1>2, <1>4, <1>8
  DEF Evict, appendLiveBatch, AppendSeed, Accepts, Exclusive
<1>9. ASSUME NEW op \in Own, Running(op)
      PROVE  Head(chain).who \in Callers /\ Awaits(op, caller[Head(chain).who].at)
  BY <1>1, <1>9, HeadOwn
<1>10. CASE CheckInspected
  <2> DEFINE k == Head(chain).who
  <2>1. k \in Callers
    BY <1>9, <1>10 DEF CheckInspected, Own
  <2>2. discardReady(k) = "discarded" => entry.phase # "committing"
    BY DEF discardReady
  <2> HIDE DEF k
  <2>3. \/ caller' \in {Returned(k, caller), Again(k, caller)}
        \/ discardReady(k) = "discarded" /\ caller' = Again(k, Forgotten)
    BY <1>10 DEF CheckInspected, k
  <2> QED
    BY <1>3, <1>5, <2>1, <2>2, <2>3
<1>11. CASE StartCommit \/ FinishCommit
  <2> DEFINE k == Head(chain).who
  <2>1. Running("commit") /\ k \in Callers
    BY <1>9, <1>11 DEF StartCommit, FinishCommit, Own
  <2>2. task.step # "start" => caller[k].at = "commit"
    BY <1>1, <2>1, RunsOn
  <2>3. CASE StartCommit
    BY <1>1, <1>2, <2>1, <2>3, DropCarries DEF StartCommit
  <2>4. CASE FinishCommit
    <3>1. caller[k].at = "commit"
      BY <2>2, <2>4 DEF FinishCommit
    <3>2. \/ Undefined(k) \/ Throws(k)
          \/ caller' \in {Gone(k, caller), Again(k, caller)}
          \/ caller' = [caller EXCEPT ![k].at = "hold"]
      BY <2>4 DEF FinishCommit
    <3>3. ASSUME caller' = [caller EXCEPT ![k].at = "hold"] PROVE Goal
      <4>1. Fields(caller[k])
        BY <1>1, <2>1 DEF Formed
      <4>2. /\ caller'[k].at = "hold" /\ caller'[k].source = caller[k].source
            /\ caller'[k].same = caller[k].same
            /\ \A c \in Callers \ {k} : caller'[c] = caller[c]
        BY <1>1, <2>1, <3>3, <4>1 DEF Formed, Fields
      <4>3. Carries(k)
        BY <3>1, <4>2 DEF Carries, Holds
      <4> QED
        BY <1>1, <4>2, <4>3, RestCarries
    <3> QED
      BY <1>1, <1>3, <2>1, <3>1, <3>2, <3>3, DropCarries
  <2> QED
    BY <1>11, <2>3, <2>4
<1>12. CASE StartAppend \/ TakeSource \/ Adopt
  <2>1. Head(chain).who \in Callers
    BY <1>9, <1>12 DEF StartAppend, TakeSource, Adopt, Own
  <2> QED
    BY <1>2, <1>3, <1>4, <1>12, <2>1
    DEF StartAppend, TakeSource, Adopt, AppendThrows
<1>13. CASE FinishAppend
  <2> DEFINE k == Head(chain).who
  <2>1. k \in Callers
    BY <1>9, <1>13 DEF FinishAppend, Own
  <2>2. \/ Stores(<<Event(nobody, FALSE)>>) /\ caller' = Returned(k, Forgotten)
        \/ caller' = Returned(k, caller)
    BY <1>13 DEF FinishAppend, AppendThrows
  <2>3. ASSUME Stores(<<Event(nobody, FALSE)>>), caller' = Returned(k, Forgotten)
        PROVE  Goal
    <3> DEFINE events == <<Event(nobody, FALSE)>>
    <3>1. events \in Logs /\ Len(events) = 1
      BY SmallLogs DEF nobody
    <3> HIDE DEF events
    <3>2. Len(stored'.log) = Len(stored.log) + 1
      BY <1>1, <2>3, <3>1, StoresFacts DEF events
    <3>3. Len(stored.log) < Len(stored'.log)
      <4>1. Len(stored.log) \in Nat
        BY <1>1, LenProperties DEF Files, Logs
      <4> QED
        BY <3>2, <4>1
    <3> QED
      BY <1>1, <2>1, <2>3, <3>3, LeaveCarries
  <2> QED
    BY <1>3, <2>1, <2>2, <2>3
<1>14. CASE Truncate \/ Close
  <2> DEFINE k == Head(chain).who
  <2>1. CASE UNCHANGED caller
    BY <1>2, <2>1
  <2>2. CASE RepairFails
    <3>1. task.step # "start"
      BY <1>14 DEF Truncate, Close
    <3>2. CASE Running("commit") /\ Throws(k)
      BY <1>1, <1>9, <3>1, <3>2, RunsOn, DropCarries DEF Own
    <3>3. CASE Running("append") /\ caller' = Returned(k, caller)
      BY <1>3, <1>9, <3>3 DEF Own
    <3> QED
      BY <1>2, <2>2, <3>2, <3>3 DEF RepairFails
  <2> QED
    BY <1>14, <2>1, <2>2 DEF Truncate, Close, Repaired
<1>15. CASE prepareCore
  <2> DEFINE kk == Head(chain).who
             waiting(c) == caller[c].at = "load" /\ caller[c].loader = kk
             loaded(c) == [caller[c] EXCEPT !.at = "loaded", !.loader = nobody,
                                            !.source = stored]
  <2>1. ASSUME NEW c \in Callers
        PROVE  \/ caller'[c] \in {caller[c], Outside, loaded(c)}
               \/ caller'[c] = Forgotten[c] /\ entry.phase = "loading"
    BY <1>15 DEF prepareCore
  <2>2. ASSUME NEW c \in Callers
        PROVE  loaded(c).at = "loaded" /\ Outside.at = "outside"
    BY <1>1 DEF Formed, Fields, Outside
  <2> QED
    BY <1>1, <2>1, <2>2, RestCarries, Unheld DEF Carries, Holds
<1>16. ASSUME NEW k \in Callers,
              \/ \E op \in {"inspect", "prepare"} : Call(k, op)
              \/ append(k)
       PROVE  Goal
  <2>1. \E r : /\ r.at \in {"retirement", "append"}
               /\ caller' = [caller EXCEPT ![k] = r]
    <3>1. ASSUME NEW op, Call(k, op)
          PROVE  \E r : r.at = "retirement" /\ caller' = [caller EXCEPT ![k] = r]
      BY <3>1 DEF Call, Outside
    <3>2. ASSUME append(k)
          PROVE  \E r : r.at = "append" /\ caller' = [caller EXCEPT ![k] = r]
      BY <3>2 DEF append, Outside
    <3> QED
      BY <1>16, <3>1, <3>2
  <2>2. /\ caller'[k].at \in {"retirement", "append"}
        /\ \A c \in Callers \ {k} : caller'[c] = caller[c]
    BY <1>1, <2>1 DEF Formed
  <2>3. Carries(k)
    BY <2>2 DEF Carries, Holds
  <2> QED
    BY <1>1, <2>2, <2>3, RestCarries
<1>17. ASSUME NEW k \in Callers, Abort(k) PROVE Goal
  <2>1. CASE caller' = [caller EXCEPT ![k].aborted = TRUE]
    <3>1. Fields(caller[k])
      BY <1>1 DEF Formed
    <3>2. /\ caller'[k].at = caller[k].at /\ caller'[k].source = caller[k].source
          /\ caller'[k].same = caller[k].same
          /\ \A c \in Callers \ {k} : caller'[c] = caller[c]
      BY <1>1, <2>1, <3>1 DEF Formed, Fields
    <3>3. Carries(k)
      BY <3>2 DEF Carries
    <3> QED
      BY <1>1, <3>2, <3>3, RestCarries
  <2>2. CASE caller' = Gone(k, caller)
    BY <1>3, <2>2
  <2>3. CASE caller[k].at = "commit" /\ caller' = Gone(k, Others(k))
    BY <1>1, <2>3, DropCarries
  <2> QED
    BY <1>17, <2>1, <2>2, <2>3 DEF Abort
<1>18. ASSUME NEW k \in Callers, NEW place, place \notin Holds,
              caller' = [caller EXCEPT ![k].at = place]
       PROVE  Goal
  <2>1. Fields(caller[k])
    BY <1>1 DEF Formed
  <2>2. caller'[k].at = place /\ \A c \in Callers \ {k} : caller'[c] = caller[c]
    BY <1>1, <1>18, <2>1 DEF Formed, Fields
  <2>3. Carries(k)
    BY <1>18, <2>2 DEF Carries
  <2> QED
    BY <1>1, <2>2, <2>3, RestCarries
<1>19. ASSUME NEW k \in Callers, Enter(k) \/ Inspect(k) \/ reserve(k)
       PROVE  Goal
  <2>1. CASE entryFor(k)
    <3>1. Fields(caller[k])
      BY <1>1 DEF Formed
    <3>2. /\ caller'[k].at \in {"load", "loaded"}
          /\ \A c \in Callers \ {k} : caller'[c] = caller[c]
      BY <1>1, <2>1, <3>1 DEF Formed, Fields, entryFor
    <3>3. Carries(k)
      BY <3>2 DEF Carries, Holds
    <3> QED
      BY <1>1, <3>2, <3>3, RestCarries
  <2>2. CASE /\ caller[k].same /\ entry.phase = "ready"
             /\ caller' = [caller EXCEPT ![k].at = "commit", ![k].source = entry.source]
    <3>1. Fields(caller[k])
      BY <1>1 DEF Formed
    <3>2. /\ caller'[k].same /\ caller'[k].source = entry.source
          /\ \A c \in Callers \ {k} : caller'[c] = caller[c]
      BY <1>1, <2>2, <3>1 DEF Formed, Fields
    <3>3. Carries(k)
      BY <2>2, <3>2 DEF Carries, Read
    <3> QED
      BY <1>1, <3>2, <3>3, RestCarries
  <2> QED
    BY <1>3, <1>18, <1>19, <2>1, <2>2 DEF Enter, Inspect, reserve, Holds
<1>20. ASSUME NEW k \in Callers, HolderEnds(k) PROVE Goal
  <2>1. caller[k].at = "hold"
    BY <1>20 DEF HolderEnds, Publish, release
  <2>2. entry.phase = "reserved"
    BY <1>1, <2>1 DEF PoolOK, Reserves
  <2>3. caller' \in {Returned(k, caller), Returned(k, Forgotten)}
    BY <1>20 DEF HolderEnds, Publish, release
  <2> QED
    BY <1>3, <1>5, <2>2, <2>3
<1> QED
  BY <1>6, <1>7, <1>8, <1>10, <1>11, <1>12, <1>13, <1>14, <1>15, <1>16, <1>17, <1>19,
     <1>20
  DEF Next, Progress, Serialized, Continues, Drains

\* An entry keeps the log it has, or is filled with the log as it is; it becomes
\* reserved when a commit is done.
EntryMoves ==
  /\ entry'.phase \in Read =>
       \/ entry.phase \in Read /\ entry'.source = entry.source
       \/ entry'.source = stored /\ ~Absent(stored) /\ stored' = stored
  /\ entry'.phase = "reserved" =>
       entry.phase = "reserved" \/ (FinishCommit /\ task.step = "kept")

\* Every step moves the entry so.
LEMMA EntryCarries ==
  ASSUME LifeInv, [Next]_vars
  PROVE  EntryMoves
<1>1. IInv /\ PoolOK /\ entry = [phase |-> entry.phase, source |-> entry.source,
                                 loader |-> entry.loader]
  BY DEF LifeInv, IInv, Formed
<1>2. ASSUME UNCHANGED entry PROVE EntryMoves
  BY <1>2 DEF EntryMoves
<1>3. ASSUME entry' = NoEntry PROVE EntryMoves
  BY <1>3 DEF NoEntry, Read, EntryMoves
<1>4. ASSUME NEW phase, entry.phase \in Read, entry' = [entry EXCEPT !.phase = phase],
             phase = "reserved" => FinishCommit /\ task.step = "kept"
      PROVE  EntryMoves
  BY <1>1, <1>4 DEF EntryMoves
<1>5. ASSUME NEW k, Throws(k) \/ Undefined(k) \/ Dropped(k)
      PROVE  EntryMoves
  BY <1>2, <1>3, <1>5 DEF Throws, Undefined, Dropped, remove
<1>6. CASE \/ UNCHANGED vars \/ Record \/ Dispose \/ Foreign \/ retireCore
           \/ onCreated \/ Evict \/ CheckInspected
  BY <1>2, <1>3, <1>6 DEF vars, Record, Dispose, Foreign, retireCore, onCreated, Evict,
                          CheckInspected, remove
<1>7. ASSUME \/ \E s \in Lives : Write(s) \/ Flushed(s)
             \/ \E n \in 0 .. 1 : Create(n)
      PROVE  EntryMoves
  BY <1>2, <1>7 DEF Write, Flushed, Create
<1>8. CASE appendLiveBatch \/ AppendSeed
  BY <1>2, <1>3, <1>8 DEF appendLiveBatch, AppendSeed, Stores, remove
<1>9. CASE StartCommit
  BY <1>2, <1>5, <1>9 DEF StartCommit
<1>10. CASE FinishCommit
  <2> DEFINE k == Head(chain).who
  <2>1. Running("commit") /\ k \in Callers /\ caller[k].at = "commit"
    BY <1>1, <1>10, HeadOwn, RunsOn DEF FinishCommit, Own
  <2>2. caller[k].same => entry.phase = "committing"
    BY <1>1, <2>1 DEF PoolOK, Commits
  <2>3. \/ Undefined(k) \/ Throws(k) \/ UNCHANGED entry
        \/ caller[k].same /\ makeReady
        \/ /\ caller[k].same /\ task.step = "kept"
           /\ entry' = [entry EXCEPT !.phase = "reserved"]
    BY <1>10 DEF FinishCommit
  <2>4. caller[k].same => entry.phase \in Read
    BY <2>2 DEF Read
  <2> QED
    BY <1>2, <1>4, <1>5, <1>10, <2>3, <2>4 DEF makeReady
<1>11. CASE StartAppend \/ TakeSource \/ Adopt \/ FinishAppend
  BY <1>2, <1>3, <1>11 DEF StartAppend, TakeSource, Adopt, FinishAppend, AppendThrows,
                           Stores, remove
<1>12. CASE Truncate \/ Close
  BY <1>2, <1>5, <1>12 DEF Truncate, Close, Repaired, RepairFails
<1>13. CASE prepareCore
  <2>1. \/ UNCHANGED entry \/ entry' = NoEntry
        \/ /\ entry' = [NoEntry EXCEPT !.phase = "ready", !.source = stored]
           /\ ~Absent(stored)
    BY <1>13 DEF prepareCore, remove
  <2>2. ASSUME entry' = [NoEntry EXCEPT !.phase = "ready", !.source = stored],
               ~Absent(stored)
        PROVE  EntryMoves
    <3>1. entry'.phase = "ready" /\ entry'.source = stored
      BY <2>2 DEF NoEntry
    <3>2. stored' = stored
      BY <1>13 DEF prepareCore
    <3> QED
      BY <2>2, <3>1, <3>2 DEF EntryMoves
  <2> QED
    BY <1>2, <1>3, <2>1, <2>2
<1>14. ASSUME NEW k \in Callers, \/ \E op \in {"inspect", "prepare"} : Call(k, op)
                                 \/ append(k) \/ Abort(k)
       PROVE  EntryMoves
  BY <1>2, <1>5, <1>14 DEF Call, append, Abort
<1>15. ASSUME NEW k \in Callers, Enter(k) \/ Inspect(k) \/ reserve(k)
       PROVE  EntryMoves
  <2>1. CASE entryFor(k)
    <3>1. ASSUME NEW j, entry' = [NoEntry EXCEPT !.phase = "loading", !.loader = j]
          PROVE  EntryMoves
      BY <3>1 DEF NoEntry, EntryMoves, Read
    <3> QED
      BY <1>2, <2>1, <3>1 DEF entryFor
  <2>2. CASE entry.phase = "ready" /\ entry' = [entry EXCEPT !.phase = "committing"]
    BY <1>4, <2>2 DEF Read
  <2> QED
    BY <1>2, <1>15, <2>1, <2>2 DEF Enter, Inspect, reserve
<1>16. ASSUME NEW k \in Callers, HolderEnds(k) PROVE EntryMoves
  <2>1. entry.phase = "reserved"
    BY <1>1, <1>16 DEF HolderEnds, Publish, release, PoolOK, Reserves
  <2>2. entry.phase \in Read
    BY <2>1 DEF Read
  <2>3. remove \/ makeReady
    BY <1>16 DEF HolderEnds, Publish, release
  <2> QED
    BY <1>3, <1>4, <2>2, <2>3 DEF remove, makeReady
<1> QED
  BY <1>6, <1>7, <1>8, <1>9, <1>10, <1>11, <1>12, <1>13, <1>14, <1>15, <1>16
  DEF Next, Progress, Serialized, Continues, Drains

\* So what was read stays the beginning of what is stored.
LEMMA ReadKept ==
  ASSUME LifeInv, ReadOK, [Next]_vars
  PROVE  ReadOK'
<1>1. IsPrefix(stored.log, stored'.log) /\ (stored'.torn => stored'.log # <<>>)
  BY StoredGrows
<1>2. /\ \A c \in Callers : Carries(c)
      /\ EntryMoves
  BY CallersCarry, EntryCarries
<1>3. /\ stored.log \in Logs /\ stored'.log \in Logs /\ entry.source.log \in Logs
      /\ \A c \in Callers : caller[c].source.log \in Logs
      /\ IInv /\ PoolOK
  BY StoredTyped DEF LifeInv, IInv, SourcesOK, Sourced, Files
<1>4. Len(stored.log) \in Nat /\ Len(stored'.log) \in Nat /\ Len(stored.log) <= Len(stored'.log)
  BY <1>1, <1>3, PrefixFacts
<1>5. ASSUME NEW a \in Logs, IsPrefix(a, stored.log) PROVE IsPrefix(a, stored'.log)
  BY <1>1, <1>3, <1>5, PrefixTrans
<1>6. ASSUME entry'.phase \in Read
      PROVE  entry'.source.log # <<>> /\ IsPrefix(entry'.source.log, stored'.log)
  <2>1. CASE entry.phase \in Read /\ entry'.source = entry.source
    BY <1>3, <1>5, <2>1 DEF ReadOK
  <2>2. CASE entry'.source = stored /\ ~Absent(stored)
    BY <1>1, <2>2 DEF ReadOK, Absent
  <2> QED
    BY <1>2, <1>6, <2>1, <2>2 DEF EntryMoves
<1>7. ASSUME NEW c \in Callers, caller'[c].at \in Holds
      PROVE  /\ caller'[c].source.log # <<>>
             /\ IsPrefix(caller'[c].source.log, stored'.log)
  <2>1. CASE caller[c].at \in Holds /\ caller'[c].source = caller[c].source
    BY <1>3, <1>5, <2>1 DEF ReadOK
  <2>2. CASE caller'[c].source = entry.source /\ entry.phase \in Read
    BY <1>3, <1>5, <2>2 DEF ReadOK
  <2> QED
    BY <1>2, <1>7, <2>1, <2>2 DEF Carries
<1>8. ASSUME NEW c \in Callers, caller'[c].at = "commit", ~caller'[c].same
      PROVE  Len(caller'[c].source.log) < Len(stored'.log)
  <2>1. /\ caller[c].at = "commit" /\ caller'[c].source = caller[c].source
        /\ ~caller[c].same \/ Len(stored.log) < Len(stored'.log)
    BY <1>2, <1>8 DEF Carries, Holds, Commits
  <2> DEFINE m == Len(caller[c].source.log)
  <2>2. m \in Nat /\ m <= Len(stored.log)
    BY <1>3, <2>1, PrefixFacts DEF ReadOK, Holds
  <2>3. ~caller[c].same => m < Len(stored.log)
    BY <2>1 DEF ReadOK
  <2> HIDE DEF m
  <2>4. m < Len(stored'.log)
    BY <1>4, <2>1, <2>2, <2>3
  <2> QED
    BY <2>1, <2>4 DEF m
<1> QED
  BY <1>1, <1>6, <1>7, <1>8 DEF ReadOK
-----------------------------------------------------------------------------
(***************************************************************************)
(* Whose events are heard of where.                                        *)
(***************************************************************************)
\* A session is edited without touching its log.
LEMMA LogRests ==
  ASSUME session \in [Lives -> Sessions], NEW r \in Lives, NEW s, NEW value,
         \/ UNCHANGED session
         \/ session' = [session EXCEPT ![s].init = value]
         \/ session' = [session EXCEPT ![s].writing = value]
         \/ session' = [session EXCEPT ![s].retirement = value]
         \/ session' = [session EXCEPT ![s].writing = FALSE, ![s].retirement = value]
         \/ session' = [session EXCEPT ![s].writing = FALSE, ![s].from = value]
  PROVE  session'[r].log = session[r].log
<1>1. session[r] \in Sessions
  OBVIOUS
<1>2. CASE r # s
  BY <1>2
<1>3. CASE r = s
  BY <1>1, <1>3 DEF Sessions
<1> QED
  BY <1>2, <1>3

\* A session's log rests, is forgotten with it, or records one event of its own;
\* or it begins, with its own events behind what was read.
LogMoves(r) ==
  \/ session'[r].log = session[r].log
  \/ session'[r].log = <<>> /\ Running("release")
  \/ session'[r].log = Append(session[r].log, Event(r, FALSE))
  \/ \E n \in 0 .. 1 : r = born + 1 /\ session'[r].log = SessionEvents(r, n)
  \/ \E c \in Callers, n \in 0 .. 1 :
       /\ caller[c].at = "hold" /\ r = born + 1
       /\ session'[r].log = caller[c].source.log \o SessionEvents(r, n)

\* Every step moves every log so.
LEMMA LogsMove ==
  ASSUME LifeInv, [Next]_vars, NEW r \in Lives PROVE LogMoves(r)
<1>1. /\ session \in [Lives -> Sessions] /\ session[r] \in Sessions
      /\ born \in 0 .. MaxLives /\ current \in {nobody, born} /\ MaxLives \in Nat
  BY BoundsAssumption DEF LifeInv, LivesOK
<1>2. ASSUME NEW s, NEW value,
             \/ UNCHANGED session
             \/ session' = [session EXCEPT ![s].init = value]
             \/ session' = [session EXCEPT ![s].writing = value]
             \/ session' = [session EXCEPT ![s].retirement = value]
             \/ session' = [session EXCEPT ![s].writing = FALSE, ![s].retirement = value]
             \/ session' = [session EXCEPT ![s].writing = FALSE, ![s].from = value]
      PROVE  LogMoves(r)
  BY <1>1, <1>2, LogRests DEF LogMoves
<1>3. ASSUME UNCHANGED session PROVE LogMoves(r)
  BY <1>2, <1>3
<1>4. ASSUME NEW s, NEW value, Initialized(s, value) PROVE LogMoves(r)
  BY <1>2, <1>4 DEF Initialized
<1>5. ASSUME NEW s, NEW cursor, NEW mat, NEW last, Binds(s, cursor, mat, last)
      PROVE  LogMoves(r)
  BY <1>3, <1>4, <1>5 DEF Binds
<1>6. CASE \/ UNCHANGED vars \/ Evict \/ Foreign \/ prepareCore \/ CheckInspected
           \/ StartCommit \/ FinishCommit \/ StartAppend \/ TakeSource \/ Adopt
           \/ FinishAppend
  BY <1>3, <1>6
  DEF vars, Evict, Foreign, prepareCore, CheckInspected, StartCommit, FinishCommit,
      StartAppend, TakeSource, AppendThrows, Adopt, FinishAppend
<1>7. ASSUME NEW k \in Callers,
             \/ Continues(k) \/ append(k) \/ Abort(k)
             \/ \E op \in {"inspect", "prepare"} : Call(k, op)
             \/ \E reusable \in BOOLEAN : release(k, reusable)
      PROVE  LogMoves(r)
  BY <1>3, <1>7 DEF Continues, Enter, Inspect, reserve, append, Abort, Call, release
<1>8. CASE onCreated
  <2>1. ASSUME NEW s, NEW seed, adoptLivePrefix(s, seed) PROVE LogMoves(r)
    BY <1>3, <1>4, <1>5, <2>1 DEF adoptLivePrefix, Collides
  <2> QED
    BY <1>4, <1>5, <1>8, <2>1 DEF onCreated, Collides
<1>9. CASE Truncate \/ Close
  BY <1>3, <1>4, <1>5, <1>9 DEF Truncate, Close, Repaired, RepairFails
<1>10. CASE AppendSeed
  BY <1>4, <1>10 DEF AppendSeed
<1>11. CASE appendLiveBatch
  <2> DEFINE s == Head(chain).who
             next == Head(chain).last + 1
  <2>1. \/ session' = [session EXCEPT ![s].writing = FALSE, ![s].from = next]
        \/ session' = [session EXCEPT ![s].writing = FALSE]
        \/ session' = [session EXCEPT ![s].writing = FALSE, ![s].retirement = "failed"]
    BY <1>11 DEF appendLiveBatch
  <2> HIDE DEF s, next
  <2> QED
    BY <1>2, <2>1
<1>12. ASSUME NEW s \in Lives, Drains(s) PROVE LogMoves(r)
  BY <1>2, <1>12 DEF Drains, Write, Flushed
<1>13. CASE Dispose
  BY <1>2, <1>13 DEF Dispose
<1>14. CASE Record
  <2> DEFINE w == Append(session[current].log, Event(current, FALSE))
  <2>1. session' = [session EXCEPT ![current].log = w]
    BY <1>14 DEF Record
  <2> HIDE DEF w
  <2>2. IF r = current THEN session'[r].log = w ELSE session'[r].log = session[r].log
    BY <1>1, <2>1 DEF Sessions
  <2> QED
    BY <2>2 DEF LogMoves, w
<1>15. CASE retireCore
  <2> DEFINE s == Head(chain).who
             gone == [Unborn EXCEPT !.retirement = "done"]
  <2>1. /\ session' = [session EXCEPT ![s] = gone] /\ gone.log = <<>>
        /\ Running("release")
    BY <1>15 DEF retireCore, Unborn
  <2> HIDE DEF s, gone
  <2>2. session'[r].log = session[r].log \/ session'[r].log = <<>>
    BY <1>1, <2>1
  <2> QED
    BY <2>1, <2>2 DEF LogMoves
<1>16. ASSUME NEW log, NEW from, NEW init,
              session' = [session EXCEPT ![born + 1] =
                [Unborn EXCEPT !.log = log, !.from = from, !.init = init]]
       PROVE  session'[r].log = session[r].log
              \/ (r = born + 1 /\ session'[r].log = log)
  <2> DEFINE fresh == [Unborn EXCEPT !.log = log, !.from = from, !.init = init]
             s == born + 1
  <2>1. fresh.log = log
    BY DEF Unborn
  <2> HIDE DEF fresh, s
  <2>2. session' = [session EXCEPT ![s] = fresh]
    BY <1>16 DEF fresh, s
  <2>3. session'[r].log = session[r].log \/ (r = s /\ session'[r].log = log)
    BY <1>1, <2>1, <2>2
  <2> QED
    BY <2>3 DEF s
<1>17. ASSUME NEW n \in 0 .. 1, Create(n) PROVE LogMoves(r)
  <2> DEFINE log == SessionEvents(born + 1, n)
  <2>1. session' = [session EXCEPT ![born + 1] =
           [Unborn EXCEPT !.log = log, !.from = n + 1, !.init = "queued"]]
    BY <1>17 DEF Create
  <2> HIDE DEF log
  <2>2. session'[r].log = session[r].log \/ (r = born + 1 /\ session'[r].log = log)
    BY <1>16, <2>1
  <2> QED
    BY <2>2 DEF LogMoves, log
<1>18. ASSUME NEW k \in Callers, NEW n \in 0 .. 1, Publish(k, n) PROVE LogMoves(r)
  <2> DEFINE log == caller[k].source.log \o SessionEvents(born + 1, n)
             from == Len(log) + 1
             init == IF n = 0 THEN "done" ELSE "queued"
  <2>1. /\ session' = [session EXCEPT ![born + 1] =
               [Unborn EXCEPT !.log = log, !.from = from, !.init = init]]
        /\ caller[k].at = "hold"
    BY <1>18 DEF Publish
  <2> HIDE DEF log, from, init
  <2>2. session'[r].log = session[r].log \/ (r = born + 1 /\ session'[r].log = log)
    BY <1>16, <2>1
  <2> QED
    BY <2>1, <2>2 DEF LogMoves, log
<1> QED
  BY <1>6, <1>7, <1>8, <1>9, <1>10, <1>11, <1>12, <1>13, <1>14, <1>15, <1>17, <1>18
  DEF Next, Progress, Serialized, HolderEnds

\* What a step puts behind the log: nothing, an event of nobody's, or events of
\* the session whose operation runs.
StoreMoves ==
  \/ stored'.log = stored.log
  \/ \E end \in BOOLEAN : stored'.log = stored.log \o <<Event(nobody, end)>>
  \/ stored'.log = Append(stored.log, Event(nobody, TRUE))
  \/ /\ Running("batch") \/ Running("suffix") \/ (Running("created") /\ task.step = "append")
     /\ \E first \in Nat \ {0}, last \in 0 .. Len(session[Head(chain).who].log) :
          stored'.log = stored.log \o SubSeq(session[Head(chain).who].log, first, last)

\* Every step stores so.
LEMMA StoreMove ==
  ASSUME LifeInv, [Next]_vars PROVE StoreMoves
<1>1. /\ stored \in Files /\ stored.log \in Logs /\ state \in States /\ Formed
      /\ IInv /\ SourcesOK /\ LivesOK /\ JobsOK
  BY DEF LifeInv, SourcesOK, Files, LivesOK, IInv
<1>2. ASSUME UNCHANGED stored PROVE StoreMoves
  BY <1>2 DEF StoreMoves
<1>3. ASSUME NEW events \in Logs, Stores(events)
      PROVE  stored'.log = stored.log \o events
  BY <1>1, <1>3, StoresFacts
<1>4. CASE Truncate \/ Close
  <2>1. CASE stored' = [stored EXCEPT !.torn = FALSE]
    <3>1. stored'.log = stored.log
      BY <1>1, <2>1 DEF Files
    <3> QED
      BY <3>1 DEF StoreMoves
  <2>2. CASE stored' = [stored EXCEPT !.log = @ \o closers(task.source.log)]
    <3>1. stored'.log = stored.log \o closers(task.source.log)
      BY <1>1, <2>2 DEF Files
    <3>2. closers(task.source.log) \in {<<>>, <<Event(nobody, TRUE)>>}
      BY DEF closers
    <3>3. stored.log \o <<>> = stored.log
      BY <1>1, ConcatEmptySeq DEF Logs
    <3> QED
      BY <3>1, <3>2, <3>3 DEF StoreMoves
  <2>3. CASE UNCHANGED stored
    BY <1>2, <2>3
  <2> QED
    BY <1>4, <2>1, <2>2, <2>3 DEF Truncate, Close, RepairFails
<1>5. CASE Foreign
  <2> DEFINE w == Append(stored.log, Event(nobody, TRUE))
  <2>1. PICK torn \in BOOLEAN : stored' = [log |-> w, torn |-> torn]
    BY <1>5 DEF Foreign
  <2> HIDE DEF w
  <2>2. stored'.log = w
    BY <2>1
  <2> QED
    BY <2>2 DEF StoreMoves, w
<1>6. CASE FinishAppend
  <2>1. <<Event(nobody, FALSE)>> \in Logs
    BY SmallLogs DEF nobody
  <2>2. Stores(<<Event(nobody, FALSE)>>) \/ UNCHANGED stored
    BY <1>6 DEF FinishAppend, AppendThrows
  <2> QED
    BY <1>2, <1>3, <2>1, <2>2 DEF StoreMoves
<1>7. CASE appendLiveBatch
  <2> DEFINE op == Head(chain)
             s == op.who
             first == IF op.first > state.cursor THEN op.first ELSE state.cursor + 1
             events == SubSeq(session[s].log, first, op.last)
  <2>1. /\ events \in Logs /\ first \in Nat \ {0} /\ op.last \in Nat
        /\ op.last <= Len(session[s].log) /\ s \in Lives
    BY <1>1, <1>7, BatchEvents DEF appendLiveBatch
  <2>2. Stores(events) \/ UNCHANGED stored
    BY <1>7 DEF appendLiveBatch
  <2>3. op.last \in 0 .. Len(session[s].log)
    <3>1. session[s].log \in Logs
      BY <1>1, <2>1 DEF LivesOK, Sessions
    <3>2. Len(session[s].log) \in Nat
      BY <3>1, LenProperties DEF Logs
    <3> QED
      BY <2>1, <3>2
  <2>4. Running("batch")
    BY <1>7 DEF appendLiveBatch
  <2>5. CASE Stores(events)
    <3>1. stored'.log = stored.log \o events
      BY <1>3, <2>1, <2>5
    <3> HIDE DEF first
    <3> QED
      BY <2>1, <2>3, <2>4, <3>1 DEF StoreMoves
  <2> QED
    BY <1>2, <2>2, <2>5
<1>8. CASE AppendSeed
  <2> DEFINE op == Head(chain)
             s == op.who
             first == IF op.op = "created" THEN state.cursor + 1 ELSE op.first
             events == SubSeq(session[s].log, first, op.last)
  <2>1. /\ events \in Logs /\ first \in Nat \ {0} /\ op.last \in Nat
        /\ op.last <= Len(session[s].log) /\ s \in Lives
    BY <1>1, <1>8, SeedEvents DEF AppendSeed
  <2>2. Stores(events) \/ UNCHANGED stored
    BY <1>8 DEF AppendSeed
  <2>3. op.last \in 0 .. Len(session[s].log)
    <3>1. session[s].log \in Logs
      BY <1>1, <2>1 DEF LivesOK, Sessions
    <3>2. Len(session[s].log) \in Nat
      BY <3>1, LenProperties DEF Logs
    <3> QED
      BY <2>1, <3>2
  <2>4. Running("suffix") \/ (Running("created") /\ task.step = "append")
    BY <1>8 DEF AppendSeed
  <2>5. CASE Stores(events)
    <3>1. stored'.log = stored.log \o events
      BY <1>3, <2>1, <2>5
    <3> HIDE DEF first
    <3> QED
      BY <2>1, <2>3, <2>4, <3>1 DEF StoreMoves
  <2> QED
    BY <1>2, <2>2, <2>5
<1>9. CASE \/ UNCHANGED vars \/ Record \/ Evict \/ Dispose \/ prepareCore
           \/ CheckInspected \/ StartCommit \/ FinishCommit \/ retireCore
           \/ onCreated \/ StartAppend \/ TakeSource \/ Adopt
  BY <1>2, <1>9
  DEF vars, Record, Evict, Dispose, prepareCore, CheckInspected, StartCommit,
      FinishCommit, retireCore, onCreated, StartAppend, TakeSource, AppendThrows, Adopt
<1>10. ASSUME \/ \E s \in Lives : Drains(s)
              \/ \E n \in 0 .. 1 : Create(n)
              \/ \E k \in Callers : \/ Continues(k) \/ HolderEnds(k)
                                    \/ append(k) \/ Abort(k)
                                    \/ \E op \in {"inspect", "prepare"} : Call(k, op)
       PROVE  StoreMoves
  BY <1>2, <1>10
  DEF Drains, Write, Flushed, Create, Continues, HolderEnds, Enter, Inspect, reserve,
      Publish, release, append, Abort, Call
<1> QED
  BY <1>4, <1>5, <1>6, <1>7, <1>8, <1>9, <1>10 DEF Next, Progress, Serialized

\* Nobody hears of a session's events but from its own operation.
LEMMA UnheardKept ==
  ASSUME LifeInv, ReadOK, [Next]_vars, NEW s \in Lives, Unheard(s),
         Running("batch") \/ Running("suffix")
           \/ (Running("created") /\ task.step = "append")
           => Head(chain).who # s
  PROVE  Unheard(s)'
<1>1. /\ stored.log \in Logs /\ Formed /\ IInv /\ SourcesOK /\ LivesOK /\ JobsOK
      /\ session \in [Lives -> Sessions] /\ \A r \in Lives : session[r].log \in Logs
      /\ s # nobody
  BY DEF LifeInv, SourcesOK, Files, LivesOK, IInv, Sessions, Lives, nobody
<1>2. Alien(s, stored.log) /\ \A r \in Lives : r # s => Alien(s, session[r].log)
  BY DEF Unheard
<1>3. Alien(s, stored'.log)
  <2>1. CASE stored'.log = stored.log
    BY <1>2, <2>1
  <2>2. ASSUME NEW end \in BOOLEAN, stored'.log = stored.log \o <<Event(nobody, end)>>
        PROVE  Alien(s, stored'.log)
    <3>1. <<Event(nobody, end)>> \in Logs /\ Alien(s, <<Event(nobody, end)>>)
      BY <1>1, SmallLogs, SmallAliens DEF nobody
    <3> QED
      BY <1>1, <1>2, <2>2, <3>1, AlienLogs
  <2>3. CASE stored'.log = Append(stored.log, Event(nobody, TRUE))
    <3>1. Event(nobody, TRUE) \in Happening /\ Event(nobody, TRUE).by # s
      BY <1>1 DEF Event, Happening, nobody
    <3> QED
      BY <1>1, <1>2, <2>3, <3>1, AlienLogs
  <2>4. ASSUME Running("batch") \/ Running("suffix")
                 \/ (Running("created") /\ task.step = "append"),
               NEW first \in Nat \ {0}, NEW last \in 0 .. Len(session[Head(chain).who].log),
               stored'.log = stored.log \o SubSeq(session[Head(chain).who].log, first, last)
        PROVE  Alien(s, stored'.log)
    <3> DEFINE w == Head(chain).who
               events == SubSeq(session[w].log, first, last)
    <3>1. Bonded(Head(chain), session, born)
      BY <1>1, <2>4, JobHead DEF SessionOps
    <3>2. w \in Lives /\ w # s
      BY <1>1, <2>4, <3>1, BoundsAssumption DEF Bonded, LivesOK, Lives
    <3>3. events \in Logs /\ Alien(s, events)
      BY <1>1, <1>2, <3>2, AlienLogs, Stretch
    <3> HIDE DEF events
    <3>4. stored'.log = stored.log \o events
      BY <2>4 DEF events
    <3> QED
      BY <1>1, <1>2, <3>3, <3>4, AlienLogs
  <2> QED
    BY <2>1, <2>2, <2>3, <2>4, StoreMove DEF StoreMoves
<1>4. ASSUME NEW r \in Lives, r # s PROVE Alien(s, session'[r].log)
  <2>1. Alien(s, session[r].log) /\ session[r].log \in Logs /\ r \in Nat
    BY <1>1, <1>2, <1>4 DEF Lives
  <2>2. CASE session'[r].log = session[r].log
    BY <2>1, <2>2
  <2>3. CASE session'[r].log = <<>>
    BY <2>3, SmallAliens
  <2>4. CASE session'[r].log = Append(session[r].log, Event(r, FALSE))
    <3>1. Event(r, FALSE) \in Happening /\ Event(r, FALSE).by # s
      BY <1>4, <2>1 DEF Event, Happening
    <3> QED
      BY <2>1, <2>4, <3>1, AlienLogs
  <2>5. ASSUME NEW n \in 0 .. 1 PROVE Alien(s, SessionEvents(r, n))
    <3>1. n \in Nat /\ r \in Nat /\ s # r
      BY <1>4, <2>1
    <3> QED
      BY <3>1, SmallAliens
  <2>6. ASSUME NEW c \in Callers, NEW n \in 0 .. 1, caller[c].at = "hold",
               session'[r].log = caller[c].source.log \o SessionEvents(r, n)
        PROVE  Alien(s, session'[r].log)
    <3>1. caller[c].source.log \in Logs /\ SessionEvents(r, n) \in Logs
      BY <1>1, <2>1, SmallLogs DEF SourcesOK, Sourced, Files
    <3>2. IsPrefix(caller[c].source.log, stored.log)
      BY <2>6 DEF ReadOK, Holds
    <3>3. Alien(s, caller[c].source.log)
      BY <1>1, <1>2, <3>1, <3>2, AlienLogs
    <3> QED
      BY <2>5, <2>6, <3>1, <3>3, AlienLogs
  <2> QED
    BY <2>2, <2>3, <2>4, <2>5, <2>6, LogsMove DEF LogMoves
<1> QED
  BY <1>3, <1>4 DEF Unheard

\* Sessions are born one by one, by publication or afresh.
LEMMA BornMoves ==
  ASSUME [Next]_vars
  PROVE  \/ born' = born
         \/ /\ born' = born + 1
            /\ \/ \E n \in 0 .. 1 : Create(n)
               \/ \E k \in Callers, n \in 0 .. 1 : Publish(k, n)
<1>1. CASE \/ UNCHANGED vars \/ Serialized \/ Record \/ Evict \/ Dispose \/ Foreign
  BY <1>1
  DEF vars, Serialized, Record, Evict, Dispose, Foreign, prepareCore, CheckInspected,
      StartCommit, FinishCommit, retireCore, appendLiveBatch, AppendSeed, onCreated,
      StartAppend, TakeSource, Adopt, FinishAppend, Truncate, Close
<1>2. ASSUME \/ \E s \in Lives : Drains(s)
             \/ \E k \in Callers : \/ Continues(k) \/ append(k) \/ Abort(k)
                                   \/ \E reusable \in BOOLEAN : release(k, reusable)
                                   \/ \E op \in {"inspect", "prepare"} : Call(k, op)
      PROVE  born' = born
  BY <1>2 DEF Drains, Write, Flushed, Continues, Enter, Inspect, reserve, append,
              Abort, release, Call
<1>3. ASSUME \/ \E n \in 0 .. 1 : Create(n)
             \/ \E k \in Callers, n \in 0 .. 1 : Publish(k, n)
      PROVE  born' = born + 1
  BY <1>3 DEF Create, Publish
<1> QED
  BY <1>1, <1>2, <1>3 DEF Next, Progress, HolderEnds

\* Nobody has heard of a session that is not born.
LEMMA HeardKept ==
  ASSUME LifeInv, ReadOK, HeardOK, [Next]_vars PROVE HeardOK'
<1>1. /\ Formed /\ JobsOK /\ born \in 0 .. MaxLives /\ MaxLives \in Nat
  BY BoundsAssumption DEF LifeInv, IInv, LivesOK
<1>2. ASSUME NEW s \in Lives, s > born' PROVE Unheard(s)'
  <2>1. s \in Nat /\ s > born
    BY <1>1, <1>2, BornMoves DEF Lives
  <2>2. Unheard(s)
    BY <2>1 DEF HeardOK
  <2>3. ASSUME NEW op \in SessionOps, Running(op) PROVE Head(chain).who # s
    BY <1>1, <2>1, <2>3, JobHead DEF Bonded
  <2> QED
    BY <2>2, <2>3, UnheardKept DEF SessionOps
<1> QED
  BY <1>2 DEF HeardOK
-----------------------------------------------------------------------------
(***************************************************************************)
(* The count, the owner and its work, action by action.                    *)
(***************************************************************************)
NumbersOK == CountOK /\ OwnerOK /\ WorkOK

\* The records behind the invariant.
LEMMA CountsFacts ==
  ASSUME CountsInv
  PROVE  /\ IInv /\ Formed /\ PoolOK /\ SourcesOK /\ LivesOK /\ JobsOK
         /\ ReadOK /\ CountOK /\ OwnerOK /\ WorkOK /\ SeedsOK /\ OrderOK /\ ClaimsOK
         /\ StepsOK /\ TaskOK
         /\ stored \in Files /\ stored.log \in Logs /\ Len(stored.log) \in Nat
         /\ state \in States /\ state.cursor \in Nat /\ state.owner \in 0 .. born
         /\ session \in [Lives -> Sessions] /\ born \in Nat /\ current \in {nobody, born}
         /\ \A r \in Lives : /\ session[r].log \in Logs /\ Len(session[r].log) \in Nat
                             /\ session[r].from \in Nat \ {0}
         /\ state.owner # nobody => state.owner \in Lives
<1>1. /\ IInv /\ Formed /\ PoolOK /\ SourcesOK /\ LivesOK /\ JobsOK
      /\ ReadOK /\ CountOK /\ OwnerOK /\ WorkOK /\ SeedsOK /\ OrderOK /\ ClaimsOK
      /\ StepsOK /\ TaskOK
  BY DEF CountsInv, LifeInv, IInv
<1>2. /\ stored \in Files /\ stored.log \in Logs /\ Len(stored.log) \in Nat
      /\ state \in States /\ state.cursor \in Nat /\ state.owner \in 0 .. born
      /\ session \in [Lives -> Sessions] /\ born \in 0 .. MaxLives /\ MaxLives \in Nat
      /\ current \in {nobody, born}
  BY <1>1, LenProperties, BoundsAssumption DEF SourcesOK, Files, Logs, LivesOK, States
<1>3. \A r \in Lives : /\ session[r].log \in Logs /\ Len(session[r].log) \in Nat
                       /\ session[r].from \in Nat \ {0}
  BY <1>2, LenProperties DEF Sessions, Logs
<1>4. state.owner # nobody => state.owner \in Lives
  BY <1>2 DEF Lives, nobody
<1>5. born \in Nat
  BY <1>2
<1> QED
  BY <1>1, <1>2, <1>3, <1>4, <1>5

\* The first operation and its caller or session.
LEMMA FirstIndex ==
  ASSUME Formed, NEW op, Running(op)
  PROVE  /\ 1 \in 1 .. Len(chain) /\ chain[1] = Head(chain) /\ chain[1].op = op
         /\ chain # <<>> /\ Len(chain) \in Nat
<1>1. PICK Jobs : chain \in Seq(Jobs)
  BY DEF Formed
<1> QED
  BY <1>1 DEF Running

\* The log, the ledger and the sessions rest.
LEMMA RestNumbers ==
  ASSUME CountsInv, UNCHANGED <<stored, state, session, current, born>>, EntryMoves
  PROVE  NumbersOK'
<1>1. CountOK /\ OwnerOK /\ WorkOK /\ StepsOK
  BY CountsFacts
<1>2. entry'.phase = "reserved" /\ state.tracked => state.cursor = Len(stored.log)
  <2>1. FinishCommit /\ task.step = "kept" => state.cursor = Len(stored.log)
    BY <1>1 DEF FinishCommit, StepsOK
  <2> QED
    BY <1>1, <2>1 DEF EntryMoves, CountOK
<1>3. CountOK'
  BY <1>1, <1>2 DEF CountOK
<1>4. OwnerOK'
  BY <1>1 DEF OwnerOK
<1>5. WorkOK'
  BY <1>1 DEF WorkOK, hasWork
<1> QED
  BY <1>3, <1>4, <1>5 DEF NumbersOK

\* Callers come and go, preparations are made and taken back.
LEMMA CallersNumbers ==
  ASSUME CountsInv, [Next]_vars,
         \/ UNCHANGED vars \/ Evict \/ prepareCore \/ CheckInspected \/ FinishCommit
         \/ StartAppend \/ TakeSource
         \/ \E k \in Callers : \/ Continues(k) \/ append(k) \/ Abort(k)
                               \/ \E reusable \in BOOLEAN : release(k, reusable)
                               \/ \E op \in {"inspect", "prepare"} : Call(k, op)
  PROVE  NumbersOK'
<1>1. EntryMoves
  BY EntryCarries DEF CountsInv
<1>2. UNCHANGED <<stored, state, session, current, born>>
  <2>1. CASE \/ UNCHANGED vars \/ Evict \/ prepareCore \/ CheckInspected
             \/ FinishCommit \/ StartAppend \/ TakeSource
    BY <2>1 DEF vars, Evict, prepareCore, CheckInspected, FinishCommit, StartAppend,
                TakeSource, AppendThrows
  <2>2. ASSUME NEW k \in Callers,
               \/ Continues(k) \/ append(k) \/ Abort(k)
               \/ \E reusable \in BOOLEAN : release(k, reusable)
               \/ \E op \in {"inspect", "prepare"} : Call(k, op)
        PROVE  UNCHANGED <<stored, state, session, current, born>>
    BY <2>2 DEF Continues, Enter, Inspect, reserve, append, Abort, release, Call
  <2> QED
    BY <2>1, <2>2
<1> QED
  BY <1>1, <1>2, RestNumbers

\* Another process writes: nothing is tracked.
LEMMA ForeignNumbers ==
  ASSUME CountsInv, [Next]_vars, Foreign PROVE NumbersOK'
<1>1. /\ ~state.tracked /\ UNCHANGED <<state, session, current, born>>
      /\ state = NoState
  BY CountsFacts DEF Foreign, CountOK
<1>2. stored'.log \in Logs /\ Len(stored'.log) \in Nat
  BY StoredTyped, LenProperties DEF CountsInv, LifeInv, Files, Logs
<1>3. CountOK' /\ OwnerOK'
  BY <1>1, <1>2 DEF CountOK, OwnerOK, NoState
<1>4. WorkOK'
  BY <1>1, CountsFacts DEF WorkOK, hasWork
<1> QED
  BY <1>3, <1>4 DEF NumbersOK

\* A commit, or the adoption by an append, tracks the log as it is.
LEMMA TracksNumbers ==
  ASSUME CountsInv, [Next]_vars, StartCommit \/ Adopt PROVE NumbersOK'
<1>1. EntryMoves /\ CountOK /\ OwnerOK /\ WorkOK /\ Formed /\ IInv
  BY EntryCarries, CountsFacts DEF CountsInv
<1>2. UNCHANGED <<stored, session, current, born>>
  BY DEF StartCommit, Adopt, AppendThrows
<1>3. CASE UNCHANGED state
  BY <1>1, <1>2, <1>3, RestNumbers
<1>4. ASSUME NEW source, commitPrepared(source), state' # state, source.log # <<>>,
             state.owner = nobody
      PROVE  NumbersOK'
  <2>1. source = stored /\ state' = Tracks(source.log)
    BY <1>4 DEF commitPrepared, isPreparedSourceCurrent
  <2>2. /\ state'.tracked /\ state'.cursor = Len(stored.log) /\ state'.materialized
        /\ state'.owner = nobody
    BY <1>4, <2>1, CountsFacts DEF Tracks, States
  <2>3. Len(stored.log) \in Nat /\ Len(stored.log) # 0
    BY <1>4, <2>1, CountsFacts, PrefixFacts
  <2>4. CountOK' /\ OwnerOK'
    BY <1>2, <2>2, <2>3 DEF CountOK, OwnerOK
  <2>5. WorkOK'
    BY <1>1, <1>2, <1>4, <2>2 DEF WorkOK, hasWork
  <2> QED
    BY <2>4, <2>5 DEF NumbersOK
<1>5. CASE StartCommit
  <2> DEFINE k == Head(chain).who
  <2>1. k \in Callers
    BY <1>1, <1>5, HeadOwn DEF StartCommit, Own
  <2>2. \/ UNCHANGED state
        \/ /\ caller[k].at = "commit" /\ state.owner = nobody
           /\ commitPrepared(caller[k].source)
    BY <1>5 DEF StartCommit
  <2>3. caller[k].at = "commit" => caller[k].source.log # <<>>
    BY <2>1, CountsFacts DEF ReadOK, Holds
  <2> QED
    BY <1>3, <1>4, <2>2, <2>3
<1>6. CASE Adopt
  <2>1. UNCHANGED state \/ (task.step = "adopt" /\ commitPrepared(task.source))
    BY <1>6 DEF Adopt, AppendThrows
  <2>2. Running("append")
    BY <1>6 DEF Adopt
  <2>3. state.owner = nobody
    BY <1>1, <2>2, FirstIndex, CountsFacts DEF ClaimsOK
  <2>4. task.step = "adopt" => task.source.log # <<>>
    BY <2>2, CountsFacts DEF StepsOK
  <2> QED
    BY <1>3, <1>4, <2>1, <2>3, <2>4
<1> QED
  BY <1>5, <1>6

\* What an edit of one session's record leaves alone.
LEMMA EditEffect ==
  ASSUME session \in [Lives -> Sessions], NEW s \in Lives, NEW value,
         \/ session' = [session EXCEPT ![s].init = value]
         \/ session' = [session EXCEPT ![s].writing = value]
         \/ session' = [session EXCEPT ![s].retirement = value]
         \/ session' = [session EXCEPT ![s].writing = FALSE, ![s].retirement = value]
         \/ session' = [session EXCEPT ![s].writing = FALSE, ![s].from = value]
  PROVE  /\ \A r \in Lives : r # s => session'[r] = session[r]
         /\ session'[s].log = session[s].log
         /\ session'[s].init \in {session[s].init, value}
         /\ session'[s].retirement \in {session[s].retirement, value}
         /\ session'[s].from \in {session[s].from, value}
<1>1. session[s] \in Sessions
  OBVIOUS
<1> QED
  BY <1>1 DEF Sessions

\* Initialization ends: that alone.
LEMMA InitializedEffect ==
  ASSUME session \in [Lives -> Sessions], NEW s \in Lives, NEW outcome,
         Initialized(s, outcome)
  PROVE  /\ \A r \in Lives : r # s => session'[r] = session[r]
         /\ session'[s].log = session[s].log /\ session'[s].init = outcome
         /\ session'[s].retirement = session[s].retirement
         /\ session'[s].from = session[s].from
         /\ session'[s].writing = session[s].writing
<1>1. session[s] \in Sessions
  OBVIOUS
<1> QED
  BY <1>1 DEF Sessions, Initialized

\* The log and the ledger rest, no session is initialized, gets work or comes
\* back from its retirement.
LEMMA QuietNumbers ==
  ASSUME CountsInv, EntryMoves, stored'.log = stored.log, UNCHANGED <<state, born>>,
         \A r \in Lives : /\ session'[r].log = session[r].log
                          /\ session'[r].from = session[r].from
                          /\ session'[r].init = "done" => session[r].init = "done"
                          /\ hasWork(r)' => hasWork(r)
                          /\ session'[r].retirement = "none" =>
                               session[r].retirement = "none",
         \/ current' = current
         \/ current' = nobody /\ session'[current].retirement # "none"
  PROVE  NumbersOK'
<1>1. /\ CountOK /\ OwnerOK /\ WorkOK /\ StepsOK
      /\ state.owner # nobody => state.owner \in Lives
      /\ current \in {nobody, born} /\ born \in 0 .. MaxLives /\ MaxLives \in Nat
  BY CountsFacts, BoundsAssumption DEF LivesOK
<1>2. entry'.phase = "reserved" /\ state.tracked => state.cursor = Len(stored.log)
  <2>1. FinishCommit /\ task.step = "kept" => state.cursor = Len(stored.log)
    BY <1>1 DEF FinishCommit, StepsOK
  <2> QED
    BY <1>1, <2>1 DEF EntryMoves, CountOK
<1>3. CountOK'
  BY <1>1, <1>2 DEF CountOK
<1>4. OwnerOK'
  BY <1>1 DEF OwnerOK
<1>5. born # nobody => born \in Lives
  BY <1>1 DEF Lives, nobody
<1>6. \A r \in Lives : r # nobody
  BY DEF Lives, nobody
<1>7. WorkOK'
  BY <1>1, <1>5, <1>6 DEF WorkOK
<1> QED
  BY <1>3, <1>4, <1>7 DEF NumbersOK

\* A session cannot be initialized.
LEMMA FailedNumbers ==
  ASSUME CountsInv, [Next]_vars, NEW s \in Lives, Initialized(s, "failed"),
         stored'.log = stored.log, UNCHANGED <<state, current, born>>
  PROVE  NumbersOK'
<1>1. EntryMoves /\ session \in [Lives -> Sessions]
  BY EntryCarries, CountsFacts DEF CountsInv
<1>2. /\ \A r \in Lives : r # s => session'[r] = session[r]
      /\ session'[s].log = session[s].log /\ session'[s].init = "failed"
      /\ session'[s].retirement = session[s].retirement
      /\ session'[s].from = session[s].from
      /\ session'[s].writing = session[s].writing
  BY <1>1, InitializedEffect
<1>3. \A r \in Lives : /\ session'[r].log = session[r].log
                       /\ session'[r].from = session[r].from
                       /\ session'[r].init = "done" => session[r].init = "done"
                       /\ hasWork(r)' => hasWork(r)
                       /\ session'[r].retirement = "none" =>
                            session[r].retirement = "none"
  BY <1>2 DEF hasWork
<1> QED
  BY <1>1, <1>3, QuietNumbers

\* A session gets hold of the state, whose log it begins with; nobody else works.
LEMMA BindsNumbers ==
  ASSUME CountsInv, [Next]_vars, Running("created"), NEW mat \in BOOLEAN,
         Binds(Head(chain).who, Len(stored.log), mat, Head(chain).last),
         IsPrefix(stored.log, session[Head(chain).who].log), ~mat => stored.log = <<>>,
         stored'.log = stored.log, UNCHANGED <<current, born>>,
         \A r \in Lives : r # Head(chain).who /\ session[r].init = "done"
                            => current # r /\ ~hasWork(r)
  PROVE  NumbersOK'
<1> DEFINE s == Head(chain).who
           last == Head(chain).last
           n == Len(stored.log)
<1>1. /\ s \in Lives /\ session[s].init = "queued" /\ session[s].from = last + 1
      /\ last \in Nat /\ n \in Nat /\ session \in [Lives -> Sessions] /\ WorkOK
      /\ s # nobody /\ stored.log \in Logs
  BY CountsFacts, SeedEvents DEF Lives, nobody
<1>2. n = 0 <=> stored.log = <<>>
  BY <1>1, PrefixFacts
<1>3. state' = Owned(s, n, mat)
  BY DEF Binds
<1>4. \/ last > n /\ UNCHANGED session
      \/ ~(last > n) /\ Initialized(s, "done")
  BY DEF Binds
<1>5. IsPrefix(stored.log, session[s].log)
  OBVIOUS
<1> HIDE DEF s, last, n
<1>6. /\ \A r \in Lives : r # s => session'[r] = session[r]
      /\ session'[s].log = session[s].log
      /\ session'[s].from = session[s].from
      /\ session'[s].retirement = session[s].retirement
      /\ session'[s].init = "done" => last <= n
  <2>1. CASE last > n /\ UNCHANGED session
    BY <1>1, <2>1
  <2>2. CASE ~(last > n) /\ Initialized(s, "done")
    BY <1>1, <2>2, InitializedEffect
  <2> QED
    BY <1>4, <2>1, <2>2
<1>7. /\ state'.tracked /\ state'.cursor = n /\ state'.materialized = mat
      /\ state'.owner = s
  BY <1>3 DEF Owned
<1>8. CountOK'
  BY <1>1, <1>2, <1>7 DEF CountOK, n
<1>9. OwnerOK'
  <2>1. session'[s].init = "done" => session'[s].from <= n + 1
    BY <1>1, <1>6
  <2> QED
    BY <1>5, <1>6, <1>7, <2>1 DEF OwnerOK, n
<1>10. WorkOK'
  <2>1. ASSUME NEW r \in Lives, session'[r].init = "done", current' = r \/ hasWork(r)'
        PROVE  r = s
    BY <1>6, <2>1 DEF hasWork, s
  <2>2. current' = nobody /\ born' # nobody => session'[born'].retirement # "none"
    <3>1. born # nobody => born \in Lives
      BY CountsFacts, BoundsAssumption DEF LivesOK, Lives, nobody
    <3> QED
      BY <1>1, <1>6, <3>1 DEF WorkOK
  <2> QED
    BY <1>7, <2>1, <2>2 DEF WorkOK
<1> QED
  BY <1>8, <1>9, <1>10 DEF NumbersOK

\* The controllers, retirement and disposal.
LEMMA DrainsNumbers ==
  ASSUME CountsInv, [Next]_vars,
         Dispose \/ retireCore \/ \E s \in Lives : Drains(s)
  PROVE  NumbersOK'
<1>1. /\ EntryMoves /\ session \in [Lives -> Sessions] /\ current \in {nobody, born}
      /\ born \in 0 .. MaxLives /\ MaxLives \in Nat /\ CountOK /\ OwnerOK /\ WorkOK
      /\ Formed /\ JobsOK
  BY EntryCarries, CountsFacts, BoundsAssumption DEF CountsInv, LivesOK
<1>2. current # nobody => current \in Lives
  BY <1>1 DEF Lives, nobody
<1>3. ASSUME NEW s \in Lives, Write(s) PROVE NumbersOK'
  <2>1. /\ \A r \in Lives : r # s => session'[r] = session[r]
        /\ session'[s].log = session[s].log
        /\ session'[s].init = session[s].init /\ session'[s].from = session[s].from
        /\ session'[s].retirement = session[s].retirement /\ hasWork(s)
    <3>1. session[s] \in Sessions
      BY <1>1
    <3> QED
      BY <1>1, <1>3, <3>1 DEF Write, Sessions
  <2>2. \A r \in Lives : /\ session'[r].log = session[r].log
                         /\ session'[r].from = session[r].from
                         /\ session'[r].init = "done" => session[r].init = "done"
                         /\ hasWork(r)' => hasWork(r)
                         /\ session'[r].retirement = "none" =>
                              session[r].retirement = "none"
    BY <2>1 DEF hasWork
  <2> QED
    BY <1>1, <1>3, <2>2, QuietNumbers DEF Write
<1>4. ASSUME NEW s \in Lives, NEW value, value # "none",
             session' = [session EXCEPT ![s].retirement = value]
      PROVE  /\ \A r \in Lives : /\ session'[r].log = session[r].log
                                 /\ session'[r].from = session[r].from
                                 /\ session'[r].init = "done" => session[r].init = "done"
                                 /\ hasWork(r)' => hasWork(r)
                                 /\ session'[r].retirement = "none" =>
                                      session[r].retirement = "none"
             /\ session'[s].retirement = value
  <2>1. session[s] \in Sessions
    BY <1>1
  <2>2. /\ \A r \in Lives : r # s => session'[r] = session[r]
        /\ session'[s].log = session[s].log
        /\ session'[s].init = session[s].init /\ session'[s].from = session[s].from
        /\ session'[s].retirement = value /\ session'[s].writing = session[s].writing
    BY <1>1, <1>4, <2>1 DEF Sessions
  <2> QED
    BY <1>4, <2>2 DEF hasWork
<1>5. ASSUME NEW s \in Lives, Flushed(s) PROVE NumbersOK'
  <2>1. PICK value \in {"failed", "release"} :
          session' = [session EXCEPT ![s].retirement = value]
    BY <1>5 DEF Flushed
  <2>2. \A r \in Lives : /\ session'[r].log = session[r].log
                         /\ session'[r].from = session[r].from
                         /\ session'[r].init = "done" => session[r].init = "done"
                         /\ hasWork(r)' => hasWork(r)
                         /\ session'[r].retirement = "none" =>
                              session[r].retirement = "none"
    BY <1>4, <2>1
  <2> QED
    BY <1>1, <1>5, <2>2, QuietNumbers DEF Flushed
<1>6. CASE Dispose
  <2>1. current \in Lives /\ session' = [session EXCEPT ![current].retirement = "flush"]
    BY <1>2, <1>6 DEF Dispose
  <2>2. /\ \A r \in Lives : /\ session'[r].log = session[r].log
                            /\ session'[r].from = session[r].from
                            /\ session'[r].init = "done" => session[r].init = "done"
                            /\ hasWork(r)' => hasWork(r)
                            /\ session'[r].retirement = "none" =>
                                 session[r].retirement = "none"
        /\ session'[current].retirement = "flush"
    BY <1>4, <2>1
  <2> QED
    BY <1>1, <1>6, <2>2, QuietNumbers DEF Dispose
<1>7. CASE retireCore
  <2> DEFINE s == Head(chain).who
             gone == [Unborn EXCEPT !.retirement = "done"]
  <2>1. Bonded(Head(chain), session, born) /\ Running("release")
    BY <1>1, <1>7, JobHead DEF retireCore, SessionOps
  <2>2. s \in Lives
    BY <1>1, <2>1 DEF Bonded, Lives
  <2>3. /\ gone.init = "none" /\ gone.retirement = "done"
        /\ session' = [session EXCEPT ![s] = gone]
        /\ state' = IF state.owner = s THEN NoState ELSE state
        /\ UNCHANGED <<stored, entry, current, born>>
    BY <1>7 DEF retireCore, Unborn
  <2> HIDE DEF s, gone
  <2>4. /\ session'[s] = gone /\ \A r \in Lives : r # s => session'[r] = session[r]
    BY <1>1, <2>2, <2>3
  <2>5. CountOK' /\ OwnerOK'
    <3>1. CASE state' = NoState
      <4>1. Len(stored.log) \in Nat
        BY CountsFacts
      <4> QED
        BY <2>3, <3>1, <4>1 DEF CountOK, OwnerOK, NoState
    <3>2. CASE state' = state /\ state.owner # s
      <4>1. state.owner # nobody => session'[state.owner] = session[state.owner]
        BY <2>4, <3>2, CountsFacts
      <4> QED
        BY <1>1, <2>3, <3>2, <4>1 DEF CountOK, OwnerOK
    <3> QED
      BY <2>3, <3>1, <3>2
  <2>6. ASSUME NEW r \in Lives, session'[r].init = "done", current' = r \/ hasWork(r)'
        PROVE  state'.owner = r
    <3>1. r # s
      BY <2>3, <2>4, <2>6
    <3>2. state.owner = r
      BY <1>1, <2>3, <2>4, <2>6, <3>1 DEF WorkOK, hasWork
    <3> QED
      BY <2>3, <3>1, <3>2
  <2>7. current = nobody /\ born # nobody => session'[born].retirement # "none"
    <3>1. born # nobody => born \in Lives
      BY <1>1 DEF Lives, nobody
    <3> QED
      BY <1>1, <2>3, <2>4, <3>1 DEF WorkOK
  <2> QED
    BY <2>3, <2>5, <2>6, <2>7 DEF WorkOK, NumbersOK
<1> QED
  BY <1>3, <1>5, <1>6, <1>7 DEF Drains

\* An event is recorded behind those of the session, which works for its log if
\* it is initialized.
LEMMA RecordNumbers ==
  ASSUME CountsInv, [Next]_vars, Record PROVE NumbersOK'
<1> DEFINE s == current
           e == Event(s, FALSE)
           w == Append(session[s].log, e)
<1>1. /\ session \in [Lives -> Sessions] /\ s \in Lives /\ s \in Nat /\ s # nobody
      /\ CountOK /\ OwnerOK /\ WorkOK /\ stored.log \in Logs
      /\ session[s] \in Sessions /\ session[s].log \in Logs /\ current = born
  BY CountsFacts, BoundsAssumption DEF LivesOK, Lives, nobody, Record
<1>2. w \in Logs /\ IsPrefix(session[s].log, w)
  <2>1. e \in Happening
    BY <1>1 DEF Event, Happening
  <2> QED
    BY <1>1, <2>1, PrefixGrows
<1>3. /\ session' = [session EXCEPT ![s].log = w]
      /\ UNCHANGED <<stored, state, entry, current, born>>
  BY DEF Record
<1> HIDE DEF w
<1>4. /\ \A r \in Lives : r # s => session'[r] = session[r]
      /\ session'[s].log = w /\ session'[s].init = session[s].init
      /\ session'[s].from = session[s].from
  BY <1>1, <1>3 DEF Sessions
<1>5. CountOK'
  BY <1>1, <1>3 DEF CountOK
<1>6. ASSUME state.owner # nobody
      PROVE  /\ IsPrefix(stored.log, session'[state.owner].log)
             /\ session'[state.owner].init = session[state.owner].init
             /\ session'[state.owner].from = session[state.owner].from
  <2>1. IsPrefix(stored.log, session[state.owner].log) /\ state.owner \in Lives
    BY <1>1, <1>6, CountsFacts DEF OwnerOK
  <2>2. CASE state.owner = s
    <3>1. IsPrefix(stored.log, w)
      BY <1>1, <1>2, <2>1, <2>2, PrefixTrans
    <3> QED
      BY <1>4, <2>2, <3>1
  <2>3. CASE state.owner # s
    BY <1>4, <2>1, <2>3
  <2> QED
    BY <2>2, <2>3
<1>7. OwnerOK'
  BY <1>1, <1>3, <1>6 DEF OwnerOK
<1>8. ASSUME NEW r \in Lives, session'[r].init = "done", current = r \/ hasWork(r)'
      PROVE  state.owner = r
  BY <1>1, <1>3, <1>4, <1>8 DEF WorkOK, hasWork
<1>9. WorkOK'
  BY <1>1, <1>3, <1>8 DEF WorkOK
<1> QED
  BY <1>5, <1>7, <1>9 DEF NumbersOK

\* What is done to a new record.
LEMMA NewRecord ==
  ASSUME session \in [Lives -> Sessions], NEW s \in Lives, NEW log, NEW from, NEW init,
         session' = [session EXCEPT ![s] =
           [Unborn EXCEPT !.log = log, !.from = from, !.init = init]]
  PROVE  /\ \A r \in Lives : r # s => session'[r] = session[r]
         /\ session'[s].log = log /\ session'[s].from = from /\ session'[s].init = init
         /\ session'[s].retirement = "none"
<1> DEFINE fresh == [Unborn EXCEPT !.log = log, !.from = from, !.init = init]
<1>1. fresh.log = log /\ fresh.from = from /\ fresh.init = init /\ fresh.retirement = "none"
  BY DEF Unborn
<1>2. session' = [session EXCEPT ![s] = fresh]
  OBVIOUS
<1> HIDE DEF fresh
<1> QED
  BY <1>1, <1>2

\* A Session created afresh has no part in the ledger yet.
LEMMA CreateNumbers ==
  ASSUME CountsInv, [Next]_vars, NEW n \in 0 .. 1, Create(n) PROVE NumbersOK'
<1> DEFINE s == born + 1
           log == SessionEvents(s, n)
           from == n + 1
           init == "queued"
<1>1. /\ s \in Lives /\ s # nobody /\ session \in [Lives -> Sessions]
      /\ CountOK /\ OwnerOK /\ WorkOK /\ state.owner # s /\ born \in Nat
  BY CountsFacts, BoundsAssumption DEF Create, Lives, nobody
<1>2. /\ session' = [session EXCEPT ![s] =
             [Unborn EXCEPT !.log = log, !.from = from, !.init = init]]
      /\ born' = s /\ current' = s /\ UNCHANGED <<stored, state, entry>>
      /\ current = nobody
  BY DEF Create
<1> HIDE DEF s, log, from, init
<1>3. /\ \A r \in Lives : r # s => session'[r] = session[r]
      /\ session'[s].init = "queued"
  <2>1. /\ \A r \in Lives : r # s => session'[r] = session[r]
        /\ session'[s].init = init
    <3>1. /\ session \in [Lives -> Sessions] /\ s \in Lives
          /\ session' = [session EXCEPT ![s] =
               [Unborn EXCEPT !.log = log, !.from = from, !.init = init]]
      BY <1>1, <1>2
    <3> QED
      BY <3>1, NewRecord
  <2> QED
    BY <2>1 DEF init
<1>4. CountOK'
  BY <1>1, <1>2 DEF CountOK
<1>5. state.owner # nobody => session'[state.owner] = session[state.owner]
  BY <1>1, <1>3, CountsFacts
<1>6. OwnerOK'
  BY <1>1, <1>2, <1>5 DEF OwnerOK
<1>7. ASSUME NEW r \in Lives, session'[r].init = "done", current' = r \/ hasWork(r)'
      PROVE  state.owner = r
  <2>1. r # s
    BY <1>3, <1>7
  <2> QED
    BY <1>1, <1>2, <1>3, <1>7, <2>1 DEF WorkOK, hasWork
<1>8. WorkOK'
  BY <1>1, <1>2, <1>7 DEF WorkOK
<1> QED
  BY <1>4, <1>6, <1>8 DEF NumbersOK

\* A reservation is published: all of the stored log is counted and is what the
\* holder has read, and its Session becomes the owner.
LEMMA PublishFacts ==
  ASSUME CountsInv, NEW k \in Callers, NEW n \in 0 .. 1, Publish(k, n)
  PROVE  /\ entry.phase = "reserved" /\ state.tracked /\ state.owner = nobody
         /\ state.cursor = Len(stored.log) /\ caller[k].source.log = stored.log
<1>1. caller[k].at = "hold" /\ state.owner = nobody
      /\ state.cursor = Len(caller[k].source.log)
  BY DEF Publish
<1>2. /\ entry.phase = "reserved" /\ caller[k].source.log # <<>>
      /\ IsPrefix(caller[k].source.log, stored.log)
      /\ caller[k].source.log \in Logs /\ stored.log \in Logs
  BY <1>1, CountsFacts DEF PoolOK, Reserves, ReadOK, Holds, SourcesOK, Sourced, Files
<1>3. state.cursor # 0
  BY <1>1, <1>2, PrefixFacts
<1>4. state.tracked
  BY <1>3, CountsFacts DEF CountOK, NoState
<1>5. state.cursor = Len(stored.log)
  BY <1>2, <1>4, CountsFacts DEF CountOK
<1>6. caller[k].source.log = stored.log
  <2>1. Len(stored.log) \in Nat /\ Len(stored.log) <= Len(caller[k].source.log)
    BY <1>1, <1>5, CountsFacts
  <2> QED
    BY <1>2, <2>1, PrefixFacts
<1> QED
  BY <1>1, <1>2, <1>4, <1>5, <1>6

\* And so it is published with what is stored, and its events behind it.
LEMMA PublishNumbers ==
  ASSUME CountsInv, [Next]_vars, NEW k \in Callers, NEW n \in 0 .. 1, Publish(k, n)
  PROVE  NumbersOK'
<1> DEFINE s == born + 1
           log == stored.log \o SessionEvents(s, n)
           from == Len(log) + 1
           init == IF n = 0 THEN "done" ELSE "queued"
<1>1. /\ s \in Lives /\ s # nobody /\ session \in [Lives -> Sessions] /\ s \in Nat
      /\ CountOK /\ OwnerOK /\ WorkOK /\ stored.log \in Logs /\ state \in States
      /\ Len(stored.log) \in Nat
  BY CountsFacts, BoundsAssumption DEF Publish, Lives, nobody
<1>2. /\ state.tracked /\ state.owner = nobody
      /\ state.cursor = Len(stored.log) /\ caller[k].source.log = stored.log
  BY PublishFacts
<1>3. /\ session' = [session EXCEPT ![s] =
             [Unborn EXCEPT !.log = log, !.from = from, !.init = init]]
      /\ born' = s /\ current' = s /\ UNCHANGED stored /\ entry' = NoEntry
      /\ state' = [state EXCEPT !.owner = s]
  BY <1>2 DEF Publish, remove
<1>4. /\ log \in Logs /\ IsPrefix(stored.log, log) /\ Len(log) = Len(stored.log) + n
  <2>1. SessionEvents(s, n) \in Logs /\ Len(SessionEvents(s, n)) = n
    BY <1>1, SmallLogs
  <2> QED
    BY <1>1, <2>1, PrefixGrows
<1>5. init = "done" => from <= Len(stored.log) + 1
  <2>1. init = "done" => n = 0
    OBVIOUS
  <2> DEFINE m == Len(log)
  <2>2. n = 0 => m + 1 <= Len(stored.log) + 1
    <3> HIDE DEF log
    <3>1. m = Len(stored.log) + n
      BY <1>4
    <3> HIDE DEF m
    <3> QED
      BY <1>1, <3>1
  <2> QED
    BY <2>1, <2>2
<1> HIDE DEF s, log, from, init
<1>6. /\ \A r \in Lives : r # s => session'[r] = session[r]
      /\ session'[s].init = init /\ session'[s].log = log /\ session'[s].from = from
  BY <1>1, <1>3, NewRecord
<1>7. /\ state'.owner = s /\ state'.cursor = Len(stored.log) /\ state'.tracked
      /\ state'.materialized = state.materialized
  BY <1>1, <1>2, <1>3 DEF States
<1>8. CountOK'
  BY <1>1, <1>2, <1>3, <1>7 DEF CountOK, NoEntry
<1>9. OwnerOK'
  BY <1>3, <1>4, <1>5, <1>6, <1>7 DEF OwnerOK
<1>10. ASSUME NEW r \in Lives, session'[r].init = "done", current' = r \/ hasWork(r)'
       PROVE  r = s
  <2>1. CASE r # s
    <3>1. session[r].init = "done" /\ hasWork(r)
      BY <1>3, <1>6, <1>10, <2>1 DEF hasWork
    <3>2. state.owner = r
      BY <1>1, <3>1 DEF WorkOK
    <3> QED
      BY <1>2, <3>2 DEF Lives, nobody
  <2> QED
    BY <2>1
<1>11. WorkOK'
  BY <1>1, <1>3, <1>7, <1>10 DEF WorkOK
<1> QED
  BY <1>8, <1>9, <1>11 DEF NumbersOK

\* What a session stores of its own log, as the owner of all of what is stored,
\* continues what is stored and covers what the operation was asked to store.
LEMMA OwnStores ==
  ASSUME CountsInv, [Next]_vars, NEW s \in Lives, state.owner = s,
         NEW last \in 0 .. Len(session[s].log),
         Stores(SubSeq(session[s].log, state.cursor + 1, last)),
         UNCHANGED <<current, born>>,
         \A r \in Lives : r # s => session'[r] = session[r],
         session'[s].log = session[s].log,
         session'[s].retirement = session[s].retirement,
         session'[s].from = last + 1
  PROVE  NumbersOK'
<1> DEFINE b == session[s].log
           n == Len(stored.log)
           events == SubSeq(b, n + 1, last)
<1>1. /\ CountOK /\ OwnerOK /\ WorkOK /\ stored.log \in Logs /\ b \in Logs
      /\ stored \in Files /\ state \in States /\ n \in Nat /\ s # nobody
  BY CountsFacts DEF Lives, nobody
<1>2. state.cursor = n /\ IsPrefix(stored.log, b)
  BY <1>1 DEF OwnerOK
<1>3. state.tracked
  BY <1>1 DEF CountOK, NoState
<1>4. Stores(events)
  BY <1>2
<1>5. /\ events \in Logs /\ IsPrefix(stored.log \o events, b)
      /\ last <= Len(stored.log \o events)
  BY <1>1, <1>2, Continued
<1> HIDE DEF events
<1>6. /\ stored'.log = stored.log \o events
      /\ Len(stored'.log) = n + Len(events)
      /\ state'.cursor = state.cursor + Len(events) /\ state'.materialized
      /\ state'.tracked = state.tracked /\ state'.owner = state.owner
      /\ entry' = NoEntry
  BY <1>1, <1>4, <1>5, StoresFacts
<1>7. /\ IsPrefix(stored'.log, b) /\ last <= Len(stored'.log)
  BY <1>5, <1>6
<1>8. state'.cursor = Len(stored'.log) /\ Len(stored'.log) \in Nat
  <2>1. Len(events) \in Nat
    BY <1>5, LenProperties DEF Logs
  <2> QED
    BY <1>1, <1>2, <1>6, <2>1
<1>9. CountOK'
  BY <1>1, <1>3, <1>6, <1>8 DEF CountOK, NoEntry
<1>10. OwnerOK'
  <2> DEFINE m == Len(stored'.log)
             from == session'[s].from
  <2>1. from <= m + 1
    <3>1. from = last + 1 /\ last <= m /\ m \in Nat
      BY <1>7, <1>8
    <3>2. last \in Nat
      BY <1>1, LenProperties DEF Logs
    <3> HIDE DEF m, from
    <3> QED
      BY <3>1, <3>2
  <2>2. IsPrefix(stored'.log, session'[s].log)
    BY <1>7
  <2> QED
    BY <1>6, <1>8, <2>1, <2>2 DEF OwnerOK
<1>11. ASSUME NEW r \in Lives, session'[r].init = "done", current' = r \/ hasWork(r)'
       PROVE  state'.owner = r
  <2>1. CASE r = s
    BY <1>6, <2>1
  <2>2. CASE r # s
    BY <1>1, <1>6, <1>11, <2>2 DEF WorkOK, hasWork
  <2> QED
    BY <2>1, <2>2
<1>12. current = nobody /\ born # nobody => session'[born].retirement # "none"
  <2>1. born # nobody => born \in Lives
    BY CountsFacts, BoundsAssumption DEF LivesOK, Lives, nobody
  <2> QED
    BY <1>1, <2>1 DEF WorkOK
<1>13. WorkOK'
  BY <1>11, <1>12 DEF WorkOK
<1> QED
  BY <1>9, <1>10, <1>13 DEF NumbersOK

\* The seed that is not stored yet.
LEMMA SeedNumbers ==
  ASSUME CountsInv, [Next]_vars, AppendSeed PROVE NumbersOK'
<1> DEFINE op == Head(chain)
           s == op.who
           first == IF op.op = "created" THEN state.cursor + 1 ELSE op.first
<1>1. /\ s \in Lives /\ op.last \in 0 .. Len(session[s].log)
      /\ session[s].from = op.last + 1 /\ session \in [Lives -> Sessions] /\ Formed
      /\ state.cursor \in Nat
  <2>1. /\ s \in Lives /\ op.last \in Nat /\ op.last <= Len(session[s].log)
        /\ session[s].from = op.last + 1
    BY CountsFacts, SeedEvents DEF AppendSeed
  <2>2. Len(session[s].log) \in Nat
    BY <2>1, CountsFacts
  <2> QED
    BY <2>1, <2>2, CountsFacts
<1>2. state.owner = s
  <2>1. CASE Running("suffix")
    BY <1>1, <2>1, FirstIndex, CountsFacts DEF ClaimsOK
  <2>2. CASE Running("created") /\ task.step = "append"
    BY <2>2, CountsFacts DEF StepsOK
  <2> QED
    BY <2>1, <2>2 DEF AppendSeed
<1>3. UNCHANGED <<current, born>>
  BY DEF AppendSeed
<1>4. ASSUME Accepts(first), Stores(SubSeq(session[s].log, first, op.last)),
             Initialized(s, "done")
      PROVE  NumbersOK'
  <2>1. first = state.cursor + 1
    BY <1>4 DEF Accepts
  <2>2. Stores(SubSeq(session[s].log, state.cursor + 1, op.last))
    BY <1>4, <2>1
  <2> HIDE DEF op, s, first
  <2>3. /\ \A r \in Lives : r # s => session'[r] = session[r]
        /\ session'[s].log = session[s].log
        /\ session'[s].retirement = session[s].retirement
        /\ session'[s].from = op.last + 1
    BY <1>1, <1>4, InitializedEffect
  <2> QED
    BY <1>1, <1>2, <1>3, <2>2, <2>3, OwnStores
<1>5. ASSUME Initialized(s, "failed"), UNCHANGED <<stored, state>> PROVE NumbersOK'
  BY <1>1, <1>3, <1>5, FailedNumbers
<1> QED
  BY <1>4, <1>5 DEF AppendSeed

\* A write of what the owner retains.
LEMMA BatchNumbers ==
  ASSUME CountsInv, [Next]_vars, appendLiveBatch PROVE NumbersOK'
<1> DEFINE op == Head(chain)
           s == op.who
           first == IF op.first > state.cursor THEN op.first ELSE state.cursor + 1
           events == SubSeq(session[s].log, first, op.last)
           next == op.last + 1
<1>1. /\ s \in Lives /\ op.last \in 0 .. Len(session[s].log) /\ op.last \in Nat
      /\ op.first = session[s].from /\ session[s].init = "done"
      /\ session \in [Lives -> Sessions] /\ session[s].log \in Logs
      /\ state.cursor \in Nat /\ op.first \in Nat /\ session[s].writing
  <2>1. /\ s \in Lives /\ op.last \in Nat /\ op.last <= Len(session[s].log)
        /\ op.first = session[s].from /\ session[s].init = "done"
    BY CountsFacts, BatchEvents DEF appendLiveBatch
  <2>2. /\ Len(session[s].log) \in Nat /\ session[s].from \in Nat
        /\ session[s].log \in Logs /\ session \in [Lives -> Sessions]
        /\ state.cursor \in Nat
    BY <2>1, CountsFacts
  <2>3. Bonded(op, session, born) /\ op.op = "batch"
    BY CountsFacts, JobHead DEF SessionOps, appendLiveBatch
  <2>4. session[s].writing
    BY <2>3 DEF Bonded
  <2> QED
    BY <2>1, <2>2, <2>4
<1>2. state.owner = s
  BY <1>1, CountsFacts DEF WorkOK, hasWork
<1>3. state.cursor = Len(stored.log) /\ op.first <= state.cursor + 1
  BY <1>1, <1>2, CountsFacts DEF OwnerOK, Lives, nobody
<1>4. first = state.cursor + 1
  BY <1>1, <1>3
<1>5. UNCHANGED <<current, born>> /\ EntryMoves
  BY EntryCarries DEF appendLiveBatch, CountsInv
<1>6. \/ /\ events = <<>> \/ Stores(events)
         /\ events = <<>> => UNCHANGED <<stored, state>>
         /\ session' = [session EXCEPT ![s].writing = FALSE, ![s].from = next]
      \/ /\ UNCHANGED <<stored, state>>
         /\ \/ session' = [session EXCEPT ![s].writing = FALSE]
            \/ session' = [session EXCEPT ![s].writing = FALSE,
                                          ![s].retirement = "failed"]
  BY DEF appendLiveBatch
<1>7. events = <<>> => op.last <= state.cursor
  <2> DEFINE b == session[s].log
  <2>1. first \in Nat \ {0}
    BY <1>1, <1>4
  <2>2. Len(events) = IF first <= op.last THEN op.last - first + 1 ELSE 0
    <3> HIDE DEF op, s, first
    <3> QED
      BY <1>1, <2>1, Stretch
  <2>3. Len(<<>>) = 0
    OBVIOUS
  <2> HIDE DEF events, b, op, s
  <2>4. CASE events = <<>>
    <3>1. Len(events) = 0
      BY <2>3, <2>4
    <3> HIDE DEF first
    <3> QED
      BY <1>1, <1>4, <2>1, <2>2, <3>1
  <2> QED
    BY <2>4
<1> HIDE DEF first, next
<1>8. ASSUME session' = [session EXCEPT ![s].writing = FALSE, ![s].from = next]
      PROVE  /\ \A r \in Lives : r # s => session'[r] = session[r]
             /\ session'[s].log = session[s].log
             /\ session'[s].retirement = session[s].retirement
             /\ session'[s].from = next
  <2> HIDE DEF op, s
  <2>1. session[s] \in Sessions
    BY <1>1
  <2> QED
    BY <1>1, <1>8, <2>1 DEF Sessions
<1>9. ASSUME Stores(events), session' = [session EXCEPT ![s].writing = FALSE, ![s].from = next]
      PROVE  NumbersOK'
  <2>1. Stores(SubSeq(session[s].log, state.cursor + 1, op.last))
    BY <1>4, <1>9
  <2>2. /\ \A r \in Lives : r # s => session'[r] = session[r]
        /\ session'[s].log = session[s].log
        /\ session'[s].retirement = session[s].retirement
        /\ session'[s].from = op.last + 1
    BY <1>8, <1>9 DEF next
  <2> HIDE DEF op, s, events
  <2> QED
    BY <1>1, <1>2, <1>5, <2>1, <2>2, OwnStores
<1>10. ASSUME events = <<>>, UNCHANGED <<stored, state>>,
              session' = [session EXCEPT ![s].writing = FALSE, ![s].from = next]
       PROVE  NumbersOK'
  <2>1. /\ \A r \in Lives : r # s => session'[r] = session[r]
        /\ session'[s].log = session[s].log
        /\ session'[s].retirement = session[s].retirement
        /\ session'[s].from = next
    BY <1>8, <1>10
  <2>2. next <= state.cursor + 1
    <3>1. op.last <= state.cursor
      BY <1>7, <1>10
    <3> HIDE DEF op
    <3> QED
      BY <1>1, <3>1 DEF next
  <2> HIDE DEF op, s, events
  <2>3. CountOK /\ OwnerOK /\ WorkOK
    BY CountsFacts
  <2>4. CountOK'
    <3>1. entry'.phase = "reserved" /\ state.tracked => state.cursor = Len(stored.log)
      BY <1>3
    <3> QED
      BY <1>10, <2>3, <3>1 DEF CountOK
  <2>5. OwnerOK'
    BY <1>2, <1>10, <2>1, <2>2, <2>3 DEF OwnerOK
  <2>6. ASSUME NEW r \in Lives, session'[r].init = "done", current' = r \/ hasWork(r)'
        PROVE  state'.owner = r
    BY <1>2, <1>5, <1>10, <2>1, <2>3, <2>6 DEF WorkOK, hasWork
  <2>7. current = nobody /\ born # nobody => session'[born].retirement # "none"
    <3>1. born # nobody => born \in Lives
      BY CountsFacts, BoundsAssumption DEF LivesOK, Lives, nobody
    <3> QED
      BY <2>1, <2>3, <3>1 DEF WorkOK
  <2> QED
    BY <1>5, <2>4, <2>5, <2>6, <2>7 DEF NumbersOK, WorkOK
<1>11. ASSUME NEW value, value # "none", UNCHANGED <<stored, state>>,
              \/ session' = [session EXCEPT ![s].writing = FALSE]
              \/ session' = [session EXCEPT ![s].writing = FALSE, ![s].retirement = value]
       PROVE  NumbersOK'
  <2> HIDE DEF op, s, events
  <2>1. session[s] \in Sessions
    BY <1>1
  <2>2. /\ \A r \in Lives : r # s => session'[r] = session[r]
        /\ session'[s].log = session[s].log /\ session'[s].from = session[s].from
        /\ session'[s].init = session[s].init
        /\ session'[s].retirement \in {session[s].retirement, value}
    BY <1>1, <1>11, <2>1 DEF Sessions
  <2>3. \A r \in Lives : /\ session'[r].log = session[r].log
                         /\ session'[r].from = session[r].from
                         /\ session'[r].init = "done" => session[r].init = "done"
                         /\ hasWork(r)' => hasWork(r)
                         /\ session'[r].retirement = "none" =>
                              session[r].retirement = "none"
    BY <1>1, <1>11, <2>2 DEF hasWork
  <2> QED
    BY <1>5, <1>11, <2>3, QuietNumbers
<1> HIDE DEF op, s, events
<1>12. "failed" # "none"
  OBVIOUS
<1>13. CASE UNCHANGED <<stored, state>> /\ session' = [session EXCEPT ![s].writing = FALSE]
  BY <1>11, <1>12, <1>13
<1>14. CASE UNCHANGED <<stored, state>> /\ session' = [session EXCEPT ![s].writing = FALSE, ![s].retirement = "failed"]
  BY <1>11, <1>12, <1>14
<1> QED
  BY <1>6, <1>9, <1>10, <1>13, <1>14

\* A public append: nobody owns the log.
LEMMA AppendNumbers ==
  ASSUME CountsInv, [Next]_vars, FinishAppend PROVE NumbersOK'
<1>1. /\ state.owner = nobody /\ state.tracked /\ CountOK /\ WorkOK
      /\ stored \in Files /\ state \in States /\ Len(stored.log) \in Nat
      /\ state.cursor \in Nat /\ EntryMoves /\ session \in [Lives -> Sessions]
      /\ UNCHANGED <<current, born, session>>
  <2>1. state.owner = nobody /\ state.tracked
    BY CountsFacts, FirstIndex DEF FinishAppend, ClaimsOK, StepsOK
  <2> QED
    BY <2>1, CountsFacts, EntryCarries DEF FinishAppend, CountsInv
<1>2. CASE UNCHANGED <<stored, state, entry>>
  BY <1>1, <1>2, RestNumbers
<1>3. CASE Stores(<<Event(nobody, FALSE)>>)
  <2> DEFINE events == <<Event(nobody, FALSE)>>
  <2>1. events \in Logs /\ Len(events) = 1
    BY SmallLogs DEF nobody
  <2> HIDE DEF events
  <2>2. /\ Len(stored'.log) = Len(stored.log) + Len(events)
        /\ state'.cursor = state.cursor + Len(events) /\ state'.materialized
        /\ state'.tracked = state.tracked /\ state'.owner = state.owner
        /\ entry' = NoEntry
    BY <1>1, <1>3, <2>1, StoresFacts DEF events
  <2>3. state'.cursor <= Len(stored'.log) /\ state'.cursor # 0
    BY <1>1, <2>1, <2>2 DEF CountOK
  <2>4. CountOK' /\ OwnerOK'
    BY <1>1, <2>2, <2>3 DEF CountOK, OwnerOK, NoEntry
  <2>5. WorkOK'
    BY <1>1, <2>2 DEF WorkOK, hasWork
  <2> QED
    BY <2>4, <2>5 DEF NumbersOK
<1> QED
  BY <1>2, <1>3 DEF FinishAppend, AppendThrows

\* A session that waits begins with what nobody has heard of: so state that was
\* counted without an owner is not its own, and it does not claim it.
LEMMA NothingClaimed ==
  ASSUME CountsInv, Running("created"), task.step = "start", state.tracked,
         state.owner = nobody
  PROVE  ~seedMatchesPersisted(SubSeq(session[Head(chain).who].log, 1, Head(chain).last))
<1> DEFINE s == Head(chain).who
           last == Head(chain).last
           seed == SubSeq(session[s].log, 1, last)
           read == SubSeq(stored.log, 1, state.cursor)
<1>1. /\ s \in Lives /\ last \in 0 .. Len(session[s].log) /\ session[s].log \in Logs
      /\ stored.log \in Logs /\ Len(stored.log) \in Nat /\ state.cursor \in Nat
  <2>1. /\ s \in Lives /\ last \in Nat /\ last <= Len(session[s].log)
    BY CountsFacts, SeedEvents
  <2>2. Len(session[s].log) \in Nat /\ session[s].log \in Logs
    BY <2>1, CountsFacts
  <2> QED
    BY <2>1, <2>2, CountsFacts
<1>2. Seeded(chain[1]) /\ chain[1] = Head(chain)
  BY FirstIndex, CountsFacts DEF SeedsOK, Waits
<1>3. /\ Alien(s, stored.log)
      /\ \A k \in 1 .. last : session[s].log[k].by = s
  BY <1>2 DEF Seeded, Unheard
<1>4. state.cursor # 0 /\ state.cursor \in 0 .. Len(stored.log)
  BY <1>1, CountsFacts DEF CountOK
<1> HIDE DEF s, last
<1>5. /\ seed \in Logs /\ Len(seed) = last /\ \A k \in 1 .. last : seed[k] = session[s].log[k]
  BY <1>1, PrefixOfStart
<1>6. /\ read \in Logs /\ Len(read) = state.cursor
      /\ \A k \in 1 .. state.cursor : read[k] = stored.log[k]
  BY <1>1, <1>4, PrefixOfStart
<1> HIDE DEF seed, read
<1>7. ASSUME IsPrefix(read, seed) PROVE FALSE
  <2>1. Len(read) <= Len(seed) /\ \A k \in 1 .. Len(read) : read[k] = seed[k]
    BY <1>5, <1>6, <1>7, PrefixPoints
  <2>2. /\ 1 \in 1 .. Len(read) /\ 1 \in 1 .. last /\ 1 \in 1 .. Len(stored.log)
    BY <1>1, <1>4, <1>5, <1>6, <2>1
  <2>3. stored.log[1] = session[s].log[1]
    BY <1>4, <1>5, <1>6, <2>1, <2>2
  <2> QED
    BY <1>3, <2>2, <2>3 DEF Alien
<1> QED
  BY <1>4, <1>7 DEF seedMatchesPersisted, seed, read, s, last

\* Nobody works while a session gets hold of state that is untracked, or that
\* another one has abandoned before it stored anything.
LEMMA NobodyWorks ==
  ASSUME CountsInv, Running("created"), state.tracked => Abandoned,
         NEW r \in Lives, r # Head(chain).who, session[r].init = "done"
  PROVE  current # r /\ ~hasWork(r)
<1> DEFINE s == Head(chain).who
<1>1. /\ WorkOK /\ CountOK /\ OrderOK /\ s \in 1 .. born /\ current \in {nobody, born}
      /\ chain[1] = Head(chain) /\ 1 \in 1 .. Len(chain) /\ chain[1].op = "created"
      /\ born \in Nat /\ r \in Nat
  <2>1. s \in 1 .. born
    BY CountsFacts, SeedEvents
  <2> QED
    BY <2>1, CountsFacts, FirstIndex DEF Lives
<1>2. SUFFICES ASSUME current = r \/ hasWork(r) PROVE FALSE
  OBVIOUS
<1>3. state.owner = r
  BY <1>1, <1>2 DEF WorkOK
<1>4. state.tracked
  BY <1>1, <1>3 DEF CountOK, NoState, Lives, nobody
<1>5. ~state.materialized /\ ~hasWork(r) /\ current = r
  BY <1>2, <1>3, <1>4 DEF Abandoned
<1>6. state.owner > s
  BY <1>1, <1>3, <1>5 DEF Lives, nobody
<1>7. state.materialized
  BY <1>1, <1>6 DEF OrderOK
<1> QED
  BY <1>5, <1>7

\* Claim, adopt, create or collide.
LEMMA CreatedNumbers ==
  ASSUME CountsInv, [Next]_vars, onCreated PROVE NumbersOK'
<1> DEFINE op == Head(chain)
           s == op.who
           seed == SubSeq(session[s].log, 1, op.last)
<1>1. /\ s \in Lives /\ op.last \in 0 .. Len(session[s].log) /\ session[s].log \in Logs
      /\ stored.log \in Logs /\ Len(stored.log) \in Nat
  <2>1. /\ s \in Lives /\ op.last \in Nat /\ op.last <= Len(session[s].log)
    BY CountsFacts, SeedEvents DEF onCreated
  <2>2. Len(session[s].log) \in Nat /\ session[s].log \in Logs
    BY <2>1, CountsFacts
  <2> QED
    BY <2>1, <2>2, CountsFacts
<1>2. /\ Running("created") /\ task.step = "start"
      /\ UNCHANGED <<stored, entry, caller, current, born>> /\ EntryMoves
  BY EntryCarries DEF onCreated, CountsInv
<1>3. ASSUME Collides(s) PROVE NumbersOK'
  BY <1>1, <1>2, <1>3, FailedNumbers DEF Collides
<1>4. seed \in Logs /\ Len(seed) = op.last
      /\ (IsPrefix(stored.log, seed) => IsPrefix(stored.log, session[s].log))
  <2> HIDE DEF op, s
  <2> QED
    BY <1>1, PrefixOfStart
<1>5. ASSUME state.tracked => Abandoned, NEW mat \in BOOLEAN,
             IsPrefix(stored.log, session[s].log), ~mat => stored.log = <<>>,
             Binds(s, Len(stored.log), mat, op.last)
      PROVE  NumbersOK'
  <2>1. \A r \in Lives : r # s /\ session[r].init = "done" => current # r /\ ~hasWork(r)
    BY <1>2, <1>5, NobodyWorks
  <2> QED
    BY <1>2, <1>5, <2>1, BindsNumbers
<1> HIDE DEF seed
<1>6. ASSUME state.tracked => Abandoned, adoptLivePrefix(s, seed) PROVE NumbersOK'
  <2>1. CASE ~IsPrefix(stored.log, seed)
    BY <1>3, <1>6, <2>1 DEF adoptLivePrefix
  <2>2. CASE IsPrefix(stored.log, seed) /\ stored.torn
    BY <1>2, <1>6, <2>2, RestNumbers DEF adoptLivePrefix
  <2>3. CASE IsPrefix(stored.log, seed) /\ ~stored.torn
    <3>1. Binds(s, Len(stored.log), TRUE, op.last)
      BY <1>4, <1>6, <2>3 DEF adoptLivePrefix
    <3> QED
      BY <1>4, <1>5, <1>6, <2>3, <3>1
  <2> QED
    BY <2>1, <2>2, <2>3
<1>7. ASSUME state.tracked => Abandoned, Absent(stored), Binds(s, 0, FALSE, op.last)
      PROVE  NumbersOK'
  <2>1. stored.log = <<>> /\ Len(stored.log) = 0 /\ IsPrefix(stored.log, session[s].log)
    BY <1>1, <1>7, PrefixFacts DEF Absent
  <2> QED
    BY <1>5, <1>7, <2>1
<1>8. ~(state.tracked /\ state.owner = nobody /\ seedMatchesPersisted(seed))
  BY <1>2, NothingClaimed DEF seed
<1> QED
  BY <1>3, <1>6, <1>7, <1>8 DEF onCreated, seed

\* The repair of a log, and the adoption behind it.
LEMMA RepairNumbers ==
  ASSUME CountsInv, [Next]_vars, Truncate \/ Close PROVE NumbersOK'
<1>1. /\ CountOK /\ OwnerOK /\ WorkOK /\ StepsOK /\ IInv /\ PoolOK /\ Formed
      /\ stored \in Files /\ stored.log \in Logs /\ Len(stored.log) \in Nat
      /\ UNCHANGED <<current, born>> /\ EntryMoves /\ session \in [Lives -> Sessions]
  BY CountsFacts, EntryCarries DEF Truncate, Close, CountsInv
<1>2. ASSUME stored'.log = stored.log, UNCHANGED <<state, session>> PROVE NumbersOK'
  <2>1. \A r \in Lives : hasWork(r)' => hasWork(r)
    BY <1>2 DEF hasWork
  <2> QED
    BY <1>1, <1>2, <2>1, QuietNumbers
<1>3. CASE RepairFails
  <2>1. Running("created") => Head(chain).who \in Lives
    BY <1>1, CountsFacts, SeedEvents
  <2> QED
    BY <1>1, <1>2, <1>3, <2>1, FailedNumbers DEF RepairFails
<1>4. ASSUME Truncate, stored' = [stored EXCEPT !.torn = FALSE], Repaired(stored.log)
      PROVE  NumbersOK'
  <2>1. stored'.log = stored.log
    BY <1>1, <1>4 DEF Files
  <2>2. CASE Running("created")
    <3> DEFINE s == Head(chain).who
    <3>1. ~state.tracked /\ IsPrefix(stored.log, session[s].log)
      BY <1>1, <1>4, <2>2 DEF Truncate, StepsOK
    <3>2. Binds(s, Len(stored.log), TRUE, Head(chain).last)
      BY <1>4, <2>2 DEF Repaired
    <3>3. \A r \in Lives : r # s /\ session[r].init = "done" => current # r /\ ~hasWork(r)
      BY <2>2, <3>1, NobodyWorks
    <3> QED
      BY <1>1, <2>1, <2>2, <3>1, <3>2, <3>3, BindsNumbers
  <2>3. CASE ~Running("created")
    BY <1>2, <1>4, <2>1, <2>3 DEF Repaired
  <2> QED
    BY <2>2, <2>3
<1>5. ASSUME Truncate, stored' = [stored EXCEPT !.torn = FALSE],
             UNCHANGED <<state, entry, caller, session>>
      PROVE  NumbersOK'
  BY <1>1, <1>2, <1>5 DEF Files
<1>6. ASSUME Close, stored' = [stored EXCEPT !.log = @ \o closers(task.source.log)],
             Repaired(stored.log)
      PROVE  NumbersOK'
  <2>1. /\ task.step = "close" /\ ~Running("created")
        /\ Running("commit") \/ Running("append")
    BY <1>1, <1>6 DEF Close, StepsOK
  <2>2. UNCHANGED <<state, entry, session>>
    BY <1>6, <2>1 DEF Repaired
  <2>3. entry.phase # "reserved"
    <3>1. CASE Running("commit")
      <4>1. /\ Head(chain).who \in Callers /\ caller[Head(chain).who].at = "commit"
            /\ caller[Head(chain).who].same
        BY <1>1, <2>1, <3>1, HeadOwn, RunsOn DEF StepsOK, Own
      <4> QED
        BY <1>1, <4>1 DEF PoolOK, Commits
    <3>2. CASE Running("append")
      BY <1>1, <2>1, <3>2, RunsOn
    <3> QED
      BY <2>1, <3>1, <3>2
  <2>4. state.owner = nobody
    <3>1. CASE Running("commit")
      BY <1>1, <2>1, <3>1 DEF StepsOK
    <3>2. CASE Running("append")
      BY <1>1, <3>2, FirstIndex, CountsFacts DEF ClaimsOK
    <3> QED
      BY <2>1, <3>1, <3>2
  <2>5. state.cursor <= Len(stored'.log)
    <3>1. IsPrefix(stored.log, stored'.log) /\ stored'.log \in Logs
      BY StoredGrows, StoredTyped DEF CountsInv, LifeInv, Files
    <3>2. Len(stored.log) <= Len(stored'.log) /\ Len(stored'.log) \in Nat
      BY <1>1, <3>1, PrefixFacts
    <3> QED
      BY <1>1, <3>2, CountsFacts DEF CountOK
  <2>6. CountOK' /\ OwnerOK'
    BY <1>1, <2>2, <2>3, <2>4, <2>5 DEF CountOK, OwnerOK
  <2>7. WorkOK'
    BY <1>1, <2>2 DEF WorkOK, hasWork
  <2> QED
    BY <2>6, <2>7 DEF NumbersOK
<1> QED
  BY <1>3, <1>4, <1>5, <1>6 DEF Truncate, Close

\* Every step keeps the count, the owner and its work.
LEMMA NumbersKept ==
  ASSUME CountsInv, [Next]_vars PROVE CountOK' /\ OwnerOK' /\ WorkOK'
<1> SUFFICES NumbersOK'
  BY DEF NumbersOK
<1>1. CASE UNCHANGED vars \/ Evict \/ Foreign \/ Record \/ Dispose
  BY <1>1, CallersNumbers, ForeignNumbers, RecordNumbers, DrainsNumbers
<1>2. CASE Serialized
  BY <1>2, CallersNumbers, TracksNumbers, DrainsNumbers, BatchNumbers, SeedNumbers,
     CreatedNumbers, AppendNumbers, RepairNumbers DEF Serialized
<1>3. ASSUME NEW k \in Callers,
             \/ Continues(k) \/ append(k) \/ Abort(k)
             \/ \E op \in {"inspect", "prepare"} : Call(k, op)
             \/ \E reusable \in BOOLEAN : release(k, reusable)
      PROVE  NumbersOK'
  BY <1>3, CallersNumbers
<1>4. ASSUME \/ \E n \in 0 .. 1 : Create(n)
             \/ \E k \in Callers, n \in 0 .. 1 : Publish(k, n)
      PROVE  NumbersOK'
  BY <1>4, CreateNumbers, PublishNumbers
<1>5. ASSUME NEW s \in Lives, Drains(s) PROVE NumbersOK'
  BY <1>5, DrainsNumbers
<1> QED
  BY <1>1, <1>2, <1>3, <1>4, <1>5 DEF Next, Progress, HolderEnds
-----------------------------------------------------------------------------
(***************************************************************************)
(* The operations that wait, and what the running one relies on.           *)
(***************************************************************************)
\* Steps beside the running operation leave it where it is; of them only another
\* process touches the log, and only a publication the ledger.
LEMMA Asides ==
  ASSUME CountsInv, [Next]_vars
  PROVE  \/ Serialized
         \/ /\ UNCHANGED task
            /\ \/ UNCHANGED <<stored, state>> \/ Foreign
               \/ \E k \in Callers, n \in 0 .. 1 : Publish(k, n)
<1>1. ASSUME \/ UNCHANGED vars \/ Evict \/ Record \/ Dispose
             \/ \E s \in Lives : Drains(s)
             \/ \E n \in 0 .. 1 : Create(n)
      PROVE  UNCHANGED <<task, stored, state>>
  BY <1>1 DEF vars, Evict, Record, Dispose, Drains, Write, Flushed, Create
<1>2. ASSUME NEW k \in Callers,
             \/ Continues(k) \/ append(k) \/ Abort(k)
             \/ \E op \in {"inspect", "prepare"} : Call(k, op)
             \/ \E reusable \in BOOLEAN : release(k, reusable)
      PROVE  UNCHANGED <<task, stored, state>>
  BY <1>2 DEF Continues, Enter, Inspect, reserve, append, Abort, Call, release
<1>3. ASSUME NEW k \in Callers, NEW n \in 0 .. 1, Publish(k, n) PROVE UNCHANGED task
  BY <1>3 DEF Publish
<1>4. ASSUME Foreign PROVE UNCHANGED task
  BY <1>4 DEF Foreign
<1> QED
  BY <1>1, <1>2, <1>3, <1>4 DEF Next, Progress, HolderEnds

\* The chain rests, its first operation ends, or one is queued.
ChainMoves ==
  \/ UNCHANGED chain
  \/ Finish /\ Finishes
  \/ \E who : \E op \in {"load", "check", "commit", "batch", "release"} : Queues(op, who)
  \/ \E k \in Callers : append(k)
  \/ \E n \in 0 .. 1 : Create(n)
  \/ \E k \in Callers, n \in 0 .. 1 : Publish(k, n)

\* Every step moves the chain so, and each step of the chain itself is taken by
\* the operation that runs.
LEMMA ChainsMove ==
  ASSUME CountsInv, [Next]_vars
  PROVE  /\ ChainMoves
         /\ Serialized => chain # <<>> /\ (UNCHANGED chain \/ (Finish /\ Finishes))
<1>1. ASSUME Finish, NEW op, Running(op) PROVE Finishes
  BY <1>1 DEF Finish, Finishes, Running
<1>2. \A op, who, first, last : serialize(op, who, first, last) => Queues(op, who)
  BY DEF serialize, Queues
<1>3. ASSUME Serialized
      PROVE  (UNCHANGED chain \/ Finish) /\ chain # <<>>
  <2>1. ASSUME NEW s, NEW cursor, NEW mat, NEW last, Binds(s, cursor, mat, last)
        PROVE  UNCHANGED chain \/ Finish
    BY <2>1 DEF Binds, Step
  <2>2. CASE prepareCore \/ CheckInspected \/ FinishCommit \/ retireCore
             \/ appendLiveBatch \/ AppendSeed
    BY <2>2 DEF prepareCore, CheckInspected, FinishCommit, retireCore,
                appendLiveBatch, AppendSeed, Running
  <2>3. CASE StartCommit
    BY <2>3 DEF StartCommit, Running
  <2>4. CASE onCreated
    <3>1. ASSUME NEW s, NEW seed, adoptLivePrefix(s, seed)
          PROVE  UNCHANGED chain \/ Finish
      BY <2>1, <3>1 DEF adoptLivePrefix, Collides
    <3> QED
      BY <2>1, <2>4, <3>1 DEF onCreated, Collides, Running
  <2>5. CASE StartAppend \/ TakeSource \/ Adopt \/ FinishAppend
    BY <2>5 DEF StartAppend, TakeSource, Adopt, FinishAppend, AppendThrows, Step, Running
  <2>6. CASE Truncate \/ Close
    <3>1. chain # <<>>
      BY <2>6, CountsFacts, RunsOn DEF Truncate, Close
    <3> QED
      BY <2>1, <2>6, <3>1 DEF Truncate, Close, Repaired, RepairFails, Step
  <2> QED
    BY <1>3, <2>2, <2>3, <2>4, <2>5, <2>6 DEF Serialized
<1>4. ASSUME UNCHANGED vars \/ Evict \/ Record \/ Dispose \/ Foreign
      PROVE  ChainMoves
  <2>1. UNCHANGED chain
    BY <1>4 DEF vars, Evict, Record, Dispose, Foreign
  <2> QED
    BY <2>1 DEF ChainMoves
<1>5. ASSUME NEW s \in Lives, Drains(s) PROVE ChainMoves
  BY <1>2, <1>5 DEF Drains, Write, Flushed, ChainMoves
<1>6. ASSUME NEW k \in Callers,
             \/ Continues(k) \/ append(k) \/ Abort(k)
             \/ \E op \in {"inspect", "prepare"} : Call(k, op)
             \/ \E reusable \in BOOLEAN : release(k, reusable)
      PROVE  ChainMoves
  BY <1>2, <1>6 DEF Continues, Enter, entryFor, Inspect, reserve, Abort, Call, release,
                    ChainMoves
<1>7. Serialized => ChainMoves
  BY <1>3 DEF ChainMoves, Finish, Finishes
<1>8. ASSUME \/ \E n \in 0 .. 1 : Create(n)
             \/ \E k \in Callers, n \in 0 .. 1 : Publish(k, n)
      PROVE  ChainMoves
  BY <1>8 DEF ChainMoves
<1>9. Serialized => chain # <<>> /\ (UNCHANGED chain \/ (Finish /\ Finishes))
  BY <1>3 DEF Finish, Finishes
<1> QED
  BY <1>4, <1>5, <1>6, <1>7, <1>8, <1>9 DEF Next, Progress, HolderEnds

\* The owner changes when it is released, when a session that waits gets hold of
\* state that is nobody's or was abandoned, and by publication; what is
\* materialized stays so under its owner.
StateMoves ==
  \/ /\ state'.owner = state.owner /\ (state.materialized => state'.materialized)
     /\ Running("created") => state'.tracked = state.tracked
  \/ Running("release") /\ state.owner = Head(chain).who /\ state' = NoState
  \/ /\ Running("created") /\ task.step # "append" /\ state'.owner = Head(chain).who
     /\ state.owner = nobody \/ ~state.materialized
     /\ (Finish /\ Serialized) \/ task'.step = "append"
  \/ \E k \in Callers, n \in 0 .. 1 : Publish(k, n)

\* Every step moves the ledger so.
LEMMA StatesMove ==
  ASSUME CountsInv, [Next]_vars PROVE StateMoves
<1>1. /\ state \in States /\ stored \in Files /\ CountOK /\ StepsOK
      /\ task = [step |-> task.step, source |-> task.source]
  BY CountsFacts DEF Formed
<1>2. ASSUME UNCHANGED state PROVE StateMoves
  BY <1>2 DEF StateMoves
<1>3. ASSUME NEW cursor, NEW mat, NEW last, Binds(Head(chain).who, cursor, mat, last),
             Running("created"), state.owner = nobody \/ ~state.materialized,
             task.step # "append", Serialized
      PROVE  StateMoves
  <2>1. state'.owner = Head(chain).who
    BY <1>3 DEF Binds, Owned
  <2>2. (Finish /\ Serialized) \/ task'.step = "append"
    BY <1>1, <1>3 DEF Binds, Step
  <2> QED
    BY <1>3, <2>1, <2>2 DEF StateMoves
<1>4. ASSUME NEW log, state' = Tracks(log), ~Running("created") PROVE StateMoves
  BY <1>1, <1>4 DEF Tracks, States, StateMoves
<1>5. ASSUME NEW source, commitPrepared(source), ~Running("created") PROVE StateMoves
  BY <1>2, <1>4, <1>5 DEF commitPrepared
<1>6. ASSUME NEW events, Stores(events) PROVE StateMoves
  BY <1>1, <1>6 DEF Stores, States, StateMoves
<1>7. CASE \/ prepareCore \/ CheckInspected \/ FinishCommit \/ StartAppend \/ TakeSource
           \/ RepairFails
  BY <1>2, <1>7 DEF prepareCore, CheckInspected, FinishCommit, StartAppend, TakeSource,
                    AppendThrows, RepairFails
<1>8. CASE StartCommit \/ Adopt
  <2>1. ~Running("created")
    BY <1>8 DEF StartCommit, Adopt, Running
  <2> QED
    BY <1>2, <1>5, <1>8, <2>1 DEF StartCommit, Adopt, AppendThrows
<1>9. CASE appendLiveBatch \/ AppendSeed \/ FinishAppend
  BY <1>2, <1>6, <1>9 DEF appendLiveBatch, AppendSeed, FinishAppend, AppendThrows
<1>10. CASE retireCore
  BY <1>2, <1>10 DEF retireCore, StateMoves
<1>11. CASE onCreated
  <2>1. Running("created") /\ task.step = "start" /\ Serialized
    BY <1>11 DEF onCreated, Serialized
  <2>2. ~state.tracked \/ Abandoned => state.owner = nobody \/ ~state.materialized
    BY <1>1 DEF Abandoned, CountOK, NoState
  <2>3. ASSUME NEW seed, ~state.tracked \/ Abandoned, adoptLivePrefix(Head(chain).who, seed)
        PROVE  StateMoves
    BY <1>2, <1>3, <2>1, <2>2, <2>3 DEF adoptLivePrefix, Collides
  <2>4. ASSUME Collides(Head(chain).who) PROVE StateMoves
    BY <1>2, <2>4 DEF Collides
  <2>5. ASSUME NEW cursor, NEW mat, NEW last, Binds(Head(chain).who, cursor, mat, last),
               state.owner = nobody \/ ~state.tracked \/ Abandoned
        PROVE  StateMoves
    BY <1>3, <2>1, <2>2, <2>5
  <2> QED
    BY <1>11, <2>3, <2>4, <2>5 DEF onCreated
<1>12. ASSUME NEW log, Truncate \/ Close, Repaired(log) PROVE StateMoves
  <2>1. CASE Running("created")
    <3>1. task.step # "append" /\ state.owner = nobody
      <4>1. task.step \in {"truncate", "close"}
        BY <1>12 DEF Truncate, Close
      <4>2. task.step = "truncate" /\ ~state.tracked
        BY <1>1, <2>1, <4>1 DEF StepsOK
      <4> QED
        BY <1>1, <4>2 DEF CountOK, NoState
    <3>2. Binds(Head(chain).who, Len(log), TRUE, Head(chain).last)
      BY <1>12, <2>1 DEF Repaired
    <3>3. Serialized
      BY <1>12 DEF Serialized
    <3> QED
      BY <1>3, <2>1, <3>1, <3>2, <3>3
  <2> QED
    BY <1>2, <1>12, <2>1 DEF Repaired
<1>13. CASE Truncate \/ Close
  BY <1>2, <1>7, <1>12, <1>13 DEF Truncate, Close
<1>14. ASSUME \/ UNCHANGED <<stored, state>> \/ Foreign
              \/ \E k \in Callers, n \in 0 .. 1 : Publish(k, n)
       PROVE  StateMoves
  <2>1. Foreign => UNCHANGED state
    BY DEF Foreign
  <2> QED
    BY <1>2, <1>14, <2>1 DEF StateMoves
<1> QED
  BY <1>7, <1>8, <1>9, <1>10, <1>11, <1>13, <1>14, Asides DEF Serialized

\* What is queued, and by whom.
NewJob(job) ==
  \/ job.op \in {"load", "check", "commit", "batch", "release"}
  \/ job.op = "append" /\ \E k \in Callers : append(k)
  \/ \E n \in 0 .. 1 : Create(n) /\ job.op = "created" /\ job.who = born + 1 /\ job.last = n
  \/ \E k \in Callers, n \in 0 .. 1 : Publish(k, n) /\ job.op = "suffix" /\ job.who = born + 1

\* Each operation keeps its place, d further back before, or is the one that is
\* queued behind all.
Kept(d) ==
  /\ d \in {0, 1} /\ (d = 1 => task' = AtStart) /\ (d = 0 /\ Finish => ~Serialized)
  /\ \A i \in 1 .. Len(chain') :
       \/ i + d \in 1 .. Len(chain) /\ chain'[i] = chain[i + d]
       \/ d = 0 /\ i = Len(chain) + 1 /\ NewJob(chain'[i]) /\ ~Serialized

\* Every step keeps them so.
LEMMA Positions ==
  ASSUME CountsInv, [Next]_vars
  PROVE  /\ \E d : Kept(d)
         /\ Len(chain) \in Nat /\ Len(chain') \in Nat
<1>1. /\ Formed /\ ChainMoves /\ (Serialized => chain # <<>> /\ (UNCHANGED chain \/ (Finish /\ Finishes)))
  BY CountsFacts, ChainsMove
<1>2. PICK Jobs : chain \in Seq(Jobs)
  BY <1>1 DEF Formed
<1>3. Len(chain) \in Nat
  BY <1>2
<1>4. CASE UNCHANGED chain
  <2>1. chain # <<>> => Tail(chain) # chain
    BY <1>2
  <2>2. Finish => ~Serialized
    BY <1>1, <1>4, <2>1 DEF Finish
  <2>3. Kept(0)
    BY <1>3, <1>4, <2>2 DEF Kept
  <2> QED
    BY <1>3, <1>4, <2>3
<1>5. CASE Finish /\ Finishes
  <2>1. /\ Len(chain) \in Nat \ {0} /\ Len(chain') = Len(chain) - 1
        /\ \A i \in 1 .. Len(chain') : chain'[i] = chain[i + 1]
    BY <1>1, <1>5, FinishEffect
  <2>2. \A i \in 1 .. Len(chain') : i + 1 \in 1 .. Len(chain)
    BY <2>1
  <2>3. Kept(1)
    BY <1>5, <2>1, <2>2 DEF Kept, Finish
  <2> QED
    BY <2>1, <2>3
<1>6. ASSUME NEW op, NEW s, NEW first, NEW last, serialize(op, s, first, last),
             ~Serialized,
             LET job == [op |-> op, who |-> s, first |-> first, last |-> last]
             IN  NewJob(job)
      PROVE  Kept(0) /\ Len(chain') \in Nat
  <2> DEFINE job == [op |-> op, who |-> s, first |-> first, last |-> last]
  <2>1. chain \in Seq(Jobs \cup {job})
    BY <1>2
  <2>2. chain' = Append(chain, job)
    BY <1>6 DEF serialize
  <2>3. NewJob(job)
    BY <1>6
  <2> HIDE DEF job
  <2>4. /\ Len(chain') = Len(chain) + 1 /\ chain'[Len(chain) + 1] = job
        /\ \A i \in 1 .. Len(chain) : chain'[i] = chain[i]
    BY <2>1, <2>2
  <2>5. ASSUME NEW i \in 1 .. Len(chain')
        PROVE  \/ i + 0 \in 1 .. Len(chain) /\ chain'[i] = chain[i + 0]
               \/ i = Len(chain) + 1 /\ NewJob(chain'[i])
    <3>1. CASE i \in 1 .. Len(chain)
      BY <1>3, <2>4, <3>1
    <3>2. CASE i = Len(chain) + 1
      BY <2>3, <2>4, <3>2
    <3> QED
      BY <1>3, <2>4, <3>1, <3>2
  <2> QED
    BY <1>3, <1>6, <2>4, <2>5 DEF Kept
<1>7. CASE ~UNCHANGED chain /\ ~(Finish /\ Finishes)
  <2>0. ~Serialized
    BY <1>1, <1>7
  <2>1. CASE \E who : \E op \in {"load", "check", "commit", "batch", "release"} : Queues(op, who)
    <3>1. PICK who : \E op \in {"load", "check", "commit", "batch", "release"} : Queues(op, who)
      BY <2>1
    <3>2. PICK op \in {"load", "check", "commit", "batch", "release"} : Queues(op, who)
      BY <3>1
    <3>3. PICK first, last : serialize(op, who, first, last)
      BY <3>2 DEF Queues, serialize
    <3>4. LET job == [op |-> op, who |-> who, first |-> first, last |-> last]
          IN  NewJob(job)
      BY DEF NewJob
    <3>5. Kept(0) /\ Len(chain') \in Nat
      BY <1>6, <2>0, <3>3, <3>4
    <3> QED
      BY <1>3, <3>5
  <2>2. ASSUME NEW k \in Callers, append(k) PROVE Kept(0) /\ Len(chain') \in Nat
    <3> DEFINE n == Len(stored.log) + 1
    <3>1. serialize("append", k, n, n)
      BY <2>2 DEF append
    <3>2. LET job == [op |-> "append", who |-> k, first |-> n, last |-> n]
          IN  NewJob(job)
      BY <2>2 DEF NewJob
    <3> HIDE DEF n
    <3> QED
      BY <1>6, <2>0, <3>1, <3>2
  <2>3. ASSUME NEW n \in 0 .. 1, Create(n) PROVE Kept(0) /\ Len(chain') \in Nat
    <3> DEFINE s == born + 1
    <3>1. serialize("created", s, 1, n)
      BY <2>3 DEF Create
    <3>2. LET job == [op |-> "created", who |-> s, first |-> 1, last |-> n]
          IN  NewJob(job)
      BY <2>3 DEF NewJob
    <3> HIDE DEF s
    <3> QED
      BY <1>6, <2>0, <3>1, <3>2
  <2>4. ASSUME NEW k \in Callers, NEW n \in 0 .. 1, Publish(k, n)
        PROVE  Kept(0) /\ Len(chain') \in Nat
    <3> DEFINE s == born + 1
               first == state.cursor + 1
               last == Len(caller[k].source.log \o SessionEvents(s, n))
    <3>1. serialize("suffix", s, first, last)
      BY <1>7, <2>4 DEF Publish
    <3>2. LET job == [op |-> "suffix", who |-> s, first |-> first, last |-> last]
          IN  NewJob(job)
      BY <2>4 DEF NewJob
    <3> HIDE DEF s, first, last
    <3> QED
      BY <1>6, <2>0, <3>1, <3>2
  <2> QED
    BY <1>1, <1>3, <1>7, <2>1, <2>2, <2>3, <2>4 DEF ChainMoves
<1> QED
  BY <1>4, <1>5, <1>7

\* Who waits to be initialized has been told to nobody, and keeps its seed.
LEMMA SeedsKept ==
  ASSUME CountsInv, [Next]_vars PROVE SeedsOK'
<1>1. /\ LifeInv /\ ReadOK /\ HeardOK /\ SeedsOK /\ Formed /\ JobsOK /\ StepsOK
      /\ session \in [Lives -> Sessions] /\ born \in 0 .. MaxLives /\ MaxLives \in Nat
      /\ born \in Nat /\ \A r \in Lives : session[r].log \in Logs
  BY CountsFacts, BoundsAssumption DEF CountsInv, LivesOK
<1>2. /\ JobsOK' /\ \A r \in Lives : session'[r].log \in Logs
  BY LifeNext, <1>1 DEF LifeInv, LivesOK, Sessions
<1>3. PICK d : Kept(d)
  BY Positions
<1>4. ASSUME NEW i \in 1 .. Len(chain'), Waits(i)'
      PROVE  Seeded(chain[i])' \/ (i = 1 /\ ~state'.tracked)
  <2>1. ASSUME i + d \in 1 .. Len(chain), chain'[i] = chain[i + d]
        PROVE  Seeded(chain[i])' \/ (i = 1 /\ ~state'.tracked)
    <3> DEFINE j == i + d
    <3> PICK r : r = chain[j].who
      OBVIOUS
    <3>1. /\ i \in Nat /\ j \in Nat /\ d \in {0, 1} /\ j \in 1 .. Len(chain)
          /\ (j = 1 => i = 1 /\ d = 0)
      BY <1>3, <2>1, Positions DEF Kept
    <3>2. chain[j].op = "created" /\ chain'[i].op = "created" /\ chain'[i] = chain[j]
      BY <1>4, <2>1 DEF Waits
    <3>3. /\ Bonded(chain[j], session, born) /\ r \in 1 .. born /\ r \in Lives
          /\ chain[j].last \in 0 .. Len(session[r].log)
          /\ chain[j].last \in 0 .. Len(session'[r].log)
      <4>1. Bonded(chain[j], session, born) /\ Bonded(chain'[i], session', born')
        BY <1>1, <1>2, <1>4, <3>1, <3>2 DEF JobsOK, SessionOps
      <4> QED
        BY <1>1, <3>2, <4>1 DEF Bonded, Lives
    <3>4. j = 1 => Running("created") /\ Head(chain) = chain[j]
      <4>1. PICK Jobs : chain \in Seq(Jobs)
        BY <1>1 DEF Formed
      <4>2. j = 1 => chain # <<>> /\ Head(chain) = chain[j]
        BY <3>1, <4>1
      <4> QED
        BY <3>2, <4>2 DEF Running
    <3>5. j = 1 => task.step # "append"
      <4>1. SUFFICES ASSUME j = 1, task.step = "append" PROVE FALSE
        OBVIOUS
      <4>2. task'.step # "append"
        BY <1>4, <3>1, <4>1 DEF Waits
      <4>3. Serialized
        BY <4>1, <4>2, Asides
      <4>4. AppendSeed
        BY <3>4, <4>1, <4>3
        DEF Serialized, Running, prepareCore, CheckInspected, StartCommit, FinishCommit,
            retireCore, appendLiveBatch, onCreated, StartAppend, TakeSource, Adopt,
            FinishAppend, Truncate, Close
      <4> QED
        BY <1>3, <3>1, <4>1, <4>3, <4>4 DEF AppendSeed, Kept
    <3>6. Waits(j)
      BY <3>2, <3>5 DEF Waits
    <3>7. CASE Seeded(chain[j])
      <4>1. ASSUME \/ Running("batch") \/ Running("suffix")
                   \/ (Running("created") /\ task.step = "append")
            PROVE  Head(chain).who # r
        <5>1. j # 1
          BY <3>4, <3>5, <4>1 DEF Running
        <5>2. j \in 2 .. Len(chain)
          BY <3>1, <5>1, Positions
        <5> QED
          BY <1>1, <3>2, <4>1, <5>2, JobHead DEF SessionOps
      <4>2. Unheard(r)'
        BY <1>1, <3>3, <3>7, <4>1, UnheardKept DEF Seeded
      <4>3. ASSUME NEW k \in 1 .. chain[j].last PROVE session'[r].log[k].by = r
        <5> DEFINE last == chain[j].last
        <5>1. /\ session[r].log[k].by = r /\ session[r].log \in Logs
              /\ Len(session[r].log) \in Nat /\ last \in Nat /\ last <= Len(session[r].log)
              /\ k \in 1 .. last /\ r # born + 1
          BY <1>1, <3>3, <3>7, CountsFacts DEF Seeded
        <5> HIDE DEF j, last
        <5>2. CASE session'[r].log = session[r].log
          BY <5>1, <5>2
        <5>3. CASE session'[r].log = <<>>
          <6>1. last = 0
            BY <3>3, <5>3 DEF last
          <6> QED
            BY <5>1, <6>1
        <5>4. CASE session'[r].log = Append(session[r].log, Event(r, FALSE))
          <6> DEFINE w == Append(session[r].log, Event(r, FALSE))
          <6>1. Event(r, FALSE) \in Happening /\ k \in 1 .. Len(session[r].log)
            BY <3>3, <5>1 DEF Event, Happening
          <6>2. w[k] = session[r].log[k]
            <7>1. \A a \in Logs, e \in Happening : \A m \in 1 .. Len(a) : Append(a, e)[m] = a[m]
              BY AppendProperties DEF Logs
            <7> QED
              BY <5>1, <6>1, <7>1
          <6> HIDE DEF w
          <6> QED
            BY <5>1, <5>4, <6>2 DEF w
        <5> QED
          BY <1>1, <3>3, <5>1, <5>2, <5>3, <5>4, LogsMove DEF LogMoves
      <4> QED
        BY <3>2, <4>2, <4>3 DEF Seeded, Unheard
    <3>8. CASE ~Seeded(chain[j])
      <4>1. j = 1 /\ ~state.tracked
        BY <1>1, <3>1, <3>6, <3>8 DEF SeedsOK
      <4>2. Running("created") /\ ~Running("release")
        BY <3>4, <4>1 DEF Running
      <4>3. task'.step # "append"
        BY <1>4, <3>1, <4>1 DEF Waits
      <4>4. ~(Finish /\ Serialized)
        BY <1>3, <3>1, <4>1 DEF Kept
      <4>5. ~state'.tracked
        BY <4>1, <4>2, <4>3, <4>4, StatesMove, PublishFacts DEF StateMoves
      <4> QED
        BY <3>1, <4>1, <4>5
    <3> QED
      BY <3>7, <3>8
  <2>2. ASSUME NewJob(chain'[i]) PROVE Seeded(chain[i])'
    <3>1. PICK n \in 0 .. 1 : Create(n) /\ chain'[i].who = born + 1 /\ chain'[i].last = n
      BY <1>4, <2>2 DEF NewJob, Waits
    <3> PICK s : s = born + 1
      OBVIOUS
    <3>2. s \in Lives /\ s > born /\ s \in Nat
      BY <1>1, <3>1 DEF Create, Lives
    <3>3. ASSUME \/ Running("batch") \/ Running("suffix")
                 \/ (Running("created") /\ task.step = "append")
          PROVE  Head(chain).who # s
      BY <1>1, <3>2, <3>3, JobHead DEF SessionOps, Bonded
    <3>4. Unheard(s)
      BY <1>1, <3>2 DEF HeardOK
    <3>5. Unheard(s)'
      BY <1>1, <3>2, <3>3, <3>4, UnheardKept
    <3>6. session'[s].log = SessionEvents(s, n)
      <4> DEFINE log == SessionEvents(s, n)
                 from == n + 1
                 init == "queued"
      <4>1. session' = [session EXCEPT ![s] =
              [Unborn EXCEPT !.log = log, !.from = from, !.init = init]]
        BY <3>1 DEF Create
      <4> HIDE DEF log, from, init
      <4>2. session'[s].log = log
        BY <1>1, <3>2, <4>1, NewRecord
      <4> QED
        BY <4>2 DEF log
    <3>7. \A k \in 1 .. n : session'[s].log[k].by = s
      BY <3>2, <3>6, SmallAliens
    <3>8. chain'[i].who = s /\ chain'[i].last = n
      BY <3>1
    <3> QED
      BY <3>5, <3>7, <3>8 DEF Seeded, Unheard
  <2> QED
    BY <1>3, <1>4, <2>1, <2>2 DEF Kept
<1> QED
  BY <1>4 DEF SeedsOK

\* A session ends its initialization or its retirement by an operation of its own.
LEMMA EndsMove ==
  ASSUME CountsInv, [Next]_vars, NEW r \in Lives
  PROVE  \/ /\ session'[r].retirement = "done" => session[r].retirement = "done"
            /\ session'[r].init = "failed" => session[r].init = "failed"
         \/ \E op \in SessionOps : Running(op) /\ Head(chain).who = r
<1> DEFINE Rests == /\ session'[r].retirement = "done" => session[r].retirement = "done"
                    /\ session'[r].init = "failed" => session[r].init = "failed"
<1> SUFFICES ASSUME ~\E op \in SessionOps : Running(op) /\ Head(chain).who = r
             PROVE  Rests
  OBVIOUS
<1>1. session \in [Lives -> Sessions] /\ session[r] \in Sessions /\ Formed /\ JobsOK
  BY CountsFacts
<1>2. ASSUME UNCHANGED session PROVE Rests
  BY <1>2
<1>3. ASSUME NEW s, NEW value, Head(chain).who # r, s = Head(chain).who,
             session' = [session EXCEPT ![s] = value]
      PROVE  Rests
  BY <1>1, <1>3
<1>4. ASSUME Head(chain).who # r, NEW outcome, Initialized(Head(chain).who, outcome)
      PROVE  Rests
  BY <1>1, <1>4 DEF Initialized
<1>5. ASSUME Head(chain).who # r, NEW cursor, NEW mat, NEW last,
             Binds(Head(chain).who, cursor, mat, last)
      PROVE  Rests
  BY <1>2, <1>4, <1>5 DEF Binds
<1>6. CASE prepareCore \/ CheckInspected \/ StartCommit \/ FinishCommit \/ StartAppend
           \/ TakeSource \/ Adopt \/ FinishAppend
  BY <1>2, <1>6 DEF prepareCore, CheckInspected, StartCommit, FinishCommit, StartAppend,
                    TakeSource, Adopt, FinishAppend
<1>7. CASE onCreated
  <2>1. Running("created")
    BY <1>7 DEF onCreated
  <2>2. ASSUME Head(chain).who # r PROVE Rests
    <3>1. ASSUME NEW seed, adoptLivePrefix(Head(chain).who, seed) PROVE Rests
      BY <1>2, <1>4, <1>5, <2>2, <3>1 DEF adoptLivePrefix, Collides
    <3> QED
      BY <1>4, <1>5, <1>7, <2>2, <3>1 DEF onCreated, Collides
  <2> QED
    BY <2>1, <2>2 DEF SessionOps
<1>8. CASE Truncate \/ Close
  <2>1. CASE Running("created") /\ Head(chain).who = r
    BY <2>1 DEF SessionOps
  <2>2. CASE ~Running("created")
    BY <1>2, <1>8, <2>2 DEF Truncate, Close, Repaired, RepairFails
  <2>3. CASE Head(chain).who # r
    BY <1>2, <1>4, <1>5, <1>8, <2>3 DEF Truncate, Close, Repaired, RepairFails
  <2> QED
    BY <2>1, <2>2, <2>3
<1>9. CASE AppendSeed \/ appendLiveBatch \/ retireCore
  <2>1. \E op \in SessionOps : Running(op)
    BY <1>9 DEF AppendSeed, appendLiveBatch, retireCore, SessionOps
  <2>2. ASSUME Head(chain).who # r PROVE Rests
    <3> DEFINE s == Head(chain).who
               next == Head(chain).last + 1
    <3>1. \/ \E outcome : Initialized(s, outcome)
          \/ session' = [session EXCEPT ![s].writing = FALSE, ![s].from = next]
          \/ session' = [session EXCEPT ![s].writing = FALSE]
          \/ session' = [session EXCEPT ![s].writing = FALSE, ![s].retirement = "failed"]
          \/ session' = [session EXCEPT ![s] = [Unborn EXCEPT !.retirement = "done"]]
      BY <1>9 DEF AppendSeed, appendLiveBatch, retireCore
    <3> HIDE DEF next
    <3>2. s # r
      BY <2>2
    <3>3. CASE \E outcome : Initialized(s, outcome)
      BY <1>4, <2>2, <3>3
    <3> HIDE DEF s
    <3>4. CASE ~\E outcome : Initialized(s, outcome)
      BY <1>1, <3>1, <3>2, <3>4
    <3> QED
      BY <3>3, <3>4
  <2> QED
    BY <2>1, <2>2
<1>10. CASE UNCHANGED vars \/ Evict \/ Foreign
  BY <1>2, <1>10 DEF vars, Evict, Foreign
<1>11. CASE Record \/ Dispose
  <2>1. ASSUME NEW log, session' = [session EXCEPT ![current].log = log] PROVE Rests
    BY <1>1, <2>1 DEF Sessions
  <2>2. ASSUME session' = [session EXCEPT ![current].retirement = "flush"] PROVE Rests
    BY <1>1, <2>2 DEF Sessions
  <2>3. Record => \E log : session' = [session EXCEPT ![current].log = log]
    BY DEF Record
  <2> QED
    BY <1>11, <2>1, <2>2, <2>3 DEF Dispose
<1>12. ASSUME NEW s \in Lives, Drains(s) PROVE Rests
  BY <1>1, <1>12 DEF Drains, Write, Flushed, Sessions
<1>13. ASSUME NEW k \in Callers,
             \/ Continues(k) \/ append(k) \/ Abort(k)
             \/ \E op \in {"inspect", "prepare"} : Call(k, op)
             \/ \E reusable \in BOOLEAN : release(k, reusable)
       PROVE  Rests
  BY <1>2, <1>13 DEF Continues, Enter, Inspect, reserve, append, Abort, Call, release
<1>14. ASSUME NEW log, NEW from, NEW init, init # "failed",
              session' = [session EXCEPT ![born + 1] =
                [Unborn EXCEPT !.log = log, !.from = from, !.init = init]]
       PROVE  Rests
  <2> DEFINE fresh == [Unborn EXCEPT !.log = log, !.from = from, !.init = init]
             s == born + 1
  <2>1. fresh.init = init /\ fresh.retirement = "none"
    BY DEF Unborn
  <2>2. session' = [session EXCEPT ![s] = fresh]
    BY <1>14
  <2> HIDE DEF fresh, s
  <2> QED
    BY <1>1, <1>14, <2>1, <2>2
<1>15. ASSUME NEW n \in 0 .. 1, Create(n) PROVE Rests
  <2> DEFINE log == SessionEvents(born + 1, n)
             from == n + 1
  <2>1. session' = [session EXCEPT ![born + 1] =
           [Unborn EXCEPT !.log = log, !.from = from, !.init = "queued"]]
    BY <1>15 DEF Create
  <2> HIDE DEF log, from
  <2> QED
    BY <1>14, <2>1
<1>16. ASSUME NEW k \in Callers, NEW n \in 0 .. 1, Publish(k, n) PROVE Rests
  <2> DEFINE log == caller[k].source.log \o SessionEvents(born + 1, n)
             from == Len(log) + 1
             init == IF n = 0 THEN "done" ELSE "queued"
  <2>1. session' = [session EXCEPT ![born + 1] =
           [Unborn EXCEPT !.log = log, !.from = from, !.init = init]]
    BY <1>16 DEF Publish
  <2>2. init # "failed"
    OBVIOUS
  <2> HIDE DEF log, from, init
  <2> QED
    BY <1>14, <2>1, <2>2
<1> HIDE DEF Rests
<1> QED
  BY <1>6, <1>7, <1>8, <1>9, <1>10, <1>11, <1>12, <1>13, <1>15, <1>16
  DEF Next, Progress, Serialized, HolderEnds

\* Initializations keep the order of births, and what waits finds nobody younger
\* that has already come and gone.
LEMMA OrderKept ==
  ASSUME CountsInv, [Next]_vars PROVE OrderOK'
<1>1. /\ LifeInv /\ OrderOK /\ Formed /\ JobsOK /\ CountOK /\ OwnerOK /\ state \in States
      /\ born \in 0 .. MaxLives /\ MaxLives \in Nat /\ born \in Nat
      /\ state.owner \in 0 .. born /\ \A s \in Lives : s > born => session[s] = Unborn
  BY CountsFacts, BoundsAssumption DEF CountsInv, LivesOK
<1>2. JobsOK'
  BY LifeNext, <1>1 DEF LifeInv
<1>3. PICK d : Kept(d)
  BY Positions
<1>4. Len(chain) \in Nat /\ Len(chain') \in Nat /\ d \in {0, 1}
  BY <1>3, Positions DEF Kept
<1>5. ASSUME NEW i \in 1 .. Len(chain'), chain'[i].op \in SessionOps
      PROVE  chain'[i].who \in 1 .. born'
  BY <1>2, <1>5 DEF JobsOK, Bonded
<1>6. ASSUME NEW i \in 1 .. Len(chain'), NewJob(chain'[i]), chain'[i].op = "created"
      PROVE  /\ chain'[i].who = born + 1 /\ born' = born + 1
             /\ \E n \in 0 .. 1 : Create(n)
  BY <1>6 DEF NewJob, Create
<1>7. ASSUME NEW i \in 1 .. Len(chain'), NEW k \in 1 .. Len(chain'),
             chain'[i].op = "created", chain'[k].op \in SessionOps,
             chain'[i].who < chain'[k].who
      PROVE  i < k
  <2>1. CASE NewJob(chain'[i])
    <3>1. chain'[i].who = born + 1 /\ chain'[k].who \in 1 .. born + 1
      BY <1>5, <1>6, <1>7, <2>1
    <3> QED
      BY <1>1, <1>7, <3>1
  <2>2. CASE /\ i + d \in 1 .. Len(chain) /\ chain'[i] = chain[i + d]
             /\ k + d \in 1 .. Len(chain) /\ chain'[k] = chain[k + d]
    <3>1. i + d < k + d
      BY <1>1, <1>7, <2>2 DEF OrderOK
    <3> QED
      BY <1>4, <3>1
  <2>3. CASE i + d \in 1 .. Len(chain) /\ d = 0 /\ k = Len(chain) + 1
    BY <1>4, <2>3
  <2> QED
    BY <1>3, <2>1, <2>2, <2>3 DEF Kept
<1>8. ASSUME NEW i \in 1 .. Len(chain'), chain'[i].op = "created"
      PROVE  /\ state'.owner > chain'[i].who => state'.materialized
             /\ \A s \in Lives : s > chain'[i].who =>
                  session'[s].retirement # "done" /\ session'[s].init # "failed"
  <2>1. CASE NewJob(chain'[i])
    <3>1. PICK n \in 0 .. 1 : Create(n) /\ chain'[i].who = born + 1
      BY <1>6, <1>8, <2>1
    <3>2. UNCHANGED state
      BY <3>1 DEF Create
    <3>3. ASSUME NEW s \in Lives, s > born + 1
          PROVE  session'[s].retirement # "done" /\ session'[s].init # "failed"
      <4>1. s > born /\ s \in Nat
        BY <1>1, <3>3 DEF Lives
      <4>2. session[s].retirement = "none" /\ session[s].init = "none"
        BY <1>1, <4>1 DEF Unborn
      <4>3. ~\E op \in SessionOps : Running(op) /\ Head(chain).who = s
        BY <1>1, <4>1, JobHead DEF Bonded
      <4> QED
        BY <4>2, <4>3, EndsMove
    <3>4. ~(state'.owner > born + 1)
      BY <1>1, <3>2
    <3> QED
      BY <3>1, <3>3, <3>4
  <2>2. CASE i + d \in 1 .. Len(chain) /\ chain'[i] = chain[i + d]
    <3> DEFINE j == i + d
    <3>1. PICK r : r = chain[j].who
      OBVIOUS
    <3>2. /\ j \in 1 .. Len(chain) /\ chain[j].op = "created" /\ chain'[i].who = r
          /\ r \in 1 .. born
      BY <1>1, <1>8, <2>2, <3>1 DEF JobsOK, Bonded, SessionOps
    <3> HIDE DEF j
    <3>3. ASSUME NEW op \in SessionOps, Running(op) PROVE ~(Head(chain).who > r)
      <4>1. /\ 1 \in 1 .. Len(chain) /\ chain[1] = Head(chain) /\ chain[1].op = op
            /\ Head(chain).who \in 1 .. born
        BY <1>1, <3>3, FirstIndex, JobHead DEF Bonded
      <4>2. chain[j].who < chain[1].who => j < 1
        BY <1>1, <3>2, <3>3, <4>1 DEF OrderOK
      <4>3. ~(r < chain[1].who)
        BY <3>1, <3>2, <4>2
      <4> QED
        BY <1>1, <3>2, <4>1, <4>3
    <3>4. ASSUME NEW s \in Lives, s > r
          PROVE  session'[s].retirement # "done" /\ session'[s].init # "failed"
      <4>1. session[s].retirement # "done" /\ session[s].init # "failed"
        BY <1>1, <3>1, <3>2, <3>4 DEF OrderOK
      <4>2. ~\E op \in SessionOps : Running(op) /\ Head(chain).who = s
        BY <3>3, <3>4
      <4> QED
        BY <4>1, <4>2, EndsMove
    <3>5. ASSUME state'.owner > r PROVE state'.materialized
      <4>1. CASE state'.owner = state.owner /\ (state.materialized => state'.materialized)
        BY <1>1, <3>1, <3>2, <3>5, <4>1 DEF OrderOK
      <4>2. CASE state' = NoState
        BY <1>1, <3>2, <3>5, <4>2 DEF NoState, nobody
      <4>3. CASE Running("created") /\ state'.owner = Head(chain).who
        BY <3>3, <3>5, <4>3 DEF SessionOps
      <4>4. ASSUME NEW k \in Callers, NEW n \in 0 .. 1, Publish(k, n)
            PROVE  state'.materialized
        <5>1. state.materialized
          BY <1>1, <4>4, PublishFacts DEF CountOK
        <5>2. state'.materialized = state.materialized
          BY <1>1, <4>4 DEF Publish, States
        <5> QED
          BY <5>1, <5>2
      <4> QED
        BY <4>1, <4>2, <4>3, <4>4, StatesMove DEF StateMoves
    <3> QED
      BY <3>2, <3>4, <3>5
  <2> QED
    BY <1>3, <2>1, <2>2 DEF Kept
<1> QED
  BY <1>7, <1>8 DEF OrderOK

\* A public append is called while nobody owns the identity or could come to.
LEMMA ColdFacts ==
  ASSUME CountsInv, Cold PROVE \A i \in 1 .. Len(chain) : chain[i].op # "created"
<1>1. /\ LivesOK /\ JobsOK /\ OrderOK /\ WorkOK /\ current = nobody
      /\ state.owner = nobody /\ born \in Nat
      /\ born # nobody => session[born].retirement \notin {"flush", "release"}
  BY CountsFacts DEF Cold, retirements
<1>2. SUFFICES ASSUME NEW i \in 1 .. Len(chain), chain[i].op = "created" PROVE FALSE
  OBVIOUS
<1> DEFINE s == chain[i].who
<1>3. /\ s \in 1 .. born /\ session[s].init = "queued"
  BY <1>1, <1>2 DEF JobsOK, SessionOps, Bonded
<1>4. born \in Lives /\ s \in Lives /\ born # nobody
  BY <1>1, <1>3, BoundsAssumption DEF LivesOK, Lives, nobody
<1>5. /\ Ended(born) /\ session[born] \in Sessions
      /\ session[born].retirement \in {"failed", "done"}
  BY <1>1, <1>4 DEF LivesOK, WorkOK, Sessions
<1>6. CASE s = born
  BY <1>3, <1>5, <1>6 DEF Ended
<1>7. CASE s < born
  <2>1. session[born].retirement # "done" /\ session[born].init # "failed"
    BY <1>1, <1>2, <1>4, <1>7 DEF OrderOK
  <2>2. session[born].init = "done" /\ hasWork(born)
    BY <1>5, <2>1 DEF Ended, hasWork
  <2>3. state.owner = born
    BY <1>1, <1>4, <2>2 DEF WorkOK
  <2> QED
    BY <1>1, <1>4, <2>3
<1> QED
  BY <1>1, <1>3, <1>6, <1>7

\* What waits to be stored for a published session waits under its name, and an
\* append among nobody's.
LEMMA ClaimsKept ==
  ASSUME CountsInv, [Next]_vars PROVE ClaimsOK'
<1>1. /\ LifeInv /\ ClaimsOK /\ Formed /\ JobsOK /\ CountOK /\ state \in States
      /\ born \in 0 .. MaxLives /\ MaxLives \in Nat /\ born \in Nat
  BY CountsFacts, BoundsAssumption DEF CountsInv, LivesOK
<1>2. PICK d : Kept(d)
  BY Positions
<1>3. Len(chain) \in Nat /\ Len(chain') \in Nat /\ d \in {0, 1}
  BY <1>2, Positions DEF Kept
<1>4. ASSUME NEW k \in Callers, NEW n \in 0 .. 1, Publish(k, n)
      PROVE  /\ state'.owner = born + 1 /\ state'.materialized /\ state.owner = nobody
             /\ \A j \in 1 .. Len(chain) : chain[j].op # "append"
  <2>1. state.materialized /\ state.owner = nobody
    BY <1>1, <1>4, PublishFacts DEF CountOK
  <2>2. state'.materialized = state.materialized /\ state'.owner = born + 1
    BY <1>1, <1>4 DEF Publish, States
  <2> QED
    BY <1>4, <2>1, <2>2 DEF Publish, NoAppendPending
<1>5. ASSUME NEW i \in 1 .. Len(chain'), chain'[i].op = "suffix"
      PROVE  state'.owner = chain'[i].who /\ state'.materialized
  <2>1. CASE NewJob(chain'[i])
    BY <1>4, <1>5, <2>1 DEF NewJob
  <2>2. CASE i + d \in 1 .. Len(chain) /\ chain'[i] = chain[i + d]
    <3>1. PICK j \in 1 .. Len(chain) : chain'[i] = chain[j]
      BY <2>2
    <3>2. /\ chain[j].op = "suffix" /\ state.owner = chain[j].who /\ state.materialized
          /\ state.owner \in 1 .. born
      BY <1>1, <1>5, <3>1 DEF ClaimsOK, JobsOK, SessionOps, Bonded
    <3>3. ~(Running("release") /\ state.owner = Head(chain).who)
      <4>1. SUFFICES ASSUME Running("release"), state.owner = Head(chain).who PROVE FALSE
        OBVIOUS
      <4>2. 1 \in 1 .. Len(chain) /\ chain[1] = Head(chain) /\ chain[1].op = "release"
        BY <1>1, <4>1, FirstIndex
      <4>3. j = 1
        BY <1>1, <3>2, <4>1, <4>2 DEF JobsOK, SessionOps
      <4> QED
        BY <3>2, <4>2, <4>3
    <3>4. state.owner # nobody
      BY <1>1, <3>2 DEF nobody
    <3> QED
      BY <1>4, <3>1, <3>2, <3>3, <3>4, StatesMove DEF StateMoves
  <2> QED
    BY <1>2, <1>5, <2>1, <2>2 DEF Kept
<1>6. ASSUME NEW i \in 1 .. Len(chain'), NEW k \in 1 .. Len(chain'),
             chain'[i].op = "append"
      PROVE  state'.owner = nobody /\ chain'[k].op # "created"
  <2>1. CASE NewJob(chain'[i])
    <3>1. PICK c \in Callers : append(c)
      BY <1>6, <2>1 DEF NewJob
    <3>2. Cold /\ UNCHANGED state
      BY <3>1 DEF append
    <3>3. state.owner = nobody /\ \A j \in 1 .. Len(chain) : chain[j].op # "created"
      BY <3>2, ColdFacts DEF Cold
    <3>4. ASSUME NewJob(chain'[k]) PROVE chain'[k].op # "created"
      <4>1. SUFFICES ASSUME NEW n \in 0 .. 1, Create(n) PROVE FALSE
        BY <3>4 DEF NewJob
      <4>2. born' = born + 1 /\ born' = born
        BY <3>1, <4>1 DEF append, Create
      <4> QED
        BY <1>1, <4>2
    <3>5. k + d \in 1 .. Len(chain) /\ chain'[k] = chain[k + d] => chain'[k].op # "created"
      BY <3>3
    <3> QED
      BY <1>2, <3>2, <3>3, <3>4, <3>5 DEF Kept
  <2>2. CASE i + d \in 1 .. Len(chain) /\ chain'[i] = chain[i + d]
    <3>1. PICK j \in 1 .. Len(chain) : chain'[i] = chain[j]
      BY <2>2
    <3>2. /\ chain[j].op = "append" /\ state.owner = nobody
          /\ \A l \in 1 .. Len(chain) : chain[l].op # "created"
      BY <1>1, <1>6, <3>1 DEF ClaimsOK
    <3>3. ~Running("created")
      BY <1>1, <3>2, FirstIndex
    <3>4. state'.owner = nobody
      BY <1>4, <3>2, <3>3, StatesMove DEF StateMoves, NoState
    <3>5. NewJob(chain'[k]) => chain'[k].op # "created"
      BY <3>2 DEF NewJob, Create, NoAppendPending
    <3>6. k + d \in 1 .. Len(chain) /\ chain'[k] = chain[k + d] => chain'[k].op # "created"
      BY <3>2
    <3> QED
      BY <1>2, <3>4, <3>5, <3>6 DEF Kept
  <2> QED
    BY <1>2, <1>6, <2>1, <2>2 DEF Kept
<1> QED
  BY <1>5, <1>6 DEF ClaimsOK

\* A step that leaves an operation running on leaves it in its place.
LEMMA HeadStays ==
  ASSUME CountsInv, [Next]_vars, task'.step # "start"
  PROVE  /\ chain # <<>> /\ chain' # <<>> /\ Head(chain') = Head(chain)
         /\ \A op : Running(op)' <=> Running(op)
<1>1. /\ Formed /\ StepsOK /\ LifeInv /\ (Serialized => chain # <<>>)
  BY CountsFacts, ChainsMove DEF CountsInv
<1>2. /\ \E Jobs : chain' \in Seq(Jobs)
      /\ chain' = <<>> => task' = AtStart
  BY <1>1, LifeNext DEF LifeInv, IInv, Formed, TaskOK
<1>3. chain # <<>>
  <2>1. CASE ~Serialized
    <3>1. task' = task
      BY <2>1, Asides
    <3> QED
      BY <1>1, <3>1 DEF StepsOK, Running
  <2> QED
    BY <1>1, <2>1
<1>4. chain' # <<>>
  BY <1>2 DEF AtStart
<1>5. PICK d : Kept(d)
  BY Positions
<1>6. d = 0
  BY <1>5 DEF Kept, AtStart
<1>7. PICK Jobs : chain \in Seq(Jobs)
  BY <1>1 DEF Formed
<1>8. Len(chain) \in Nat \ {0} /\ chain[1] = Head(chain)
  BY <1>3, <1>7
<1>9. PICK After : chain' \in Seq(After)
  BY <1>2
<1>10. Len(chain') \in Nat \ {0} /\ chain'[1] = Head(chain')
  BY <1>4, <1>9
<1>11. chain'[1] = chain[1]
  <2>1. 1 \in 1 .. Len(chain')
    BY <1>10
  <2>2. \/ 1 + d \in 1 .. Len(chain) /\ chain'[1] = chain[1 + d]
        \/ 1 = Len(chain) + 1
    BY <1>5, <2>1 DEF Kept
  <2> QED
    BY <1>6, <1>8, <2>2
<1>12. Head(chain') = Head(chain)
  BY <1>8, <1>10, <1>11
<1> QED
  BY <1>3, <1>4, <1>12 DEF Running

\* What the running operation relies on outlives the steps beside it.
LEMMA AsideSteps ==
  ASSUME CountsInv, [Next]_vars, ~Serialized, task'.step # "start" PROVE StepsOK'
<1>1. /\ LifeInv /\ StepsOK /\ TaskOK /\ Formed /\ PoolOK /\ JobsOK
      /\ born \in Nat /\ chain # <<>> /\ stored.log \in Logs
      /\ Head(chain') = Head(chain) /\ \A op : Running(op)' <=> Running(op)
  BY CountsFacts, HeadStays DEF CountsInv
<1>2. /\ task' = task
      /\ \/ UNCHANGED <<stored, state>> \/ Foreign
         \/ \E k \in Callers, n \in 0 .. 1 : Publish(k, n)
  BY Asides
<1>3. Foreign => UNCHANGED state
  BY DEF Foreign
<1>4. task'.step # "start" => Running("created")' \/ Running("commit")' \/ Running("append")'
  BY <1>1, <1>2 DEF StepsOK
<1>5. ASSUME Running("created")
      PROVE  /\ task'.step \in {"start", "truncate", "append"}
             /\ task'.step = "append" => state'.owner = Head(chain').who
             /\ task'.step = "truncate" =>
                  ~state'.tracked /\ IsPrefix(stored'.log, session'[Head(chain').who].log)
  <2> DEFINE s == Head(chain).who
  <2>1. s \in 1 .. born /\ s \in Lives
    BY <1>1, <1>5, JobHead, CountsFacts, BoundsAssumption DEF SessionOps, Bonded, LivesOK, Lives
  <2>2. ASSUME task.step = "append" PROVE state'.owner = s
    <3>1. state.owner = s /\ s # nobody
      BY <1>1, <1>5, <2>1, <2>2 DEF StepsOK, nobody
    <3> QED
      BY <1>2, <1>3, <3>1, PublishFacts
  <2>3. ASSUME task.step = "truncate"
        PROVE  ~state'.tracked /\ IsPrefix(stored'.log, session'[s].log)
    <3>1. ~state.tracked /\ IsPrefix(stored.log, session[s].log) /\ session[s].log \in Logs
      BY <1>1, <1>5, <2>1, <2>3, CountsFacts DEF StepsOK
    <3>2. UNCHANGED <<stored, state>>
      BY <1>2, <2>3, <3>1, PublishFacts DEF Foreign
    <3>3. \/ session'[s].log = session[s].log
          \/ session'[s].log = Append(session[s].log, Event(s, FALSE))
      <4>1. s # born + 1 /\ ~Running("release") /\ LogMoves(s)
        BY <1>1, <1>5, <2>1, LogsMove DEF Running
      <4> HIDE DEF s
      <4> QED
        BY <4>1 DEF LogMoves
    <3>4. Event(s, FALSE) \in Happening
      BY <2>1 DEF Event, Happening, Lives
    <3>5. IsPrefix(stored.log, session'[s].log)
      <4>1. /\ Append(session[s].log, Event(s, FALSE)) \in Logs
            /\ IsPrefix(session[s].log, Append(session[s].log, Event(s, FALSE)))
        BY <3>1, <3>4, PrefixGrows
      <4> DEFINE longer == Append(session[s].log, Event(s, FALSE))
      <4> HIDE DEF longer
      <4>2. IsPrefix(stored.log, longer)
        BY <1>1, <3>1, <4>1, PrefixTrans DEF longer
      <4> QED
        BY <3>1, <3>3, <4>2 DEF longer
    <3> QED
      BY <3>1, <3>2, <3>5
  <2> QED
    BY <1>1, <1>2, <1>5, <2>2, <2>3 DEF StepsOK
<1>6. ASSUME Running("commit")
      PROVE  /\ task'.step \in {"start", "stale", "truncate", "close", "kept"}
             /\ task'.step \in {"truncate", "close", "kept"} =>
                  state'.owner = nobody /\ caller'[Head(chain').who].same
             /\ task'.step = "kept" => state'.tracked /\ state'.cursor = Len(stored'.log)
  <2> DEFINE c == Head(chain).who
  <2>1. c \in Callers
    BY <1>1, <1>6, FirstIndex DEF LifeInv, IInv, ChainOK, Own
  <2>2. ASSUME task.step \in {"truncate", "close", "kept"}
        PROVE  UNCHANGED <<stored, state>> /\ caller'[c].same
    <3>1. Commits(c)
      BY <1>1, <1>6, <2>2 DEF StepsOK, TaskOK, Commits
    <3>2. entry.phase = "committing"
      BY <1>1, <2>1, <3>1 DEF PoolOK
    <3>3. UNCHANGED <<stored, state>>
      BY <1>2, <2>2, <3>2, PublishFacts DEF Foreign
    <3>4. caller'[c].at = "commit"
      BY <1>1, <1>2, <1>6, <2>2, LifeNext DEF LifeInv, IInv, TaskOK
    <3>5. Carries(c)
      BY <1>1, <2>1, CallersCarry
    <3>6. ~(Len(stored.log) < Len(stored'.log))
      BY <1>1, <3>3, CountsFacts
    <3> QED
      BY <3>1, <3>3, <3>4, <3>5, <3>6 DEF Carries, Holds, Commits
  <2> QED
    BY <1>1, <1>2, <1>6, <2>2 DEF StepsOK
<1>7. ASSUME Running("append")
      PROVE  /\ task'.step \in {"start", "source", "adopt", "stale", "truncate", "close",
                                "kept", "append"}
             /\ task'.step = "adopt" => task'.source.log # <<>>
             /\ task'.step \in {"kept", "append"} => state'.tracked
             /\ task'.step \notin {"start", "kept", "append"} => ~state'.tracked
  <2>1. ~NoAppendPending
    BY <1>1, <1>7, FirstIndex DEF NoAppendPending
  <2>2. UNCHANGED state
    BY <1>2, <1>3, <2>1 DEF Publish
  <2> QED
    BY <1>1, <1>2, <1>7, <2>2 DEF StepsOK
<1> QED
  BY <1>1, <1>4, <1>5, <1>6, <1>7 DEF StepsOK

\* An initialization repairs a log nobody tracks and its seed covers, and stores
\* only as the owner.
LEMMA CreatedSteps ==
  ASSUME CountsInv, Running("created"), onCreated \/ Truncate, task'.step # "start"
  PROVE  LET s == Head(chain).who
         IN  \/ task'.step = "append" /\ state'.owner = s
             \/ /\ task'.step = "truncate" /\ ~state'.tracked
                /\ IsPrefix(stored'.log, session'[s].log)
<1> DEFINE s == Head(chain).who
           seed == SubSeq(session[s].log, 1, Head(chain).last)
           Goal == \/ task'.step = "append" /\ state'.owner = s
                   \/ /\ task'.step = "truncate" /\ ~state'.tracked
                      /\ IsPrefix(stored'.log, session'[s].log)
<1> SUFFICES Goal
  OBVIOUS
<1>1. /\ Formed /\ JobsOK /\ CountOK /\ OwnerOK /\ ReadOK /\ stored \in Files
      /\ stored.log \in Logs /\ state \in States
      /\ task = [step |-> task.step, source |-> task.source]
  BY CountsFacts DEF Formed
<1>2. s \in Lives /\ session[s].log \in Logs /\ Head(chain).last \in 0 .. Len(session[s].log)
  BY <1>1, JobHead, CountsFacts, BoundsAssumption DEF SessionOps, Bonded, LivesOK, Lives
<1>3. ~Finish
  BY DEF Finish, AtStart
<1>4. ASSUME NEW cursor, NEW mat, NEW last, Binds(s, cursor, mat, last) PROVE Goal
  BY <1>1, <1>3, <1>4 DEF Binds, Owned, Step
<1>5. ASSUME state.tracked => Abandoned, adoptLivePrefix(s, seed), UNCHANGED stored
      PROVE  Goal
  <2>1. CASE ~stored.torn
    BY <1>3, <1>4, <1>5, <2>1 DEF adoptLivePrefix, Collides
  <2>2. CASE stored.torn
    <3>1. /\ IsPrefix(stored.log, seed) /\ task' = [step |-> "truncate", source |-> stored]
          /\ UNCHANGED <<session, state>>
      BY <1>3, <1>5, <2>2 DEF adoptLivePrefix, Collides
    <3>2. IsPrefix(stored.log, session[s].log)
      BY <1>1, <1>2, <3>1, PrefixOfStart
    <3>3. ~state.tracked
      <4>1. SUFFICES ASSUME Abandoned PROVE FALSE
        BY <1>5
      <4>2. Len(stored.log) = 0
        BY <1>1, <4>1 DEF Abandoned, CountOK, OwnerOK
      <4>3. stored.log = <<>>
        BY <1>1, <4>2, PrefixFacts
      <4> QED
        BY <1>1, <2>2, <4>3 DEF ReadOK
    <3> QED
      BY <1>5, <3>1, <3>2, <3>3
  <2> QED
    BY <2>1, <2>2
<1>6. CASE onCreated
  <2>1. UNCHANGED stored
    BY <1>6 DEF onCreated
  <2>2. ~Collides(s)
    BY <1>3 DEF Collides
  <2> HIDE DEF Goal
  <2> QED
    BY <1>4, <1>5, <1>6, <2>1, <2>2 DEF onCreated
<1>7. CASE Truncate
  <2>1. Repaired(stored.log)
    BY <1>3, <1>7 DEF Truncate, RepairFails
  <2> HIDE DEF Goal
  <2> QED
    BY <1>4, <2>1 DEF Repaired
<1> QED
  BY <1>6, <1>7

\* A commit goes on only with the log as it was read, so it still has its entry.
LEMMA CommitSteps ==
  ASSUME CountsInv, Running("commit"), StartCommit \/ Truncate \/ Close,
         task'.step # "start"
  PROVE  \/ task'.step = "stale"
         \/ /\ task'.step \in {"truncate", "close", "kept"} /\ state'.owner = nobody
            /\ caller'[Head(chain).who].same
            /\ task'.step = "kept" => state'.tracked /\ state'.cursor = Len(stored'.log)
<1> DEFINE c == Head(chain).who
<1>1. /\ Formed /\ ReadOK /\ StepsOK /\ state \in States /\ LifeInv
      /\ task = [step |-> task.step, source |-> task.source]
  BY CountsFacts DEF Formed, CountsInv
<1>2. c \in Callers
  BY <1>1, FirstIndex DEF LifeInv, IInv, ChainOK, Own
<1>3. ~Finish
  BY DEF Finish, AtStart
<1>4. ~Running("created")
  BY DEF Running
<1>5. CASE StartCommit
  <2>1. /\ caller[c].at = "commit" /\ state.owner = nobody
        /\ commitPrepared(caller[c].source) /\ UNCHANGED <<stored, caller>>
    BY <1>3, <1>5 DEF StartCommit
  <2>2. stored = caller[c].source => caller[c].same
    BY <1>1, <1>2, <2>1, CountsFacts DEF ReadOK
  <2>4. CASE stored # caller[c].source
    BY <2>1, <2>4 DEF commitPrepared, isPreparedSourceCurrent, AtStart
  <2>5. CASE stored = caller[c].source
    <3>1. CASE NeedsRepair(caller[c].source)
      BY <2>1, <2>2, <2>5, <3>1 DEF commitPrepared, isPreparedSourceCurrent
    <3>2. CASE ~NeedsRepair(caller[c].source)
      <4>1. state' = Tracks(stored.log) /\ task' = [AtStart EXCEPT !.step = "kept"]
        BY <2>1, <2>5, <3>2 DEF commitPrepared, isPreparedSourceCurrent
      <4>2. /\ state'.owner = state.owner /\ state'.tracked
            /\ state'.cursor = Len(stored.log)
        BY <1>1, <4>1 DEF Tracks, States
      <4>3. task'.step = "kept"
        BY <4>1 DEF AtStart
      <4> QED
        BY <2>1, <2>2, <2>5, <4>2, <4>3
    <3> QED
      BY <3>1, <3>2
  <2> QED
    BY <2>4, <2>5
<1>6. CASE Truncate
  <2>1. state.owner = nobody /\ caller[c].same
    BY <1>1, <1>6 DEF StepsOK, Truncate
  <2>2. \/ Step("close") /\ UNCHANGED <<state, caller>>
        \/ Step("stale")
    BY <1>3, <1>4, <1>6 DEF Truncate, RepairFails, Repaired
  <2> QED
    BY <1>1, <2>1, <2>2 DEF Step
<1>7. CASE Close
  <2>1. Step("stale")
    BY <1>3, <1>4, <1>7 DEF Close, RepairFails, Repaired
  <2> QED
    BY <1>1, <2>1 DEF Step
<1> QED
  BY <1>5, <1>6, <1>7

\* An append tracks the log it stores to; what it adopts is not empty.
LEMMA AppendSteps ==
  ASSUME CountsInv, Running("append"), task'.step # "start",
         StartAppend \/ TakeSource \/ Adopt \/ Truncate \/ Close
  PROVE  /\ task'.step \in {"start", "source", "adopt", "stale", "truncate", "close",
                            "kept", "append"}
         /\ task'.step = "adopt" => task'.source.log # <<>>
         /\ task'.step \in {"kept", "append"} => state'.tracked
         /\ task'.step \notin {"start", "kept", "append"} => ~state'.tracked
<1>1. /\ Formed /\ ReadOK /\ StepsOK /\ state \in States
      /\ task = [step |-> task.step, source |-> task.source]
  BY CountsFacts DEF Formed
<1>2. ~Finish /\ ~AppendThrows
  BY DEF Finish, AppendThrows, AtStart
<1>3. ~Running("created")
  BY DEF Running
<1>4. CASE StartAppend
  BY <1>1, <1>2, <1>4 DEF StartAppend, Step
<1>5. CASE TakeSource
  <2>1. task.step = "source" /\ ~state.tracked /\ UNCHANGED state
    BY <1>1, <1>2, <1>5 DEF TakeSource, StepsOK
  <2>2. CASE entry.phase = "ready"
    BY <1>1, <1>2, <1>5, <2>1, <2>2 DEF TakeSource, ReadOK, Read
  <2>3. CASE entry.phase # "ready"
    <3>1. ~Absent(stored) /\ task' = [step |-> "adopt", source |-> stored]
      BY <1>2, <1>5, <2>3 DEF TakeSource
    <3>2. stored.log # <<>>
      BY <1>1, <3>1 DEF Absent, ReadOK
    <3> QED
      BY <2>1, <3>1, <3>2
  <2> QED
    BY <2>2, <2>3
<1>6. CASE Adopt
  <2>1. CASE task.step = "adopt"
    <3>1. commitPrepared(task.source) /\ ~state.tracked
      BY <1>1, <1>2, <1>6, <2>1 DEF Adopt, StepsOK
    <3>2. Tracks(task.source.log).tracked
      BY <1>1 DEF Tracks, States
    <3> QED
      BY <3>1, <3>2 DEF commitPrepared, AtStart
  <2>2. CASE task.step \in {"kept", "stale"}
    BY <1>1, <1>6, <2>2 DEF Adopt, StepsOK, Step
  <2> QED
    BY <1>6, <2>1, <2>2 DEF Adopt
<1>7. CASE Truncate
  <2>1. ~state.tracked
    BY <1>1, <1>7 DEF StepsOK, Truncate
  <2>2. (Step("close") \/ Step("stale")) /\ UNCHANGED state
    BY <1>2, <1>3, <1>7 DEF Truncate, RepairFails, Repaired
  <2> QED
    BY <1>1, <2>1, <2>2 DEF Step
<1>8. CASE Close
  <2>1. ~state.tracked
    BY <1>1, <1>8 DEF StepsOK, Close
  <2>2. Step("stale") /\ UNCHANGED state
    BY <1>2, <1>3, <1>8 DEF Close, RepairFails, Repaired
  <2> QED
    BY <1>1, <2>1, <2>2 DEF Step
<1> QED
  BY <1>4, <1>5, <1>6, <1>7, <1>8

\* What the running operation relies on holds after every step.
LEMMA StepsKept ==
  ASSUME CountsInv, [Next]_vars PROVE StepsOK'
<1>1. CASE task'.step = "start"
  BY <1>1 DEF StepsOK
<1>2. CASE task'.step # "start" /\ ~Serialized
  BY <1>2, AsideSteps
<1>3. CASE task'.step # "start" /\ Serialized
  <2>1. /\ Formed /\ StepsOK /\ Head(chain') = Head(chain)
        /\ \A op : Running(op)' <=> Running(op)
    BY <1>3, CountsFacts, HeadStays
  <2>2. ~Finish
    BY <1>3 DEF Finish, AtStart
  <2>3. \/ Running("created") /\ (onCreated \/ Truncate)
        \/ Running("commit") /\ (StartCommit \/ Truncate \/ Close)
        \/ Running("append") /\ (StartAppend \/ TakeSource \/ Adopt \/ Truncate \/ Close)
    <3>1. CASE Truncate
      BY <2>1, <3>1 DEF Truncate, StepsOK
    <3>2. CASE Close
      BY <2>1, <3>2 DEF Close, StepsOK
    <3>3. CASE \/ prepareCore \/ CheckInspected \/ FinishCommit \/ retireCore
               \/ appendLiveBatch \/ AppendSeed
      BY <2>2, <3>3 DEF prepareCore, CheckInspected, FinishCommit, retireCore,
                        appendLiveBatch, AppendSeed
    <3>4. CASE FinishAppend
      BY <2>2, <3>4 DEF FinishAppend, AppendThrows
    <3>5. CASE onCreated \/ StartCommit \/ StartAppend \/ TakeSource \/ Adopt
      BY <3>5 DEF onCreated, StartCommit, StartAppend, TakeSource, Adopt
    <3> QED
      BY <1>3, <3>1, <3>2, <3>3, <3>4, <3>5 DEF Serialized
  <2>4. CASE Running("created") /\ (onCreated \/ Truncate)
    <3>1. ~Running("commit") /\ ~Running("append")
      BY <2>4 DEF Running
    <3> DEFINE s == Head(chain).who
    <3>2. \/ task'.step = "append" /\ state'.owner = s
          \/ /\ task'.step = "truncate" /\ ~state'.tracked
             /\ IsPrefix(stored'.log, session'[s].log)
      BY <1>3, <2>4, CreatedSteps
    <3> QED
      BY <2>1, <2>4, <3>1, <3>2 DEF StepsOK
  <2>5. CASE Running("commit") /\ (StartCommit \/ Truncate \/ Close)
    <3>1. ~Running("created") /\ ~Running("append")
      BY <2>5 DEF Running
    <3> QED
      BY <1>3, <2>1, <2>5, <3>1, CommitSteps DEF StepsOK
  <2>6. CASE Running("append") /\ (StartAppend \/ TakeSource \/ Adopt \/ Truncate \/ Close)
    <3>1. ~Running("created") /\ ~Running("commit")
      BY <2>6 DEF Running
    <3> QED
      BY <1>3, <2>1, <2>6, <3>1, AppendSteps DEF StepsOK
  <2> QED
    BY <2>3, <2>4, <2>5, <2>6
<1> QED
  BY <1>1, <1>2, <1>3
-----------------------------------------------------------------------------
(***************************************************************************)
(* What is counted agrees with the store.                                  *)
(***************************************************************************)
\* Nothing is tracked at first, and the session a hot reload finds has the log
\* it was given.
LEMMA InitCounts == Init => CountsInv
<1> SUFFICES ASSUME Init PROVE CountsInv
  OBVIOUS
<1>1. LifeInv /\ LivesOK
  BY InitInv, InitLive DEF LifeInv
<1>2. PICK log \in {<<>>, <<Event(nobody, FALSE)>>, <<Event(nobody, TRUE)>>},
           torn \in BOOLEAN : stored = [log |-> log, torn |-> torn /\ log # <<>>]
  BY DEF Init
<1>3. log \in Logs /\ (log # <<>> => Len(log) = 1 /\ log[1].by = nobody)
  <2>1. log \in Logs
    BY SmallLogs DEF nobody
  <2>2. \A end : Len(<<Event(nobody, end)>>) = 1 /\ <<Event(nobody, end)>>[1].by = nobody
    BY DEF Event
  <2> QED
    BY <2>1, <2>2
<1>4. stored.log = log /\ (stored.torn => log # <<>>) /\ Len(log) \in Nat
      /\ state.owner = nobody /\ state.cursor = 0 /\ ~state.tracked /\ state = NoState
      /\ ~state.materialized
  BY <1>2, <1>3, LenProperties DEF Init, NoState, Logs
<1>5. ReadOK
  BY <1>4 DEF Init, ReadOK, NoEntry, Read, Holds, Outside
<1>6. CountOK /\ OwnerOK
  BY <1>4 DEF CountOK, OwnerOK
<1>7. SubSeq(log, 1, Len(log)) \in Logs
  BY <1>3, <1>4, PrefixOfStart
<1>8. task.step = "start" /\ StepsOK
  BY DEF Init, AtStart, StepsOK
<1>9. \A r \in Lives : Alien(r, stored.log)
  BY <1>3, <1>4 DEF Alien, Lives, nobody
<1>10. CASE /\ current = nobody /\ born = 0 /\ chain = <<>>
            /\ session = [s \in Lives |-> Unborn]
  <2>1. \A r \in Lives : /\ session[r].log = <<>> /\ session[r].init = "none"
                          /\ session[r].retirement = "none"
    BY <1>10 DEF Unborn
  <2>2. HeardOK
    BY <1>9, <2>1, SmallAliens DEF HeardOK, Unheard
  <2>3. Len(chain) = 0
    BY <1>10
  <2>4. WorkOK
    BY <1>10, <2>1 DEF WorkOK, nobody
  <2> QED
    BY <1>1, <1>5, <1>6, <1>8, <2>2, <2>3, <2>4
    DEF CountsInv, SeedsOK, OrderOK, ClaimsOK
<1>11. CASE /\ current = 1 /\ born = 1
            /\ \E base \in {stored.log, <<>>}, n \in 0 .. 1 :
                 LET events == base \o SessionEvents(1, n)
                 IN  /\ session = [s \in Lives |->
                          IF s = 1 THEN [Unborn EXCEPT !.log = events, !.init = "queued",
                                                       !.from = Len(events) + 1]
                          ELSE Unborn]
                     /\ chain = <<[op |-> "created", who |-> 1, first |-> 1,
                                   last |-> Len(events)]>>
  <2>1. PICK job : chain = <<job>> /\ job.op = "created" /\ job.who = 1
    BY <1>11
  <2>2. Len(chain) = 1 /\ chain[1] = job /\ \A i \in 1 .. Len(chain) : i = 1
    BY <2>1
  <2>3. \A r \in Lives : r # 1 => session[r].log = <<>>
    BY <1>11 DEF Unborn
  <2>4. \A r \in Lives : /\ session[r].init \in {"none", "queued"}
                          /\ session[r].retirement = "none"
    BY <1>11 DEF Unborn
  <2>5. ASSUME NEW s \in Lives, s > born PROVE Unheard(s)
    <3>1. PICK base \in {stored.log, <<>>}, n \in 0 .. 1 :
             session = [r \in Lives |->
               IF r = 1
               THEN [Unborn EXCEPT !.log = base \o SessionEvents(1, n), !.init = "queued",
                                   !.from = Len(base \o SessionEvents(1, n)) + 1]
               ELSE Unborn]
      BY <1>11
    <3>2. 1 \in Lives => session[1].log = base \o SessionEvents(1, n)
      BY <3>1 DEF Unborn
    <3>3. s # 1 /\ n \in Nat /\ 1 \in Nat
      BY <1>11, <2>5
    <3>4. base \in Logs /\ Alien(s, base)
      BY <1>3, <1>4, <1>9, <2>5, SmallLogs, SmallAliens
    <3>5. SessionEvents(1, n) \in Logs /\ Alien(s, SessionEvents(1, n))
      BY <3>3, SmallLogs, SmallAliens
    <3>6. Alien(s, base \o SessionEvents(1, n))
      BY <3>4, <3>5, AlienLogs
    <3> QED
      BY <1>9, <2>3, <2>5, <3>2, <3>6, SmallAliens DEF Unheard
  <2>6. WorkOK
    BY <1>11, <2>4 DEF WorkOK, nobody
  <2>7. OrderOK /\ SeedsOK /\ ClaimsOK
    BY <1>4, <1>8, <2>1, <2>2, <2>4 DEF OrderOK, SeedsOK, ClaimsOK, nobody
  <2> QED
    BY <1>1, <1>5, <1>6, <1>8, <2>5, <2>6, <2>7 DEF CountsInv, HeardOK
<1> QED
  BY <1>10, <1>11 DEF Init

\* The parts of what is counted hold each other up.
LEMMA CountsNext == CountsInv /\ [Next]_vars => CountsInv'
<1> SUFFICES ASSUME CountsInv, [Next]_vars PROVE CountsInv'
  OBVIOUS
<1>1. LifeInv' /\ ReadOK' /\ HeardOK'
  BY LifeNext, ReadKept, HeardKept DEF CountsInv
<1>2. CountOK' /\ OwnerOK' /\ WorkOK'
  BY NumbersKept
<1>3. SeedsOK' /\ OrderOK' /\ ClaimsOK' /\ StepsOK'
  BY SeedsKept, OrderKept, ClaimsKept, StepsKept
<1> QED
  BY <1>1, <1>2, <1>3 DEF CountsInv

\* For any callers, operations, sessions, events and disturbances: the ledger of
\* what is stored agrees with the store through every order of adoption, repair,
\* reservation, publication, append, retirement and foreign write, and the log of
\* a live session holds its own history and nobody else's, once.
THEOREM LedgerCorrect == Spec => []LedgerAgrees
<1>1. CountsInv => LedgerAgrees
  BY DEF CountsInv, CountOK, OwnerOK, LedgerAgrees
<1> QED
  BY <1>1, InitCounts, CountsNext, PTL DEF Spec
-----------------------------------------------------------------------------
(***************************************************************************)
(* Inspection returns nothing older than its call.                         *)
(***************************************************************************)
\* Whoever shares an entry that is being read waits for that read.
LoadOK ==
  entry.phase = "loading" =>
    \A c \in Callers :
      caller[c].same => caller[c].at = "load" /\ caller[c].loader = entry.loader

\* The log was not longer when a caller called.
FloorOK ==
  \A c \in Callers : caller[c].floor \in Nat /\ caller[c].floor <= Len(stored.log)

FreshInv == LifeInv /\ ReadOK /\ LoadOK /\ FloorOK /\ used \in [Kinds -> Nat]

\* How a caller moves: it remembers the log of its call, leaves the check only
\* by the check, and shares an entry that is being read while it waits for it.
Viewed(c) ==
  /\ caller'[c].floor \in {caller[c].floor, 0, Len(stored.log)}
  /\ caller[c].at = "check" /\ caller'[c].at # "check" =>
       CheckInspected /\ Head(chain).who = c
  /\ entry'.phase = "loading" /\ caller'[c].same =>
       caller'[c].at = "load" /\ caller'[c].loader = entry'.loader

\* A caller that rests, or only learns that the entry is gone.
LEMMA RestViewed ==
  ASSUME Formed, LoadOK, entry'.phase = "loading" => UNCHANGED entry,
         NEW c \in Callers, caller'[c] \in {caller[c], Forgotten[c]}
  PROVE  Viewed(c)
<1>1. Fields(caller[c])
  BY DEF Formed
<1>2. /\ Forgotten[c].at = caller[c].at /\ Forgotten[c].floor = caller[c].floor
      /\ ~Forgotten[c].same
  BY <1>1 DEF Forgotten, Fields
<1> QED
  BY <1>2 DEF Viewed, LoadOK

\* One caller leaves, the others rest or learn that the entry is gone.
LEMMA LeaveViewed ==
  ASSUME Formed, LoadOK, entry'.phase = "loading" => UNCHANGED entry,
         NEW k \in Callers, NEW callers \in {caller, Forgotten},
         caller' \in {Returned(k, callers), Gone(k, callers), Again(k, callers)},
         caller[k].at = "check" => CheckInspected /\ Head(chain).who = k
  PROVE  \A c \in Callers : Viewed(c)
<1>1. Well(callers)
  BY ForgottenWell
<1>2. /\ ~caller'[k].same /\ \A c \in Callers \ {k} : caller'[c] = callers[c]
  BY <1>1, LeaveWell
<1>3. caller'[k].floor \in {caller[k].floor, 0}
  <2>1. CASE caller' = Returned(k, callers) \/ caller' = Gone(k, callers)
    BY <1>1, <2>1 DEF Well, Returned, Gone, Outside
  <2>2. CASE caller' = Again(k, callers)
    <3>1. CASE caller[k].aborted
      BY <1>1, <2>2, <3>1 DEF Again, Well, Gone, Outside
    <3>2. CASE ~caller[k].aborted
      BY <1>1, <2>2, <3>2 DEF Again, Well, Outside
    <3> QED
      BY <3>1, <3>2
  <2> QED
    BY <2>1, <2>2
<1>4. Viewed(k)
  BY <1>2, <1>3 DEF Viewed
<1>5. ASSUME NEW c \in Callers \ {k} PROVE Viewed(c)
  BY <1>2, RestViewed
<1> QED
  BY <1>4, <1>5

\* Only a caller that finds no entry starts a read.
LEMMA LoadsStart ==
  ASSUME IInv, [Next]_vars, entry'.phase = "loading"
  PROVE  \/ UNCHANGED entry
         \/ entry = NoEntry /\ \E k \in Callers : Enter(k)
<1> DEFINE Goal == UNCHANGED entry \/ entry'.phase # "loading"
<1>1. entry = [phase |-> entry.phase, source |-> entry.source, loader |-> entry.loader]
  BY DEF IInv, Formed
<1>2. remove \/ makeReady => Goal
  BY <1>1 DEF remove, makeReady, NoEntry
<1>3. ASSUME NEW events, Stores(events) PROVE Goal
  BY <1>2, <1>3 DEF Stores
<1>4. ASSUME NEW k, Throws(k) \/ Undefined(k) \/ Dropped(k) PROVE Goal
  BY <1>2, <1>4 DEF Throws, Undefined, Dropped
<1>5. CASE \/ UNCHANGED vars \/ Record \/ Dispose \/ Foreign \/ Evict \/ retireCore
           \/ onCreated \/ CheckInspected \/ prepareCore
  <2>1. prepareCore => Goal
    BY <1>2 DEF prepareCore, NoEntry
  <2> QED
    BY <1>2, <1>5, <2>1
    DEF vars, Record, Dispose, Foreign, Evict, retireCore, onCreated, CheckInspected
<1>6. CASE StartCommit \/ FinishCommit
  <2>1. entry' = [entry EXCEPT !.phase = "reserved"] => Goal
    BY <1>1
  <2> QED
    BY <1>2, <1>4, <1>6, <2>1 DEF StartCommit, FinishCommit
<1>7. CASE appendLiveBatch \/ AppendSeed \/ FinishAppend
  BY <1>3, <1>7 DEF appendLiveBatch, AppendSeed, FinishAppend, AppendThrows
<1>8. CASE StartAppend \/ TakeSource \/ Adopt
  BY <1>2, <1>8 DEF StartAppend, TakeSource, Adopt, AppendThrows
<1>9. CASE Truncate \/ Close
  BY <1>4, <1>9 DEF Truncate, Close, Repaired, RepairFails
<1>10. ASSUME \/ \E s \in Lives : Drains(s)
              \/ \E n \in 0 .. 1 : Create(n)
       PROVE  Goal
  BY <1>10 DEF Drains, Write, Flushed, Create
<1>11. ASSUME NEW k \in Callers,
              \/ Inspect(k) \/ reserve(k) \/ append(k) \/ Abort(k) \/ HolderEnds(k)
              \/ \E op \in {"inspect", "prepare"} : Call(k, op)
       PROVE  Goal
  <2>1. entry' = [entry EXCEPT !.phase = "committing"] => Goal
    BY <1>1
  <2> QED
    BY <1>2, <1>4, <1>11, <2>1
    DEF Inspect, reserve, append, Abort, HolderEnds, Publish, release, Call
<1>12. ASSUME NEW k \in Callers, Enter(k) PROVE UNCHANGED entry \/ entry = NoEntry
  BY <1>12 DEF Enter, entryFor
<1> QED
  BY <1>5, <1>6, <1>7, <1>8, <1>9, <1>10, <1>11, <1>12
  DEF Next, Progress, Serialized, Continues

\* Every step moves every caller so.
LEMMA CallersViewed ==
  ASSUME LifeInv, LoadOK, [Next]_vars
  PROVE  \A c \in Callers : Viewed(c)
<1> DEFINE Goal == \A c \in Callers : Viewed(c)
<1> SUFFICES Goal
  OBVIOUS
<1>1. /\ IInv /\ Formed /\ PoolOK /\ Well(caller)
      /\ \A c \in Callers : Fields(caller[c])
  BY ForgottenWell DEF LifeInv, IInv, Formed
<1>2. CASE \E k \in Callers : Enter(k)
  <2>1. PICK k \in Callers : Enter(k)
    BY <1>2
  <2>2. CASE UNCHANGED entry /\ caller' = Returned(k, caller)
    BY <1>1, <2>1, <2>2, LeaveViewed DEF Enter
  <2>3. CASE entryFor(k)
    <3>1. /\ caller'[k].floor = caller[k].floor /\ caller[k].at = "retirement"
          /\ \A c \in Callers \ {k} : caller'[c] = caller[c]
      BY <1>1, <2>1, <2>3 DEF Formed, Fields, entryFor, Enter
    <3>2. entry'.phase = "loading" => caller'[k].at = "load" /\ caller'[k].loader = entry'.loader
      BY <1>1, <2>3 DEF Formed, Fields, entryFor, NoEntry
    <3>3. Viewed(k)
      BY <3>1, <3>2 DEF Viewed
    <3>4. ASSUME NEW c \in Callers \ {k} PROVE Viewed(c)
      <4>1. CASE UNCHANGED entry
        BY <1>1, <3>1, <4>1, RestViewed
      <4>2. CASE entry = NoEntry
        <5>1. ~caller[c].same
          BY <1>1, <4>2 DEF PoolOK, NoEntry
        <5> QED
          BY <3>1, <5>1 DEF Viewed
      <4> QED
        BY <2>3, <4>1, <4>2 DEF entryFor
    <3> QED
      BY <3>3, <3>4
  <2> HIDE DEF Goal
  <2> QED
    BY <2>1, <2>2, <2>3 DEF Enter
<1>3. CASE ~\E k \in Callers : Enter(k)
  <2>1. entry'.phase = "loading" => UNCHANGED entry
    BY <1>1, <1>3, LoadsStart
  <2>2. ASSUME caller' \in {caller, Forgotten} PROVE Goal
    BY <1>1, <2>1, <2>2, RestViewed
  <2>3. ASSUME NEW k \in Callers, caller[k].at # "check",
               NEW callers \in {caller, Forgotten},
               caller' \in {Returned(k, callers), Gone(k, callers), Again(k, callers)}
        PROVE  Goal
    BY <1>1, <2>1, <2>3, LeaveViewed
  <2>4. ASSUME NEW k \in Callers, caller[k].at # "check",
               Throws(k) \/ Undefined(k) \/ caller' = Gone(k, Others(k))
        PROVE  Goal
    BY <2>3, <2>4 DEF Throws, Undefined, Others
  \* A caller moves on within its operation, and did not wait for a read.
  <2>5. ASSUME NEW k \in Callers, NEW r, caller' = [caller EXCEPT ![k] = r],
               r.floor \in {caller[k].floor, 0, Len(stored.log)},
               caller[k].at # "check" \/ r.at = "check",
               r.same => caller[k].same /\ caller[k].at # "load"
        PROVE  Goal
    <3>1. caller'[k] = r /\ \A c \in Callers \ {k} : caller'[c] = caller[c]
      BY <1>1, <2>5 DEF Formed
    <3>2. Viewed(k)
      BY <2>1, <2>5, <3>1 DEF Viewed, LoadOK
    <3> QED
      BY <1>1, <2>1, <3>1, <3>2, RestViewed
  <2>6. ASSUME NEW op \in Own, Running(op)
        PROVE  Head(chain).who \in Callers /\ Awaits(op, caller[Head(chain).who].at)
    BY <1>1, <2>6, HeadOwn
  <2>7. CASE UNCHANGED vars \/ Record \/ Dispose \/ Foreign \/ retireCore \/ onCreated \/ Evict
    BY <2>2, <2>7 DEF vars, Record, Dispose, Foreign, retireCore, onCreated, Evict
  <2>8. ASSUME \/ \E s \in Lives : Drains(s)
               \/ \E n \in 0 .. 1 : Create(n)
        PROVE  Goal
    BY <2>2, <2>8 DEF Drains, Write, Flushed, Create
  <2>9. CASE appendLiveBatch \/ AppendSeed
    BY <2>2, <2>9 DEF appendLiveBatch, AppendSeed
  <2>10. CASE CheckInspected
    <3> DEFINE k == Head(chain).who
    <3>1. k \in Callers
      BY <2>6, <2>10 DEF CheckInspected, Own
    <3> HIDE DEF k
    <3>2. caller' \in {Returned(k, caller), Again(k, caller), Again(k, Forgotten)}
      BY <2>10 DEF CheckInspected, k
    <3>3. PICK callers \in {caller, Forgotten} :
             caller' \in {Returned(k, callers), Gone(k, callers), Again(k, callers)}
      BY <3>2
    <3> QED
      BY <1>1, <2>1, <2>10, <3>1, <3>3, LeaveViewed DEF k
  <2>11. CASE StartCommit \/ FinishCommit
    <3> DEFINE k == Head(chain).who
    <3>1. Running("commit") /\ k \in Callers /\ caller[k].at \in {"commit", "gone"}
      BY <2>6, <2>11 DEF StartCommit, FinishCommit, Own, Awaits
    <3>2. CASE StartCommit
      BY <2>2, <2>4, <3>1, <3>2 DEF StartCommit
    <3>3. CASE FinishCommit
      <4>1. \/ Undefined(k) \/ Throws(k)
            \/ caller' \in {Gone(k, caller), Again(k, caller)}
            \/ caller' = [caller EXCEPT ![k].at = "hold"]
        BY <3>3 DEF FinishCommit
      <4>2. ASSUME caller' = [caller EXCEPT ![k].at = "hold"] PROVE Goal
        <5> DEFINE r == [caller[k] EXCEPT !.at = "hold"]
        <5>1. Fields(caller[k])
          BY <1>1, <3>1
        <5>2. r.floor = caller[k].floor /\ r.same = caller[k].same
          BY <5>1 DEF Fields
        <5>3. caller' = [caller EXCEPT ![k] = r]
          BY <4>2
        <5> HIDE DEF r, Goal, k
        <5> QED
          BY <2>5, <3>1, <5>2, <5>3
      <4> HIDE DEF Goal, k
      <4> QED
        BY <2>3, <2>4, <3>1, <4>1, <4>2
    <3> QED
      BY <2>11, <3>2, <3>3
  <2>12. CASE StartAppend \/ TakeSource \/ Adopt \/ FinishAppend
    <3> DEFINE k == Head(chain).who
    <3>1. k \in Callers /\ caller[k].at = "append"
      BY <2>6, <2>12 DEF StartAppend, TakeSource, Adopt, FinishAppend, Own, Awaits
    <3>2. caller' \in {caller, Forgotten, Returned(k, caller), Returned(k, Forgotten)}
      BY <2>12 DEF StartAppend, TakeSource, Adopt, FinishAppend, AppendThrows
    <3> HIDE DEF Goal, k
    <3> QED
      BY <2>2, <2>3, <3>1, <3>2
  <2>13. CASE Truncate \/ Close
    <3> DEFINE k == Head(chain).who
    <3>1. \/ UNCHANGED caller
          \/ Running("commit") /\ Throws(k)
          \/ Running("append") /\ caller' = Returned(k, caller)
      BY <2>13 DEF Truncate, Close, Repaired, RepairFails
    <3>2. Running("commit") \/ Running("append") =>
            k \in Callers /\ caller[k].at \in {"commit", "gone", "append"}
      BY <2>6 DEF Own, Awaits
    <3> HIDE DEF Goal, k
    <3> QED
      BY <2>2, <2>3, <2>4, <3>1, <3>2
  <2>14. CASE prepareCore
    <3> DEFINE kk == Head(chain).who
               mine == entry.phase = "loading" /\ entry.loader = kk
               waiting(c) == caller[c].at = "load" /\ caller[c].loader = kk
               loaded(c) == [caller[c] EXCEPT !.at = "loaded", !.loader = nobody,
                                              !.source = stored]
    <3>1. ASSUME NEW c \in Callers
          PROVE  \/ caller'[c] \in {caller[c], Forgotten[c]}
                 \/ waiting(c) /\ caller'[c] = Outside
                 \/ /\ waiting(c) /\ caller'[c] = loaded(c)
                    /\ mine => entry'.phase = "ready"
      BY <2>14 DEF prepareCore, NoEntry
    <3>2. ASSUME NEW c \in Callers, waiting(c), caller'[c] = Outside PROVE Viewed(c)
      BY <3>2 DEF Viewed, Outside
    <3>3. ASSUME NEW c \in Callers, waiting(c), caller'[c] = loaded(c),
                 mine => entry'.phase = "ready"
          PROVE  Viewed(c)
      <4>1. Fields(caller[c])
        BY <1>1
      <4>2. /\ caller'[c].floor = caller[c].floor /\ caller'[c].same = caller[c].same
            /\ caller[c].at = "load"
        BY <3>3, <4>1 DEF Fields
      <4>3. ~(entry'.phase = "loading" /\ caller'[c].same)
        BY <2>1, <3>3, <4>2 DEF LoadOK
      <4> QED
        BY <4>2, <4>3 DEF Viewed
    <3> QED
      BY <1>1, <2>1, <3>1, <3>2, <3>3, RestViewed
  <2>15. ASSUME NEW k \in Callers,
                \/ \E op \in {"inspect", "prepare"} : Call(k, op)
                \/ append(k)
         PROVE  Goal
    <3>1. \E r : /\ r.floor \in {0, Len(stored.log)} /\ ~r.same
                 /\ caller' = [caller EXCEPT ![k] = r] /\ caller[k].at = "outside"
      <4>1. ASSUME NEW op, Call(k, op)
            PROVE  \E r : /\ r.floor = Len(stored.log) /\ ~r.same
                          /\ caller' = [caller EXCEPT ![k] = r] /\ caller[k].at = "outside"
        <5> DEFINE r == [Outside EXCEPT !.at = "retirement", !.op = op,
                           !.awaits = retirements, !.floor = Len(stored.log)]
        <5>1. r.floor = Len(stored.log) /\ ~r.same
          BY DEF Outside
        <5>2. caller' = [caller EXCEPT ![k] = r] /\ caller[k].at = "outside"
          BY <4>1 DEF Call
        <5> HIDE DEF r
        <5> QED
          BY <5>1, <5>2
      <4>2. ASSUME append(k)
            PROVE  \E r : /\ r.floor = 0 /\ ~r.same
                          /\ caller' = [caller EXCEPT ![k] = r] /\ caller[k].at = "outside"
        <5> DEFINE r == [Outside EXCEPT !.at = "append", !.op = "append"]
        <5>1. r.floor = 0 /\ ~r.same
          BY DEF Outside
        <5>2. caller' = [caller EXCEPT ![k] = r] /\ caller[k].at = "outside"
          BY <4>2 DEF append
        <5> HIDE DEF r
        <5> QED
          BY <5>1, <5>2
      <4> QED
        BY <2>15, <4>1, <4>2
    <3> HIDE DEF Goal
    <3> QED
      BY <2>5, <3>1
  <2>16. ASSUME NEW k \in Callers, Abort(k) PROVE Goal
    <3>1. caller[k].at # "check"
      BY <2>16 DEF Abort
    <3>2. ASSUME caller' = [caller EXCEPT ![k].aborted = TRUE],
                 caller[k].at \in {"loaded", "commit"}
          PROVE  Goal
      <4> DEFINE r == [caller[k] EXCEPT !.aborted = TRUE]
      <4>1. Fields(caller[k])
        BY <1>1
      <4>2. r.floor = caller[k].floor /\ r.same = caller[k].same
        BY <4>1 DEF Fields
      <4>3. caller' = [caller EXCEPT ![k] = r]
        BY <3>2
      <4> HIDE DEF r, Goal
      <4> QED
        BY <2>5, <3>1, <3>2, <4>2, <4>3
    <3> HIDE DEF Goal
    <3> QED
      BY <2>3, <2>4, <2>16, <3>1, <3>2 DEF Abort
  <2>17. ASSUME NEW k \in Callers, Inspect(k) \/ reserve(k) PROVE Goal
    <3>1. caller[k].at \in {"loaded", "settled"} /\ Fields(caller[k])
      BY <1>1, <2>17 DEF Inspect, reserve
    <3>2. ASSUME NEW at, caller' = [caller EXCEPT ![k].at = at] PROVE Goal
      <4> DEFINE r == [caller[k] EXCEPT !.at = at]
      <4>1. r.floor = caller[k].floor /\ r.same = caller[k].same
        BY <3>1 DEF Fields
      <4>2. caller' = [caller EXCEPT ![k] = r]
        BY <3>2
      <4> HIDE DEF r, Goal
      <4> QED
        BY <2>5, <3>1, <4>1, <4>2
    <3>3. ASSUME caller' = [caller EXCEPT ![k].at = "commit", ![k].source = entry.source]
          PROVE  Goal
      <4> DEFINE r == [caller[k] EXCEPT !.at = "commit", !.source = entry.source]
      <4>1. r.floor = caller[k].floor /\ r.same = caller[k].same
        BY <3>1 DEF Fields
      <4>2. caller' = [caller EXCEPT ![k] = r]
        BY <1>1, <3>1, <3>3 DEF Formed, Fields
      <4> HIDE DEF r, Goal
      <4> QED
        BY <2>5, <3>1, <4>1, <4>2
    <3> HIDE DEF Goal
    <3> QED
      BY <2>3, <2>17, <3>1, <3>2, <3>3 DEF Inspect, reserve
  <2>18. ASSUME NEW k \in Callers, HolderEnds(k) PROVE Goal
    <3>1. /\ caller[k].at = "hold"
          /\ caller' \in {Returned(k, caller), Returned(k, Forgotten)}
      BY <2>18 DEF HolderEnds, Publish, release
    <3> HIDE DEF Goal
    <3> QED
      BY <2>3, <3>1
  <2> HIDE DEF Goal
  <2> QED
    BY <1>3, <2>7, <2>8, <2>9, <2>10, <2>11, <2>12, <2>13, <2>14, <2>15, <2>16, <2>17, <2>18
    DEF Next, Progress, Serialized, Continues
<1> QED
  BY <1>2, <1>3

\* A step is a disturbance of one kind or of none.
LEMMA UsedMoves ==
  ASSUME [Next]_vars
  PROVE  UNCHANGED used \/ Spend("calls") \/ Spend("faults")
<1> DEFINE Goal == UNCHANGED used \/ Spend("calls") \/ Spend("faults")
<1>1. CASE \/ UNCHANGED vars \/ Record \/ Dispose \/ Foreign \/ Evict \/ retireCore
           \/ onCreated \/ CheckInspected \/ prepareCore \/ StartCommit \/ FinishCommit
  BY <1>1 DEF vars, Record, Dispose, Foreign, Evict, retireCore, onCreated,
              CheckInspected, prepareCore, StartCommit, FinishCommit
<1>2. CASE \/ appendLiveBatch \/ AppendSeed \/ FinishAppend \/ StartAppend \/ TakeSource
           \/ Adopt \/ Truncate \/ Close
  BY <1>2 DEF appendLiveBatch, AppendSeed, FinishAppend, StartAppend, TakeSource, Adopt,
              Truncate, Close, RepairFails
<1>3. ASSUME \/ \E s \in Lives : Drains(s)
             \/ \E n \in 0 .. 1 : Create(n)
             \/ \E k \in Callers : \/ Continues(k) \/ HolderEnds(k) \/ append(k)
                                   \/ Abort(k)
                                   \/ \E op \in {"inspect", "prepare"} : Call(k, op)
      PROVE  Goal
  BY <1>3 DEF Drains, Write, Flushed, Create, Continues, Enter, Inspect, reserve,
              HolderEnds, Publish, release, append, Abort, Call
<1> QED
  BY <1>1, <1>2, <1>3 DEF Next, Progress, Serialized

\* Nobody has called at first.
LEMMA InitFresh == Init => FreshInv
<1> SUFFICES ASSUME Init PROVE FreshInv
  OBVIOUS
<1>1. CountsInv
  BY InitCounts
<1>2. LoadOK
  BY DEF Init, LoadOK, NoEntry
<1>3. FloorOK
  BY <1>1, CountsFacts DEF Init, FloorOK, Outside
<1>4. used \in [Kinds -> Nat]
  BY DEF Init
<1> QED
  BY <1>1, <1>2, <1>3, <1>4 DEF CountsInv, FreshInv

\* The log only grows and the callers remember.
LEMMA FreshNext == FreshInv /\ [Next]_vars => FreshInv'
<1> SUFFICES ASSUME FreshInv, [Next]_vars PROVE FreshInv'
  OBVIOUS
<1>1. LifeInv /\ ReadOK /\ LoadOK /\ FloorOK
  BY DEF FreshInv
<1>2. LifeInv' /\ ReadOK'
  BY <1>1, LifeNext, ReadKept
<1>3. stored.log \in Logs /\ stored'.log \in Logs
  BY <1>1, <1>2 DEF LifeInv, SourcesOK, Files
<1>4. Len(stored.log) \in Nat /\ Len(stored'.log) \in Nat /\ Len(stored.log) <= Len(stored'.log)
  BY <1>1, <1>3, StoredGrows, PrefixFacts
<1>5. \A c \in Callers : Viewed(c)
  BY <1>1, CallersViewed
<1>6. LoadOK'
  BY <1>5 DEF Viewed, LoadOK
<1>7. FloorOK'
  BY <1>1, <1>4, <1>5 DEF Viewed, FloorOK
<1>8. used' \in [Kinds -> Nat]
  BY UsedMoves DEF FreshInv, Spend
<1> QED
  BY <1>2, <1>6, <1>7, <1>8 DEF FreshInv

\* For any callers, operations, sessions, events and disturbances: whatever is
\* appended, repaired, evicted or read again while a caller inspects, the view it
\* gets is at least as long as the log was when it called, unless a reservation
\* keeps the entry it read.
THEOREM InspectionCorrect == Spec => InspectionIsFresh
<1> DEFINE Fresh == \A c \in Callers :
                      /\ caller[c].at = "check" /\ caller'[c].at = "outside"
                      /\ UNCHANGED used /\ current = nobody
                      /\ ~(Exclusive /\ caller[c].same)
                      => Len(caller[c].source.log) >= caller[c].floor
<1>1. FreshInv /\ [Next]_vars => Fresh
  <2> SUFFICES ASSUME FreshInv, [Next]_vars, NEW c \in Callers,
                      caller[c].at = "check", caller'[c].at = "outside",
                      UNCHANGED used, current = nobody,
                      ~(Exclusive /\ caller[c].same)
               PROVE  Len(caller[c].source.log) >= caller[c].floor
    OBVIOUS
  <2>1. LifeInv /\ LoadOK /\ FloorOK /\ Formed
    BY DEF FreshInv, LifeInv, IInv
  <2>2. CheckInspected /\ Head(chain).who = c
    BY <2>1, CallersViewed DEF Viewed
  <2>3. ~Spend("faults")
    <3>1. used \in [Kinds -> Nat] /\ "faults" \in Kinds
      BY DEF FreshInv, Kinds
    <3> QED
      BY <3>1 DEF Spend
  <2>4. discardReady(c) # "retained"
    BY <2>1 DEF discardReady, Exclusive, LoadOK, Formed, Phases, NoEntry
  <2>5. Again(c, caller)[c].at # "outside" /\ Again(c, Forgotten)[c].at # "outside"
    BY <2>1, ForgottenWell DEF Again, Gone, Outside, Well
  <2>6. isPreparedSourceCurrent(caller[c].source)
    BY <2>2, <2>3, <2>4, <2>5 DEF CheckInspected
  <2> QED
    BY <2>1, <2>6 DEF isPreparedSourceCurrent, FloorOK
<1> QED
  BY <1>1, InitFresh, FreshNext, PTL DEF Spec, InspectionIsFresh
=============================================================================
