------------------------------ MODULE JsonlLog ------------------------------
(***************************************************************************)
(* The log file of one session, as the JSONL backend keeps it              *)
(* (packages/session/session-persistence-jsonl/src/index.ts, the scanner   *)
(* of src/format.ts) under the one writer the coordinator allows: first    *)
(* write, append with rollback, load with repair; any system call may      *)
(* fail, and the process or the machine may stop between any two.          *)
(*                                                                         *)
(* A file is a sequence of units: the unit a reader takes whole or not at  *)
(* all is a line in the raw encoding and a frame, one per append, in the   *)
(* compressed one.  The header is part of the directory entry.             *)
(***************************************************************************)
EXTENDS Naturals, Sequences, SequencesExt

CONSTANTS MaxEvents,   \* bound on the length of the log
          Limit        \* bound on each kind of disturbance

Kinds == {"faults",      \* a system call that fails
          "cleanups",    \* one that fails when an append is rolled back or closed
          "stops",       \* the process stops: the page cache survives
          "losses"}      \* the machine stops: only the disk survives
ASSUME BoundsAssumption == MaxEvents \in Nat /\ Limit \in [Kinds -> Nat]

VARIABLES compressed,    \* the configured encoding
          entry,         \* the directory entry: absent, published or durable
          units,         \* the file as any reader sees it
          synced,        \* the file at its last successful sync
          session,       \* the events of the live Session
          life,          \* which run of the program this is
          status,        \* cold, live, or refused as corrupt
          cursor,        \* state.cursor: the events counted as stored
          pc,            \* the system call the writer makes next
          batch,         \* the events being written
          keep,          \* the length to truncate or roll back to
          acked,         \* history: the log as last reported durable
          leftover,      \* history: what failed and left an append's lines behind
          used           \* how often each disturbance has happened

disk   == <<entry, units, synced>>
memory == <<session, life, status, cursor>>
work   == <<pc, batch, keep>>
vars   == <<compressed, disk, memory, work, acked, leftover, used>>

Event == [seq : 1 .. MaxEvents + 1, life : Nat, end : BOOLEAN]
SystemCalls == {"idle", "exists", "temp", "link", "dirSync",
                "truncate", "truncSync", "open", "write", "sync",
                "rollback", "rollSync"}

TypeOK == /\ compressed \in BOOLEAN
          /\ entry \in {"absent", "published", "durable"}
          /\ \A file \in {units, synced} : \A i \in 1 .. Len(file) :
               /\ file[i].torn \in BOOLEAN
               /\ ToSet(file[i].events) \subseteq Event
          /\ ToSet(session) \cup ToSet(batch) \cup ToSet(acked) \subseteq Event
          /\ status \in {"cold", "live", "refused"}
          /\ pc \in SystemCalls
          /\ cursor \in 0 .. Len(session) /\ keep \in Nat
          /\ leftover \subseteq {"rollback", "close"}
          /\ used \in [Kinds -> Nat]

Init == /\ compressed \in BOOLEAN
        /\ entry = "absent" /\ units = <<>> /\ synced = <<>>
        /\ session = <<>> /\ life = 0 /\ status = "live" /\ cursor = 0
        /\ pc = "idle" /\ batch = <<>> /\ keep = 0
        /\ acked = <<>> /\ leftover = {}
        /\ used = [kind \in Kinds |-> 0]

Spend(kind) ==
  used[kind] < Limit[kind] /\ used' = [used EXCEPT ![kind] = @ + 1]

(***************************************************************************)
(* The encodings and the scanner.                                          *)
(***************************************************************************)
Whole(events)   == [events |-> events, torn |-> FALSE]
Torn(readable)  == [events |-> readable, torn |-> TRUE]

encode(events) ==
  IF compressed THEN <<Whole(events)>>
  ELSE [i \in 1 .. Len(events) |-> Whole(<<events[i]>>)]

\* What is left of a unit of which only the first bytes were written: from a
\* frame the decoder still takes complete lines, from a line nothing.
Remains(unit) ==
  IF unit.torn THEN {unit}
  ELSE {Torn(SubSeq(unit.events, 1, n)) :
          n \in 0 .. (IF compressed THEN Len(unit.events) ELSE 0)}

\* Every file that writing `file` can leave behind once `from` units are in it.
Cuts(file, from) ==
  {SubSeq(file, 1, n) : n \in from .. Len(file)}
    \cup UNION {{Append(SubSeq(file, 1, n - 1), u) : u \in Remains(file[n])} :
                  n \in (from + 1) .. Len(file)}

Events(file) ==
  LET upTo[n \in 0 .. Len(file)] ==
        IF n = 0 THEN <<>> ELSE upTo[n - 1] \o file[n].events
  IN  upTo[Len(file)]

\* A unit that is whole and continues its predecessors.  Batches are
\* contiguous, see appendCore, so the first event decides.
Continues(file, i) ==
  LET expected == IF i = 1 THEN 1 ELSE Last(file[i - 1].events).seq + 1
  IN  ~file[i].torn /\ Head(file[i].events).seq = expected

\* The scanner commits no byte from the first unit on that does not.
Committed(file) ==
  SubSeq(file, 1, CHOOSE n \in 0 .. Len(file) :
                    /\ \A i \in 1 .. n : Continues(file, i)
                    /\ n < Len(file) => ~Continues(file, n + 1))

\* A torn line and what was appended after it make one line nobody can parse.
Parsable(file, i) == ~file[i].torn /\ (i = 1 \/ ~file[i - 1].torn)

scanLog(file) ==
  LET good     == Committed(file)
      rest     == SubSeq(file, Len(good) + 1, Len(file))
      torn     == Len(rest) = 1 /\ rest[1].torn
      fits     == torn /\ rest[1].events # <<>>
                       /\ rest[1].events[1].seq = Len(Events(good)) + 1
      readable == IF fits THEN rest[1].events ELSE <<>>
  IN  [events    |-> Events(good) \o readable,
       keep      |-> Len(good),
       recovered |-> readable,
       torn      |-> rest # <<>>,
       refused   |-> /\ rest # <<>> /\ ~torn
                     /\ \/ compressed
                        \/ \E i \in 1 .. Len(rest) :
                             Parsable(rest, i) /\ rest[i].events[1].end]

\* interruptedTurnClosers, of which one stands for all.
closers(events) ==
  IF events = <<>> \/ Last(events).end THEN <<>>
  ELSE <<[seq |-> Len(events) + 1, life |-> life, end |-> TRUE]>>

(***************************************************************************)
(* The outcome of an operation.  A failed append leaves the cursor; the    *)
(* events stay in the write-behind queue.  A failed repair leaves the      *)
(* session to the next load.                                               *)
(***************************************************************************)
Return == pc' = "idle" /\ batch' = <<>> /\ keep' = 0
Calls(call) == pc' = call /\ UNCHANGED <<batch, keep>>

Acknowledge ==
  /\ Return
  /\ IF status = "live"
     THEN /\ cursor' = cursor + Len(batch)
          /\ acked' = SubSeq(session, 1, cursor')
     ELSE acked' = Events(units) /\ UNCHANGED cursor
  /\ UNCHANGED <<session, life, status>>

Fails == /\ Spend("faults") /\ Return
         /\ UNCHANGED <<disk, memory, acked, leftover>>

(***************************************************************************)
(* The live session.                                                       *)
(***************************************************************************)
Record(end) ==
  /\ status = "live" /\ Len(session) < MaxEvents
  /\ session' = Append(session, [seq |-> Len(session) + 1, life |-> life,
                                 end |-> end])
  /\ UNCHANGED <<disk, life, status, cursor, work, acked, leftover, used>>

\* appendBatch: the first write materializes, later ones append.
appendBatch ==
  /\ status = "live" /\ pc = "idle" /\ cursor < Len(session)
  /\ pc' = IF cursor = 0 THEN "exists" ELSE "open"
  /\ batch' = SubSeq(session, cursor + 1, Len(session))
  /\ UNCHANGED <<disk, memory, keep, acked, leftover, used>>

(***************************************************************************)
(* materialize: a temporary file, synced, linked to its name, and the      *)
(* directory synced.                                                       *)
(***************************************************************************)
rejectExistingLog ==
  /\ pc = "exists"
  /\ IF entry = "absent" THEN Calls("temp") ELSE Return
  /\ UNCHANGED <<disk, memory, acked, leftover, used>>

writeSyncedTempFile ==
  /\ pc = "temp"
  /\ \/ Calls("link") /\ UNCHANGED <<disk, memory, acked, leftover, used>>
     \/ Fails

link ==
  /\ pc = "link"
  /\ \/ /\ entry' = "published" /\ units' = encode(batch) /\ synced' = units'
        /\ Calls("dirSync") /\ UNCHANGED <<memory, acked, leftover, used>>
     \/ Fails

syncDirPosix ==
  /\ pc = "dirSync"
  /\ \/ /\ entry' = "durable" /\ Acknowledge
        /\ UNCHANGED <<units, synced, leftover, used>>
     \/ Fails

(***************************************************************************)
(* appendLines: a write or a sync that fails is rolled back to the length  *)
(* stat returned; a close that fails after them is not.                    *)
(***************************************************************************)
\* The append fails and its bytes stay.  A live session does not count them; a
\* session being loaded is read again.
LeavesBehind(what) ==
  /\ Return
  /\ leftover' = IF status = "live" THEN leftover \cup {what} ELSE leftover

open ==
  /\ pc = "open"
  /\ \/ /\ pc' = "write" /\ keep' = Len(units) /\ UNCHANGED batch
        /\ UNCHANGED <<disk, memory, acked, leftover, used>>
     \/ Fails

writeFile ==
  /\ pc = "write"
  /\ LET base == SubSeq(units, 1, keep)
         full == base \o encode(batch)
     IN  \/ /\ units = base /\ Calls("write")
            /\ units' \in Cuts(full, keep) \ {base, full}
         \/ units' = full /\ Calls("sync")
  /\ UNCHANGED <<entry, synced, memory, acked, leftover, used>>

\* A plausible bug: the append is reported before it is on the disk.
UnsyncedAckBug ==
  /\ pc = "sync" /\ Acknowledge
  /\ UNCHANGED <<entry, units, synced, leftover, used>>

sync ==
  /\ pc = "sync"
  /\ synced' = units /\ Acknowledge
  /\ UNCHANGED <<entry, units, leftover, used>>

\* Written and synced, but the append handle does not close.
closeFails ==
  /\ pc = "sync" /\ Spend("cleanups") /\ synced' = units
  /\ LeavesBehind("close")
  /\ UNCHANGED <<entry, units, memory, acked>>

writeFails ==
  /\ pc \in {"write", "sync"} /\ Spend("faults") /\ Calls("rollback")
  /\ UNCHANGED <<disk, memory, acked, leftover>>

\* A plausible bug: the append is not rolled back.
KeptBytesBug ==
  /\ pc = "rollback" /\ Calls("rollSync")
  /\ UNCHANGED <<disk, memory, acked, leftover, used>>

rollbackAppend ==
  /\ pc = "rollback" /\ units' = SubSeq(units, 1, keep) /\ Calls("rollSync")
  /\ UNCHANGED <<entry, synced, memory, acked, leftover, used>>

rollbackSyncs ==
  /\ pc = "rollSync" /\ synced' = units /\ Return
  /\ UNCHANGED <<entry, units, memory, acked, leftover, used>>

rollbackFails ==
  /\ pc \in {"rollback", "rollSync"} /\ Spend("cleanups")
  /\ LeavesBehind("rollback")
  /\ UNCHANGED <<disk, memory, acked>>

(***************************************************************************)
(* Load: scan, then commitRepair in two steps and scan again, until there  *)
(* is nothing to repair.                                                   *)
(***************************************************************************)
Becomes(log) == session' = log /\ cursor' = Len(log) /\ status' = "live"

\* A plausible bug: only a torn tail is repaired, not an interrupted turn.
TornOnlyBug ==
  /\ status = "cold" /\ pc = "idle"
  /\ LET scan   == scanLog(units)
         repair == scan.recovered \o closers(scan.events)
     IN  \/ entry = "absent" /\ Becomes(<<>>) /\ UNCHANGED work
         \/ /\ entry # "absent" /\ scan.refused /\ status' = "refused"
            /\ UNCHANGED <<session, cursor, work>>
         \/ /\ entry # "absent" /\ ~scan.refused
            /\ ~scan.torn /\ repair = <<>>
            /\ Becomes(scan.events) /\ UNCHANGED work
         \/ /\ entry # "absent" /\ ~scan.refused /\ scan.torn
            /\ pc' = "truncate"
            /\ batch' = repair /\ keep' = scan.keep
            /\ UNCHANGED <<session, cursor, status>>
  /\ UNCHANGED <<disk, life, acked, leftover, used>>

load ==
  /\ status = "cold" /\ pc = "idle"
  /\ LET scan   == scanLog(units)
         repair == scan.recovered \o closers(scan.events)
     IN  \/ entry = "absent" /\ Becomes(<<>>) /\ UNCHANGED work
         \/ /\ entry # "absent" /\ scan.refused /\ status' = "refused"
            /\ UNCHANGED <<session, cursor, work>>
         \/ /\ entry # "absent" /\ ~scan.refused
            /\ ~scan.torn /\ repair = <<>>
            /\ Becomes(scan.events) /\ UNCHANGED work
         \/ /\ entry # "absent" /\ ~scan.refused
            /\ scan.torn \/ repair # <<>>
            /\ pc' = IF scan.torn THEN "truncate" ELSE "open"
            /\ batch' = repair /\ keep' = scan.keep
            /\ UNCHANGED <<session, cursor, status>>
  /\ UNCHANGED <<disk, life, acked, leftover, used>>

truncate ==
  /\ pc = "truncate"
  /\ \/ /\ units' = SubSeq(units, 1, keep) /\ Calls("truncSync")
        /\ UNCHANGED <<entry, synced, memory, acked, leftover, used>>
     \/ Fails

truncateSyncs ==
  /\ pc = "truncSync"
  /\ \/ /\ synced' = units
        /\ IF batch = <<>> THEN Return ELSE Calls("open")
        /\ UNCHANGED <<entry, units, memory, acked, leftover, used>>
     \/ Fails

(***************************************************************************)
(* Stops.                                                                  *)
(***************************************************************************)
\* What the disk may hold: the file as last synced, or any part of what has
\* been written since.
OnDisk ==
  LET common == CHOOSE n \in 0 .. Len(units) :
        /\ n <= Len(synced) /\ SubSeq(units, 1, n) = SubSeq(synced, 1, n)
        /\ \/ n = Len(units) \/ n = Len(synced)
           \/ units[n + 1] # synced[n + 1]
  IN  {synced} \cup Cuts(units, common)

Forget ==
  /\ life' = life + 1 /\ status' = "cold" /\ session' = <<>> /\ cursor' = 0
  /\ Return /\ UNCHANGED leftover

ProcessStops == Spend("stops") /\ Forget /\ UNCHANGED <<disk, acked>>

MachineStops ==
  /\ Spend("losses") /\ Forget
  /\ \/ /\ entry # "absent" /\ entry' = "durable"
        /\ units' \in OnDisk /\ synced' = units' /\ UNCHANGED acked
     \/ /\ entry # "durable" /\ entry' = "absent"
        /\ units' = <<>> /\ synced' = <<>> /\ acked' = <<>>

Writer == \/ appendBatch \/ rejectExistingLog \/ writeSyncedTempFile \/ link
          \/ syncDirPosix \/ open \/ writeFile \/ sync \/ closeFails
          \/ writeFails \/ rollbackAppend \/ rollbackSyncs \/ rollbackFails
Loader == load \/ truncate \/ truncateSyncs

Next == /\ \/ \E end \in BOOLEAN : Record(end)
           \/ Writer \/ Loader \/ ProcessStops \/ MachineStops
        /\ UNCHANGED compressed

Spec == Init /\ [][Next]_vars

\* Every system call returns.
FairSpec == Spec /\ WF_vars((Writer \/ Loader) /\ UNCHANGED compressed)

(***************************************************************************)
(* Properties.                                                             *)
(***************************************************************************)
\* An append or a repair that has reported success is never undone: whatever
\* stops, the file read back is not refused and begins with the acknowledged
\* log, as long as its name is durable and no append of a live session has left
\* lines behind, see leftover.
AckedSurvive ==
  leftover = {} => \A file \in OnDisk \cup {units} :
                 LET scan == scanLog(file)
                 IN  ~scan.refused /\ IsPrefix(acked, scan.events)

\* Between operations the file holds what the cursor counts and nothing else,
\* so the next append continues it.  Three ends of a failure are excepted: a
\* rollback that failed, a close that failed after a whole append (leftover),
\* and a first write published but not acknowledged.
CursorMatchesFile ==
  status = "live" /\ pc = "idle" /\ leftover = {} /\ ~(cursor = 0 /\ entry # "absent")
    => Events(units) = SubSeq(session, 1, cursor) /\ Committed(units) = units

\* Loading ends: a repaired log needs no further repair, so each session is
\* live or refused after a bounded number of rounds.
LoadEnds == status = "cold" ~> status # "cold"

\* What the contract of appendBatch says: once it has returned, the batch is
\* durable, its name in the directory included.
AckedIsDurable == acked # <<>> => entry = "durable"
=============================================================================
