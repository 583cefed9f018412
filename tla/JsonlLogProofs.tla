---------------------------- MODULE JsonlLogProofs ----------------------------
(***************************************************************************)
(* The log file of the JSONL backend, for logs of any length, both         *)
(* encodings, and any number of failing calls and stops: the cursor counts *)
(* what the file holds, and what was acknowledged is read back.            *)
(*                                                                         *)
(* Every file that can be on the disk is a run of whole units that         *)
(* continue each other, and at most one torn unit behind them; the file    *)
(* and its last synced form agree on a stretch that holds what was         *)
(* acknowledged.                                                           *)
(***************************************************************************)
EXTENDS JsonlLog, SequenceTheorems, WellFoundedInduction, TLAPS

Entries == [seq : Nat, life : Nat, end : BOOLEAN]
Units   == [events : Seq(Entries), torn : BOOLEAN]
Numbered(log) == /\ log \in Seq(Entries)
                 /\ \A i \in 1 .. Len(log) : log[i].seq = i

\* Events that follow each other, and that follow n others.
Block(events)    == /\ events \in Seq(Entries) /\ Len(events) # 0
                    /\ \A j \in 1 .. Len(events) :
                         events[j].seq = events[1].seq + (j - 1)
Follows(events, n) == Block(events) /\ events[1].seq = n + 1

\* The unit at i is whole and continues its predecessors, all of it.
Fine(file, i)  == Continues(file, i) /\ Block(file[i].events)
Tail1(unit)    == /\ unit \in Units /\ unit.torn
                  /\ Len(unit.events) # 0 => Block(unit.events)
Sound(file) == file \in Seq(Units) /\ \A i \in 1 .. Len(file) : Fine(file, i)
Shape(file) == /\ file \in Seq(Units)
               /\ \A i \in 1 .. Len(file) :
                    Fine(file, i) \/ (i = Len(file) /\ Tail1(file[i]))
Upto(file, n) == SubSeq(file, 1, n)

Holding   == {"truncate", "truncSync", "write", "sync", "rollback", "rollSync"}
Appending == {"write", "sync", "rollback", "rollSync"}
First     == {"exists", "temp", "link", "dirSync"}

Typed == /\ Numbered(session) /\ cursor \in 0 .. Len(session) /\ life \in Nat
         /\ batch \in Seq(Entries) /\ acked \in Seq(Entries) /\ keep \in Nat
         /\ compressed \in BOOLEAN
         /\ pc \in SystemCalls /\ status \in {"cold", "live", "refused"}
         /\ Shape(units) /\ Shape(synced)

\* The file and its synced form agree at least on what was acknowledged.
Safe(n) == /\ n \in 0 .. Len(units) /\ n <= Len(synced)
           /\ \A i \in 1 .. n : units[i] = synced[i] /\ Fine(units, i)
           /\ IsPrefix(acked, Events(Upto(units, n)))
           /\ pc \in Holding => n <= keep

\* What the file is while the writer is at each of its calls.
Placed ==
  /\ entry = "absent" => units = <<>> /\ synced = <<>>
  /\ pc = "idle" => batch = <<>>
  /\ pc \in First => /\ status = "live" /\ cursor = 0
                     /\ Follows(batch, 0) /\ Len(batch) <= Len(session)
                     /\ batch = Upto(session, Len(batch))
  /\ pc \in {"temp", "link"} => entry = "absent"
  /\ pc = "dirSync" => /\ entry # "absent" /\ synced = units
                       /\ Sound(units) /\ Events(units) = batch
  /\ pc \in Holding \cup {"open"} => entry # "absent"
  /\ pc = "open" => Sound(units) /\ Follows(batch, Len(Events(units)))
  /\ pc \in Holding => /\ keep <= Len(units) /\ Sound(Upto(units, keep))
                       /\ \/ Follows(batch, Len(Events(Upto(units, keep))))
                          \/ pc \in {"truncate", "truncSync"} /\ batch = <<>>
  /\ pc \in {"truncate", "truncSync"} => status = "cold"
  /\ pc \in {"truncSync", "rollSync"} => units = Upto(units, keep)
  /\ pc = "sync" => units = Upto(units, keep) \o encode(batch)

\* What a live session has in the file.
Counted ==
  status = "live" =>
    /\ pc = "idle" /\ (cursor # 0 \/ entry = "absent") =>
         Sound(units) /\ Events(units) = Upto(session, cursor)
    /\ pc = "open" => Events(units) = Upto(session, cursor)
    /\ pc \in Appending => Events(Upto(units, keep)) = Upto(session, cursor)
    /\ pc \in Appending \cup {"open"} =>
         /\ cursor # 0 /\ cursor + Len(batch) <= Len(session)
         /\ batch = SubSeq(session, cursor + 1, cursor + Len(batch))

FileInv == Typed /\ Placed /\ Counted /\ \E n \in Nat : Safe(n)
IInv == leftover = {} => FileInv
-----------------------------------------------------------------------------
(***************************************************************************)
(* Sequences.                                                              *)
(***************************************************************************)
\* Induction over the naturals, for a property given as the set it holds on.
LEMMA NatSetInduction ==
  ASSUME NEW T, T \subseteq Nat, 0 \in T, \A n \in T : n + 1 \in T
  PROVE  T = Nat
<1> DEFINE U == Nat \ T
           R == OpToRel(<, Nat)
<1>1. SUFFICES ASSUME U # {} PROVE FALSE
  OBVIOUS
<1>2. \A y, z \in Nat : y < z => <<y, z>> \in R
  BY DEF OpToRel
<1>3. IsWellFoundedOn(R, Nat) /\ U \subseteq Nat
  BY NatLessThanWellFounded
<1> HIDE DEF R
<1>4. PICK x \in U : \A y \in U : ~(<<y, x>> \in R)
  <2> HIDE DEF U
  <2> QED
    BY <1>1, <1>3, WFMin
<1>5. x \in Nat /\ x # 0 /\ x - 1 \in Nat /\ x - 1 < x /\ (x - 1) + 1 = x
  BY <1>4
<1>6. x - 1 \in T
  BY <1>4, <1>5, <1>2
<1> QED
  BY <1>6, <1>5, <1>4

\* A prefix agrees with the whole wherever it is defined.
LEMMA PrefixIff ==
  ASSUME NEW S, NEW s \in Seq(S), NEW t \in Seq(S)
  PROVE  IsPrefix(s, t) <=> /\ Len(s) <= Len(t)
                            /\ \A i \in 1 .. Len(s) : s[i] = t[i]
<1>1. Len(s) \in Nat /\ Len(t) \in Nat
  BY LenProperties
<1>2. SubSeq(s, 1, Len(s)) = s
  BY SubSeqFull
<1> SUFFICES ASSUME Len(s) <= Len(t)
             PROVE  s = SubSeq(t, 1, Len(s)) <=> \A i \in 1 .. Len(s) : s[i] = t[i]
  BY <1>2 DEF IsPrefix
<1> DEFINE u == SubSeq(t, 1, Len(s))
<1>3. /\ u \in Seq(S) /\ Len(u) = Len(s) /\ \A i \in 1 .. Len(s) : u[i] = t[i]
  <2>1. \A i \in 1 .. Len(s) : t[i] \in S
    BY <1>1, ElementOfSeq
  <2>2. 1 \in Int /\ Len(s) \in Int /\ Len(s) >= 0
    BY <1>1
  <2> QED
    BY <1>1, <2>1, <2>2, SubSeqProperties
<1> HIDE DEF u
<1>4. ASSUME \A i \in 1 .. Len(s) : s[i] = t[i] PROVE s = u
  BY <1>1, <1>3, <1>4, SeqEqual
<1> QED
  BY <1>3, <1>4 DEF u

\* The first n elements.
LEMMA UptoIs ==
  ASSUME NEW S, NEW file \in Seq(S), NEW n \in 0 .. Len(file)
  PROVE  /\ Upto(file, n) \in Seq(S) /\ Len(Upto(file, n)) = n
         /\ \A i \in 1 .. n : Upto(file, n)[i] = file[i]
         /\ n = Len(file) => Upto(file, n) = file
         /\ n = 0 => Upto(file, n) = <<>>
<1>1. Len(file) \in Nat /\ n \in Nat
  BY LenProperties
<1>2. \A i \in 1 .. n : file[i] \in S
  BY <1>1, ElementOfSeq
<1>3. /\ Upto(file, n) \in Seq(S) /\ Len(Upto(file, n)) = n
      /\ \A i \in 1 .. n : Upto(file, n)[i] = file[i]
  BY <1>1, <1>2, SubSeqProperties DEF Upto
<1>4. n = Len(file) => Upto(file, n) = file
  BY SubSeqFull DEF Upto
<1>5. n = 0 => Upto(file, n) = <<>>
  BY <1>3, EmptySeq
<1> QED
  BY <1>3, <1>4, <1>5

\* Sequences with the same first n elements have the same first n elements.
LEMMA UptoSame ==
  ASSUME NEW S, NEW a \in Seq(S), NEW b \in Seq(S), NEW n \in 0 .. Len(a), n <= Len(b),
         \A i \in 1 .. n : a[i] = b[i]
  PROVE  Upto(a, n) = Upto(b, n)
<1>1. n \in 0 .. Len(b) /\ n \in Nat
  BY LenProperties
<1> DEFINE u == Upto(a, n)
           v == Upto(b, n)
<1>2. /\ u \in Seq(S) /\ v \in Seq(S) /\ Len(u) = n /\ Len(v) = n
      /\ \A i \in 1 .. n : u[i] = a[i] /\ v[i] = b[i]
  BY <1>1, UptoIs
<1> HIDE DEF u, v
<1>3. u = v
  BY <1>1, <1>2, SeqEqual
<1> QED
  BY <1>3 DEF u, v

\* One element more.
LEMMA UptoNext ==
  ASSUME NEW S, NEW file \in Seq(S), NEW n \in 1 .. Len(file)
  PROVE  Upto(file, n) = Append(Upto(file, n - 1), file[n])
<1>1. n \in Nat /\ n - 1 \in 0 .. Len(file) /\ n \in 0 .. Len(file) /\ file[n] \in S
      /\ (n - 1) + 1 = n
  BY LenProperties, ElementOfSeq
<1> DEFINE u == Upto(file, n)
           v == Upto(file, n - 1)
           w == Append(v, file[n])
<1>2. /\ u \in Seq(S) /\ v \in Seq(S) /\ Len(u) = n /\ Len(v) = n - 1
      /\ \A i \in 1 .. n : u[i] = file[i]
      /\ \A i \in 1 .. (n - 1) : v[i] = file[i]
  BY <1>1, UptoIs
<1> HIDE DEF u, v
<1>3. /\ w \in Seq(S) /\ Len(w) = n /\ w[n] = file[n]
      /\ \A i \in 1 .. (n - 1) : w[i] = v[i]
  BY <1>1, <1>2, AppendProperties
<1> HIDE DEF w
<1>4. \A i \in 1 .. n : w[i] = u[i]
  <2> SUFFICES ASSUME NEW i \in 1 .. n PROVE w[i] = u[i]
    OBVIOUS
  <2>1. i = n \/ i \in 1 .. (n - 1)
    BY <1>1
  <2> QED
    BY <1>2, <1>3, <2>1
<1>5. u = w
  BY <1>2, <1>3, <1>4, SeqEqual
<1> QED
  BY <1>5 DEF u, v, w
-----------------------------------------------------------------------------
(***************************************************************************)
(* The events in a file.                                                   *)
(***************************************************************************)
\* Events follows its definition along the file.
LEMMA EventsRuns ==
  ASSUME NEW file, Len(file) \in Nat
  PROVE  \E f : /\ f = [n \in 0 .. Len(file) |->
                         IF n = 0 THEN <<>> ELSE f[n - 1] \o file[n].events]
                /\ Events(file) = f[Len(file)]
<1> DEFINE Runs(f, m) ==
      f = [n \in 0 .. m |-> IF n = 0 THEN <<>> ELSE f[n - 1] \o file[n].events]
           T == {m \in Nat : \E f : Runs(f, m)}
<1>1. 0 \in T
  <2>1. Runs([n \in 0 .. 0 |-> <<>>], 0)
    OBVIOUS
  <2> QED
    BY <2>1
<1>2. ASSUME NEW m \in T PROVE m + 1 \in T
  <2>1. PICK f : Runs(f, m)
    BY <1>2
  <2> DEFINE g == [n \in 0 .. (m + 1) |-> IF n <= m THEN f[n]
                                          ELSE f[m] \o file[m + 1].events]
  <2>2. \A n \in 0 .. (m + 1) :
          g[n] = IF n = 0 THEN <<>> ELSE g[n - 1] \o file[n].events
    <3> SUFFICES ASSUME NEW n \in 0 .. (m + 1)
                 PROVE  g[n] = IF n = 0 THEN <<>> ELSE g[n - 1] \o file[n].events
      OBVIOUS
    <3>1. CASE n = m + 1
      <4>1. n # 0 /\ ~(n <= m) /\ n - 1 = m /\ m \in 0 .. (m + 1) /\ m <= m
        BY <3>1
      <4>2. g[n] = f[m] \o file[n].events /\ g[n - 1] = f[m]
        BY <3>1, <4>1
      <4> QED
        BY <4>1, <4>2
    <3>2. CASE n \in 0 .. m
      <4>1. g[n] = f[n]
        BY <3>2
      <4>2. n # 0 => n - 1 \in 0 .. m
        BY <3>2
      <4>3. n # 0 => g[n - 1] = f[n - 1]
        BY <4>2
      <4>4. f[n] = IF n = 0 THEN <<>> ELSE f[n - 1] \o file[n].events
        BY <2>1, <3>2
      <4> QED
        BY <4>1, <4>3, <4>4
    <3> QED
      BY <3>1, <3>2
  <2>3. Runs(g, m + 1)
    BY <2>2
  <2> HIDE DEF g, Runs
  <2> QED
    BY <2>3
<1>3. T = Nat
  <2> HIDE DEF T
  <2>1. T \subseteq Nat
    BY DEF T
  <2> QED
    BY <1>1, <1>2, <2>1, NatSetInduction
<1>4. PICK f : Runs(f, Len(file))
  BY <1>3
<1> DEFINE run == CHOOSE h : Runs(h, Len(file))
<1>5. Events(file) = run[Len(file)]
  BY DEF Events
<1>6. Runs(run, Len(file))
  <2> HIDE DEF Runs
  <2> QED
    BY <1>4
<1> QED
  <2> HIDE DEF run
  <2> QED
    BY <1>5, <1>6

\* An empty file holds no event.
LEMMA EventsEmpty == Events(<<>>) = <<>>
<1> DEFINE m == <<>>
<1>0. Len(m) \in Nat
  OBVIOUS
<1>1. Len(m) = 0 /\ m = <<>>
  OBVIOUS
<1> HIDE DEF m
<1>2. PICK f : /\ f = [n \in 0 .. Len(m) |->
                         IF n = 0 THEN <<>> ELSE f[n - 1] \o m[n].events]
               /\ Events(m) = f[Len(m)]
  BY <1>0, EventsRuns
<1>3. f[0] = <<>>
  BY <1>1, <1>2
<1> QED
  BY <1>1, <1>2, <1>3

\* A unit behind a file adds its events.
LEMMA EventsAppend ==
  ASSUME NEW file \in Seq(Units), NEW u \in Units
  PROVE  Events(Append(file, u)) = Events(file) \o u.events
<1>1. /\ Len(file) \in Nat /\ Len(Append(file, u)) = Len(file) + 1
      /\ Append(file, u)[Len(file) + 1] = u
      /\ \A i \in 1 .. Len(file) : Append(file, u)[i] = file[i]
  BY AppendProperties, LenProperties
<1> DEFINE m == Append(file, u)
<1> HIDE DEF m
<1>2. /\ Len(m) = Len(file) + 1 /\ m[Len(file) + 1] = u
      /\ \A i \in 1 .. Len(file) : m[i] = file[i]
  BY <1>1 DEF m
<1>3. PICK f : /\ f = [n \in 0 .. Len(file) |->
                         IF n = 0 THEN <<>> ELSE f[n - 1] \o file[n].events]
               /\ Events(file) = f[Len(file)]
  BY <1>1, EventsRuns
<1>4. PICK g : /\ g = [n \in 0 .. Len(m) |->
                         IF n = 0 THEN <<>> ELSE g[n - 1] \o m[n].events]
               /\ Events(m) = g[Len(m)]
  <2>1. Len(m) \in Nat
    BY <1>1, <1>2
  <2> QED
    BY <2>1, EventsRuns
<1> DEFINE T == {i \in Nat : i <= Len(file) => f[i] = g[i]}
<1>5. 0 \in T
  BY <1>1, <1>2, <1>3, <1>4
<1>6. ASSUME NEW i \in T PROVE i + 1 \in T
  <2> SUFFICES ASSUME i + 1 <= Len(file) PROVE f[i + 1] = g[i + 1]
    OBVIOUS
  <2>1. /\ i + 1 \in 0 .. Len(file) /\ i + 1 \in 0 .. Len(m) /\ i + 1 # 0
        /\ (i + 1) - 1 = i /\ i + 1 \in 1 .. Len(file) /\ f[i] = g[i]
    BY <1>1, <1>2
  <2>2. f[i + 1] = f[i] \o file[i + 1].events
    BY <1>3, <2>1
  <2>3. g[i + 1] = g[i] \o m[i + 1].events
    BY <1>4, <2>1
  <2> QED
    BY <1>2, <2>1, <2>2, <2>3
<1>7. T = Nat
  <2>1. T \subseteq Nat
    OBVIOUS
  <2> HIDE DEF T
  <2> QED
    BY <1>5, <1>6, <2>1, NatSetInduction
<1>8. f[Len(file)] = g[Len(file)]
  BY <1>1, <1>7
<1>9. g[Len(file) + 1] = g[Len(file)] \o u.events
  <2>1. /\ Len(file) + 1 \in 0 .. Len(m) /\ Len(file) + 1 # 0
        /\ (Len(file) + 1) - 1 = Len(file)
    BY <1>1, <1>2
  <2> QED
    BY <1>2, <1>4, <2>1
<1> QED
  BY <1>2, <1>3, <1>4, <1>8, <1>9 DEF m

\* The events of one unit more.
LEMMA EventsUpto ==
  ASSUME NEW file \in Seq(Units), NEW n \in 1 .. Len(file)
  PROVE  Events(Upto(file, n)) = Events(Upto(file, n - 1)) \o file[n].events
<1>1. n - 1 \in 0 .. Len(file) /\ file[n] \in Units
  BY LenProperties, ElementOfSeq
<1>2. Upto(file, n - 1) \in Seq(Units)
  BY <1>1, UptoIs
<1> QED
  BY <1>1, <1>2, UptoNext, EventsAppend

\* The events in a file are a sequence of events.
LEMMA EventsTyped ==
  ASSUME NEW file \in Seq(Units)
  PROVE  /\ \A n \in 0 .. Len(file) : Events(Upto(file, n)) \in Seq(Entries)
         /\ Events(file) \in Seq(Entries)
<1>1. Len(file) \in Nat
  BY LenProperties
<1> DEFINE T == {n \in Nat : n <= Len(file) => Events(Upto(file, n)) \in Seq(Entries)}
<1>2. 0 \in T
  BY <1>1, UptoIs, EventsEmpty
<1>3. ASSUME NEW n \in T PROVE n + 1 \in T
  <2> SUFFICES ASSUME n + 1 <= Len(file) PROVE Events(Upto(file, n + 1)) \in Seq(Entries)
    OBVIOUS
  <2>1. n + 1 \in 1 .. Len(file) /\ (n + 1) - 1 = n /\ Events(Upto(file, n)) \in Seq(Entries)
    BY <1>1
  <2>2. file[n + 1].events \in Seq(Entries)
    <3>1. file[n + 1] \in Units
      BY <2>1, ElementOfSeq
    <3> QED
      BY <3>1 DEF Units
  <2>3. Events(Upto(file, n + 1)) = Events(Upto(file, n)) \o file[n + 1].events
    BY <2>1, EventsUpto
  <2> QED
    BY <2>1, <2>2, <2>3, ConcatProperties
<1>4. T = Nat
  <2>1. T \subseteq Nat
    OBVIOUS
  <2> HIDE DEF T
  <2> QED
    BY <1>2, <1>3, <2>1, NatSetInduction
<1>5. \A n \in 0 .. Len(file) : Events(Upto(file, n)) \in Seq(Entries)
  BY <1>1, <1>4
<1>6. Upto(file, Len(file)) = file /\ Len(file) \in 0 .. Len(file)
  BY <1>1, UptoIs
<1> QED
  BY <1>5, <1>6

\* Events that continue a numbered log make a longer one.
LEMMA NumberedConcat ==
  ASSUME NEW a, NEW b, Numbered(a), Follows(b, Len(a))
  PROVE  /\ Numbered(a \o b) /\ Len(a \o b) = Len(a) + Len(b)
         /\ Last(b).seq = Len(a) + Len(b) /\ Head(b).seq = Len(a) + 1
         /\ Len(a) \in Nat /\ Len(b) \in Nat \ {0}
<1>1. /\ a \in Seq(Entries) /\ b \in Seq(Entries) /\ Len(a) \in Nat /\ Len(b) \in Nat \ {0}
      /\ \A j \in 1 .. Len(b) : b[j].seq = (Len(a) + 1) + (j - 1)
  BY LenProperties DEF Numbered, Follows, Block
<1>2. /\ a \o b \in Seq(Entries) /\ Len(a \o b) = Len(a) + Len(b)
      /\ \A i \in 1 .. Len(a) + Len(b) :
           (a \o b)[i] = IF i <= Len(a) THEN a[i] ELSE b[i - Len(a)]
  BY <1>1, ConcatProperties
<1> DEFINE c == a \o b
<1> HIDE DEF c
<1>3. ASSUME NEW i \in 1 .. Len(a) + Len(b) PROVE c[i].seq = i
  <2>1. CASE i <= Len(a)
    BY <1>1, <1>2, <2>1 DEF Numbered, c
  <2>2. CASE ~(i <= Len(a))
    <3>1. i - Len(a) \in 1 .. Len(b) /\ (Len(a) + 1) + ((i - Len(a)) - 1) = i
      BY <1>1, <2>2
    <3>2. c[i] = b[i - Len(a)]
      BY <1>2, <2>2 DEF c
    <3> QED
      BY <1>1, <3>1, <3>2
  <2> QED
    BY <2>1, <2>2
<1>4. Numbered(c)
  BY <1>2, <1>3 DEF Numbered, c
<1>5. Last(b).seq = Len(a) + Len(b)
  <2>1. Len(b) \in 1 .. Len(b) /\ (Len(a) + 1) + (Len(b) - 1) = Len(a) + Len(b)
    BY <1>1
  <2> QED
    BY <1>1, <2>1 DEF Last
<1>6. Head(b).seq = Len(a) + 1
  <2>1. 1 \in 1 .. Len(b) /\ (Len(a) + 1) + (1 - 1) = Len(a) + 1 /\ b # <<>>
    BY <1>1
  <2>2. Head(b) = b[1]
    BY <1>1, <2>1, HeadTailProperties
  <2> QED
    BY <1>1, <2>1, <2>2
<1> QED
  BY <1>1, <1>2, <1>4, <1>5, <1>6 DEF c

\* Whether a unit continues its predecessors depends on it and the last of them.
LEMMA FineLocal ==
  ASSUME NEW a, NEW b, NEW i, a[i] = b[i], i = 1 \/ a[i - 1] = b[i - 1]
  PROVE  Fine(a, i) <=> Fine(b, i)
BY DEF Fine, Continues

\* Files that agree on n units agree on which of these are fine.
LEMMA FineSame ==
  ASSUME NEW a, NEW b, NEW n \in Nat, \A i \in 1 .. n : a[i] = b[i],
         \A i \in 1 .. n : Fine(a, i)
  PROVE  \A i \in 1 .. n : Fine(b, i)
<1> SUFFICES ASSUME NEW i \in 1 .. n PROVE Fine(b, i)
  OBVIOUS
<1>1. i = 1 \/ i - 1 \in 1 .. n
  OBVIOUS
<1>2. a[i] = b[i] /\ Fine(a, i) /\ (i = 1 \/ a[i - 1] = b[i - 1])
  BY <1>1
<1> QED
  BY <1>2, FineLocal

\* The units that continue each other hold a numbered log, and the next one
\* continues that log.
LEMMA FineEvents ==
  ASSUME NEW file \in Seq(Units), NEW n \in 0 .. Len(file),
         \A i \in 1 .. n : Fine(file, i)
  PROVE  /\ Numbered(Events(Upto(file, n)))
         /\ n # 0 => /\ Last(file[n].events).seq = Len(Events(Upto(file, n)))
                     /\ Follows(file[n].events, Len(Events(Upto(file, n - 1))))
<1>1. Len(file) \in Nat /\ n \in Nat
  BY LenProperties
<1> DEFINE E(k) == Events(Upto(file, k))
           P(k) == /\ Numbered(E(k))
                   /\ k # 0 => /\ Last(file[k].events).seq = Len(E(k))
                               /\ Follows(file[k].events, Len(E(k - 1)))
           T == {k \in Nat : k <= n => P(k)}
<1>2. 0 \in T
  <2>1. Upto(file, 0) = <<>>
    BY <1>1, UptoIs
  <2>2. E(0) = <<>>
    BY <2>1, EventsEmpty
  <2>3. Numbered(<<>>)
    BY DEF Numbered
  <2> QED
    BY <2>2, <2>3
<1>3. ASSUME NEW k \in T PROVE k + 1 \in T
  <2> SUFFICES ASSUME k + 1 <= n PROVE P(k + 1)
    OBVIOUS
  <2>1. k + 1 \in 1 .. Len(file) /\ (k + 1) - 1 = k /\ k + 1 \in 1 .. n /\ P(k) /\ k + 1 # 0
        /\ k + 1 = 1 <=> k = 0
    BY <1>1
  <2> DEFINE e == file[k + 1].events
             a == E(k)
  <2>2. Fine(file, k + 1)
    BY <2>1
  <2>3. E(k + 1) = a \o e
    <3>1. k + 1 \in 1 .. Len(file) /\ (k + 1) - 1 = k
      BY <2>1
    <3>2. Events(Upto(file, k + 1)) = Events(Upto(file, (k + 1) - 1)) \o file[k + 1].events
      BY <3>1, EventsUpto
    <3> QED
      BY <3>1, <3>2
  <2>4. k = 0 => Len(a) = 0
    <3>1. Upto(file, 0) = <<>>
      BY <1>1, UptoIs
    <3> QED
      BY <3>1, EventsEmpty
  <2>5. Block(e) /\ Head(e).seq = Len(a) + 1
    BY <2>1, <2>2, <2>4 DEF Fine, Continues
  <2>6. Numbered(a)
    BY <2>1
  <2> HIDE DEF a, e, E
  <2>7. Follows(e, Len(a))
    <3>1. e \in Seq(Entries) /\ e # <<>>
      BY <2>5 DEF Block
    <3>2. Head(e) = e[1]
      BY <3>1, HeadTailProperties
    <3> QED
      BY <2>5, <3>2 DEF Follows
  <2>8. Numbered(a \o e) /\ Len(a \o e) = Len(a) + Len(e) /\ Last(e).seq = Len(a) + Len(e)
    BY <2>6, <2>7, NumberedConcat
  <2>9. Numbered(E(k + 1)) /\ Last(file[k + 1].events).seq = Len(E(k + 1))
    BY <2>3, <2>8 DEF e
  <2>10. Follows(file[k + 1].events, Len(E((k + 1) - 1)))
    BY <2>1, <2>7 DEF e, a
  <2> QED
    BY <2>9, <2>10
<1>4. T = Nat
  <2>1. T \subseteq Nat
    OBVIOUS
  <2> HIDE DEF T
  <2> QED
    BY <1>2, <1>3, <2>1, NatSetInduction
<1>5. P(n)
  BY <1>1, <1>4
<1> QED
  BY <1>5

\* A sound file holds a numbered log.
LEMMA SoundEvents ==
  ASSUME NEW file, Sound(file)
  PROVE  /\ Numbered(Events(file)) /\ Len(file) \in Nat /\ Shape(file)
         /\ Upto(file, Len(file)) = file /\ Events(file) \in Seq(Entries)
         /\ file # <<>> => Last(file[Len(file)].events).seq = Len(Events(file))
<1>1. /\ file \in Seq(Units) /\ Len(file) \in Nat /\ Len(file) \in 0 .. Len(file)
      /\ \A i \in 1 .. Len(file) : Fine(file, i)
  BY LenProperties DEF Sound
<1>2. Upto(file, Len(file)) = file
  BY <1>1, UptoIs
<1>3. Shape(file)
  BY <1>1 DEF Shape
<1>4. file # <<>> => Len(file) # 0
  BY <1>1, EmptySeq
<1> QED
  BY <1>1, <1>2, <1>3, <1>4, FineEvents DEF Numbered

\* More units hold more events.
LEMMA EventsGrow ==
  ASSUME NEW file \in Seq(Units), NEW m \in 0 .. Len(file), NEW n \in 0 .. Len(file), m <= n
  PROVE  IsPrefix(Events(Upto(file, m)), Events(Upto(file, n)))
<1>1. Len(file) \in Nat /\ n \in Nat /\ m \in Nat
  BY LenProperties
<1> DEFINE E(k) == Events(Upto(file, k))
           T == {k \in Nat : m <= k /\ k <= Len(file) => IsPrefix(E(m), E(k))}
<1>2. \A k \in 0 .. Len(file) : E(k) \in Seq(Entries)
  BY EventsTyped
<1> HIDE DEF E
<1>3. IsPrefix(E(m), E(m))
  BY <1>2 DEF IsPrefix
<1>4. 0 \in T
  <2> SUFFICES ASSUME m <= 0 PROVE IsPrefix(E(m), E(0))
    OBVIOUS
  <2>1. m = 0
    BY <1>1
  <2> QED
    BY <1>3, <2>1
<1>5. ASSUME NEW k \in T PROVE k + 1 \in T
  <2> SUFFICES ASSUME m <= k + 1, k + 1 <= Len(file) PROVE IsPrefix(E(m), E(k + 1))
    OBVIOUS
  <2>1. CASE m = k + 1
    BY <1>3, <2>1
  <2>2. CASE m # k + 1
    <3>1. /\ m <= k /\ k <= Len(file) /\ k + 1 \in 1 .. Len(file) /\ (k + 1) - 1 = k
          /\ k \in 0 .. Len(file) /\ k + 1 \in 0 .. Len(file) /\ IsPrefix(E(m), E(k))
      BY <1>1, <1>5, <2>2
    <3>2. E(k + 1) = E(k) \o file[k + 1].events
      BY <3>1, EventsUpto DEF E
    <3>3. file[k + 1].events \in Seq(Entries)
      <4>1. file[k + 1] \in Units
        BY <3>1, ElementOfSeq
      <4> QED
        BY <4>1 DEF Units
    <3> DEFINE a == E(m)
               b == E(k)
               e == file[k + 1].events
               c == E(k + 1)
    <3>4. /\ a \in Seq(Entries) /\ b \in Seq(Entries) /\ c \in Seq(Entries)
          /\ e \in Seq(Entries) /\ c = b \o e /\ IsPrefix(a, b)
      BY <1>2, <3>1, <3>2, <3>3
    <3> HIDE DEF a, b, c, e
    <3>5. /\ Len(a) \in Nat /\ Len(b) \in Nat /\ Len(e) \in Nat /\ Len(c) = Len(b) + Len(e)
          /\ \A i \in 1 .. Len(b) : c[i] = b[i]
      BY <3>4, LenProperties, ConcatProperties
    <3>6. Len(a) <= Len(b) /\ \A i \in 1 .. Len(a) : a[i] = b[i]
      BY <3>4, PrefixIff
    <3>7. Len(a) <= Len(c) /\ \A i \in 1 .. Len(a) : a[i] = c[i]
      BY <3>5, <3>6
    <3>8. IsPrefix(a, c)
      BY <3>4, <3>7, PrefixIff
    <3> QED
      BY <3>8 DEF a, c
  <2> QED
    BY <2>1, <2>2
<1>6. T = Nat
  <2>1. T \subseteq Nat
    OBVIOUS
  <2> HIDE DEF T
  <2> QED
    BY <1>4, <1>5, <2>1, NatSetInduction
<1>7. IsPrefix(E(m), E(n))
  BY <1>1, <1>6
<1> QED
  BY <1>7 DEF E

\* Prefixes of prefixes are prefixes.
LEMMA PrefixTrans ==
  ASSUME NEW S, NEW a \in Seq(S), NEW b \in Seq(S), NEW c \in Seq(S),
         IsPrefix(a, b), IsPrefix(b, c)
  PROVE  IsPrefix(a, c)
<1>1. Len(a) \in Nat /\ Len(b) \in Nat /\ Len(c) \in Nat
  BY LenProperties
<1>2. /\ Len(a) <= Len(b) /\ \A i \in 1 .. Len(a) : a[i] = b[i]
      /\ Len(b) <= Len(c) /\ \A i \in 1 .. Len(b) : b[i] = c[i]
  BY PrefixIff
<1>3. Len(a) <= Len(c) /\ \A i \in 1 .. Len(a) : a[i] = c[i]
  BY <1>1, <1>2
<1> QED
  BY <1>3, PrefixIff
-----------------------------------------------------------------------------
(***************************************************************************)
(* The scanner.                                                            *)
(***************************************************************************)
\* The committed part ends before the first unit that does not continue.
LEMMA CommittedIs ==
  ASSUME NEW file \in Seq(Units), NEW m \in 0 .. Len(file),
         \A i \in 1 .. m : Continues(file, i),
         m < Len(file) => ~Continues(file, m + 1)
  PROVE  Committed(file) = Upto(file, m)
<1>1. Len(file) \in Nat /\ m \in Nat
  BY LenProperties
<1> DEFINE P(n) == /\ \A i \in 1 .. n : Continues(file, i)
                   /\ n < Len(file) => ~Continues(file, n + 1)
           k == CHOOSE n \in 0 .. Len(file) : P(n)
<1>2. k \in 0 .. Len(file) /\ P(k)
  <2>1. \E n \in 0 .. Len(file) : P(n)
    OBVIOUS
  <2> HIDE DEF P
  <2> QED
    BY <2>1
<1>3. Committed(file) = Upto(file, k)
  BY DEF Committed, Upto
<1> HIDE DEF k
<1>4. ~(k < m)
  <2> SUFFICES ASSUME k < m PROVE FALSE
    OBVIOUS
  <2>1. k + 1 \in 1 .. m /\ k < Len(file)
    BY <1>1, <1>2
  <2> QED
    BY <1>2, <2>1
<1>5. ~(m < k)
  <2> SUFFICES ASSUME m < k PROVE FALSE
    OBVIOUS
  <2>1. m + 1 \in 1 .. k /\ m < Len(file)
    BY <1>1, <1>2
  <2> QED
    BY <1>2, <2>1
<1>6. k = m
  BY <1>1, <1>2, <1>4, <1>5
<1> QED
  BY <1>3, <1>6

\* A stretch of units that continue each other is sound.
LEMMA UptoSound ==
  ASSUME NEW file \in Seq(Units), NEW m \in 0 .. Len(file), \A i \in 1 .. m : Fine(file, i)
  PROVE  Sound(Upto(file, m))
<1> DEFINE u == Upto(file, m)
<1>1. /\ u \in Seq(Units) /\ Len(u) = m /\ m \in Nat
      /\ \A i \in 1 .. m : u[i] = file[i]
  BY UptoIs, LenProperties
<1> HIDE DEF u
<1>2. \A i \in 1 .. m : Fine(u, i)
  BY <1>1, FineSame
<1> QED
  BY <1>1, <1>2 DEF Sound, u

\* The scanner reads m units, and what it can of the next one.
Scanned(file, m) ==
  LET scan == scanLog(file)
      good == Upto(file, m)
  IN  /\ m \in 0 .. Len(file) /\ \A i \in 1 .. m : Fine(file, i)
      /\ Committed(file) = good /\ Sound(good)
      /\ m # Len(file) => file[m + 1].torn
      /\ ~scan.refused /\ scan.keep = m /\ scan.torn = (m # Len(file))
      /\ m = Len(file) => scan.recovered = <<>>
      /\ scan.events = Events(good) \o scan.recovered
      /\ scan.recovered = <<>> \/ Follows(scan.recovered, Len(Events(good)))

\* What the scanner makes of a file that is sound but for a torn tail: it
\* commits the sound part, reads on into the tail if that continues, and
\* refuses nothing.
LEMMA ScanIs ==
  ASSUME NEW file, Shape(file)
  PROVE  \E m \in 0 .. Len(file) : Scanned(file, m)
<1>1. file \in Seq(Units) /\ Len(file) \in Nat
  BY LenProperties DEF Shape
<1> DEFINE good == Committed(file)
           rest == SubSeq(file, Len(good) + 1, Len(file))
           torn == Len(rest) = 1 /\ rest[1].torn
           fits == torn /\ rest[1].events # <<>>
                        /\ rest[1].events[1].seq = Len(Events(good)) + 1
           readable == IF fits THEN rest[1].events ELSE <<>>
           refused == /\ rest # <<>> /\ ~torn
                      /\ \/ compressed
                         \/ \E i \in 1 .. Len(rest) :
                              Parsable(rest, i) /\ rest[i].events[1].end
<1>2. /\ scanLog(file).events = Events(good) \o readable
      /\ scanLog(file).keep = Len(good) /\ scanLog(file).recovered = readable
      /\ scanLog(file).torn = (rest # <<>>) /\ scanLog(file).refused = refused
  BY DEF scanLog
<1>3. PICK m \in 0 .. Len(file) :
        /\ \A i \in 1 .. m : Fine(file, i)
        /\ m # Len(file) => /\ m + 1 = Len(file) /\ Tail1(file[m + 1])
  <2>1. CASE Len(file) = 0
    <3>1. 0 \in 0 .. Len(file) /\ \A i \in 1 .. 0 : Fine(file, i)
      BY <2>1
    <3> QED
      BY <2>1, <3>1
  <2>2. CASE Len(file) # 0 /\ Fine(file, Len(file))
    <3>1. Len(file) \in 0 .. Len(file)
      BY <1>1
    <3>2. \A i \in 1 .. Len(file) : Fine(file, i)
      BY <2>2 DEF Shape
    <3> QED
      BY <3>1, <3>2
  <2>3. CASE Len(file) # 0 /\ ~Fine(file, Len(file))
    <3>1. Len(file) - 1 \in 0 .. Len(file) /\ (Len(file) - 1) + 1 = Len(file)
          /\ Len(file) \in 1 .. Len(file)
      BY <1>1, <2>3
    <3>2. Tail1(file[Len(file)])
      BY <2>3, <3>1 DEF Shape
    <3>3. \A i \in 1 .. (Len(file) - 1) : i \in 1 .. Len(file) /\ i # Len(file)
      BY <1>1
    <3>4. \A i \in 1 .. (Len(file) - 1) : Fine(file, i)
      BY <3>3 DEF Shape
    <3> QED
      BY <3>1, <3>2, <3>4
  <2> QED
    BY <2>1, <2>2, <2>3
<1>4. good = Upto(file, m)
  <2>1. \A i \in 1 .. m : Continues(file, i)
    BY <1>3 DEF Fine
  <2>2. m < Len(file) => ~Continues(file, m + 1)
    BY <1>1, <1>3 DEF Tail1, Continues
  <2> QED
    BY <1>1, <2>1, <2>2, CommittedIs
<1>5. Sound(Upto(file, m)) /\ Len(good) = m /\ m \in Nat
  BY <1>1, <1>3, <1>4, UptoSound, UptoIs
<1> HIDE DEF good
<1>6. CASE m = Len(file)
  <2>1. rest = <<>>
    <3>1. Len(file) < m + 1 /\ m + 1 \in Int /\ Len(file) \in Int
      BY <1>1, <1>6
    <3> QED
      BY <1>5, <3>1, SubSeqEmpty
  <2> HIDE DEF rest
  <2>2. ~torn /\ ~refused
    BY <2>1
  <2>3. readable = <<>>
    BY <2>2
  <2> HIDE DEF torn, readable, refused
  <2>4. ~scanLog(file).refused /\ scanLog(file).torn = (m # Len(file))
    BY <1>2, <1>6, <2>1, <2>2
  <2>5. Scanned(file, m)
    BY <1>2, <1>3, <1>4, <1>5, <1>6, <2>3, <2>4 DEF Scanned, good
  <2> QED
    BY <2>5
<1>7. CASE m # Len(file)
  <2>1. m + 1 = Len(file) /\ Tail1(file[m + 1]) /\ file[m + 1] \in Units
    BY <1>3, <1>7 DEF Tail1
  <2>2. Len(rest) = 1 /\ rest[1] = file[m + 1] /\ rest # <<>>
    <3>1. /\ m + 1 \in Int /\ Len(file) \in Int /\ m + 1 <= Len(file) + 1
          /\ (Len(file) - (m + 1)) + 1 = 1 /\ (m + 1) + 1 - 1 = m + 1
          /\ \A i \in (m + 1) .. Len(file) : i \in 1 .. Len(file)
      BY <1>1, <1>5, <2>1
    <3>2. \A i \in (m + 1) .. Len(file) : file[i] \in Units
      BY <1>1, <3>1, ElementOfSeq
    <3>3. /\ rest \in Seq(Units) /\ Len(rest) = (Len(file) - (m + 1)) + 1
          /\ \A i \in 1 .. ((Len(file) - (m + 1)) + 1) : rest[i] = file[(m + 1) + i - 1]
      BY <1>5, <3>1, <3>2, SubSeqProperties
    <3>4. Len(rest) = 1 /\ rest[1] = file[(m + 1) + 1 - 1]
      BY <3>1, <3>3
    <3>5. rest # <<>>
      <4> HIDE DEF rest
      <4>1. Len(<<>>) = 0
        OBVIOUS
      <4>2. Len(rest) # 0
        BY <3>4
      <4> QED
        BY <4>1, <4>2, Zenon
    <3> QED
      BY <3>1, <3>4, <3>5
  <2> HIDE DEF rest
  <2>3. torn /\ ~refused
    BY <2>1, <2>2 DEF Tail1
  <2>4. readable = <<>> \/ Follows(readable, Len(Events(good)))
    <3> SUFFICES ASSUME fits PROVE Follows(rest[1].events, Len(Events(good)))
      OBVIOUS
    <3>1. rest[1].events \in Seq(Entries) /\ rest[1].events # <<>>
      BY <2>1, <2>2 DEF Units
    <3>2. Len(rest[1].events) # 0
      BY <3>1, EmptySeq
    <3>3. Block(rest[1].events)
      BY <2>1, <2>2, <3>2 DEF Tail1
    <3> QED
      BY <3>3 DEF Follows
  <2> HIDE DEF torn, readable, refused
  <2>5. ~scanLog(file).refused /\ scanLog(file).torn = (m # Len(file))
    BY <1>2, <1>7, <2>2, <2>3
  <2>6. Scanned(file, m)
    BY <1>2, <1>3, <1>4, <1>5, <1>7, <2>1, <2>4, <2>5 DEF Scanned, good, Tail1
  <2> QED
    BY <2>6
<1> QED
  BY <1>6, <1>7

\* What a load has to append continues the committed part.
LEMMA RepairIs ==
  ASSUME NEW file, life \in Nat, NEW m \in 0 .. Len(file), Scanned(file, m),
         NEW repair, repair = scanLog(file).recovered \o closers(scanLog(file).events)
  PROVE  /\ repair = <<>> \/ Follows(repair, Len(Events(Upto(file, m))))
         /\ Numbered(scanLog(file).events)
<1> DEFINE a == Events(Upto(file, m))
           r == scanLog(file).recovered
           e == scanLog(file).events
           c == closers(e)
<1>0. /\ Sound(Upto(file, m)) /\ e = a \o r
      /\ r = <<>> \/ Follows(r, Len(a))
  BY DEF Scanned
<1>1. Numbered(a)
  BY <1>0, SoundEvents
<1> HIDE DEF a, r, e
<1>2. a \in Seq(Entries) /\ Len(a) \in Nat
  BY <1>1, LenProperties DEF Numbered
<1>3. /\ Numbered(e) /\ r \in Seq(Entries) /\ Len(e) = Len(a) + Len(r)
  <2>1. CASE r = <<>>
    <3>1. e = a
      BY <1>0, <1>2, <2>1, ConcatEmptySeq
    <3> QED
      BY <1>1, <1>2, <2>1, <3>1
  <2>2. CASE Follows(r, Len(a))
    BY <1>0, <1>1, <2>2, NumberedConcat DEF Follows, Block
  <2> QED
    BY <1>0, <2>1, <2>2
<1>4. Len(e) \in Nat /\ Len(r) \in Nat
  BY <1>3, LenProperties DEF Numbered
<1>5. CASE c = <<>>
  <2>1. repair = r
    BY <1>3, <1>5, ConcatEmptySeq DEF r, e
  <2> QED
    BY <1>0, <1>3, <2>1 DEF a, r, e
<1>6. CASE c # <<>>
  <2> DEFINE closer == [seq |-> Len(e) + 1, life |-> life, end |-> TRUE]
  <2>1. c = <<closer>>
    BY <1>6 DEF closers
  <2>2. closer \in Entries /\ closer.seq = Len(e) + 1
    BY <1>4 DEF Entries
  <2> HIDE DEF closer, c
  <2>3. c \in Seq(Entries) /\ Len(c) = 1 /\ c[1] = closer
    BY <2>1, <2>2
  <2>4. repair = r \o c
    BY DEF r, e, c
  <2>5. /\ repair \in Seq(Entries) /\ Len(repair) = Len(r) + 1
        /\ \A i \in 1 .. Len(r) + 1 :
             repair[i] = IF i <= Len(r) THEN r[i] ELSE c[i - Len(r)]
    <3>1. /\ repair \in Seq(Entries) /\ Len(repair) = Len(r) + Len(c)
          /\ \A i \in 1 .. Len(r) + Len(c) :
               repair[i] = IF i <= Len(r) THEN r[i] ELSE c[i - Len(r)]
      <4>1. /\ (r \o c) \in Seq(Entries) /\ Len(r \o c) = Len(r) + Len(c)
            /\ \A i \in 1 .. Len(r) + Len(c) :
                 (r \o c)[i] = IF i <= Len(r) THEN r[i] ELSE c[i - Len(r)]
        <5>1. r \in Seq(Entries) /\ c \in Seq(Entries)
          BY <1>3, <2>3
        <5> QED
          BY <5>1, ConcatProperties
      <4> QED
        BY <2>4, <4>1
    <3> QED
      BY <2>3, <3>1
  <2>6. \A i \in 1 .. Len(r) : r[i].seq = (Len(a) + 1) + (i - 1)
    <3>1. CASE r = <<>>
      BY <3>1
    <3>2. CASE Follows(r, Len(a))
      BY <3>2 DEF Follows, Block
    <3> QED
      BY <1>0, <3>1, <3>2
  <2>7. ASSUME NEW i \in 1 .. Len(r) + 1 PROVE repair[i].seq = (Len(a) + 1) + (i - 1)
    <3>1. CASE i <= Len(r)
      <4>1. i \in 1 .. Len(r)
        BY <1>4, <3>1
      <4> QED
        BY <2>5, <2>6, <3>1, <4>1
    <3>2. CASE ~(i <= Len(r))
      <4>1. i = Len(r) + 1 /\ i - Len(r) = 1
        BY <1>4, <3>2
      <4>2. repair[i] = closer
        BY <2>3, <2>5, <3>2, <4>1
      <4> QED
        BY <1>2, <1>3, <1>4, <2>2, <4>1, <4>2
    <3> QED
      BY <3>1, <3>2
  <2>8. 1 \in 1 .. Len(r) + 1 /\ repair[1].seq = Len(a) + 1 /\ Len(r) + 1 # 0
    <3>1. 1 \in 1 .. Len(r) + 1 /\ (Len(a) + 1) + (1 - 1) = Len(a) + 1 /\ Len(r) + 1 # 0
      BY <1>2, <1>4
    <3>2. repair[1].seq = (Len(a) + 1) + (1 - 1)
      BY <2>7, <3>1
    <3> QED
      BY <3>1, <3>2
  <2>9. Follows(repair, Len(a))
    BY <2>5, <2>7, <2>8 DEF Follows, Block
  <2> QED
    BY <1>3, <2>9 DEF a, e
<1> QED
  BY <1>5, <1>6
-----------------------------------------------------------------------------
(***************************************************************************)
(* Writing.                                                                *)
(***************************************************************************)
\* A whole unit that continues a sound file makes a longer one.
LEMMA AppendSound ==
  ASSUME NEW base, Sound(base), NEW events, Follows(events, Len(Events(base)))
  PROVE  /\ Sound(Append(base, Whole(events))) /\ Whole(events) \in Units
         /\ Events(Append(base, Whole(events))) = Events(base) \o events
         /\ Len(Events(base) \o events) = Len(Events(base)) + Len(events)
<1> DEFINE u == Whole(events)
           g == Append(base, u)
<1>1. /\ base \in Seq(Units) /\ Numbered(Events(base)) /\ Len(base) \in Nat
      /\ Events(base) \in Seq(Entries) /\ events \in Seq(Entries) /\ Block(events)
      /\ base # <<>> => Last(base[Len(base)].events).seq = Len(Events(base))
      /\ \A i \in 1 .. Len(base) : Fine(base, i)
  BY SoundEvents DEF Sound, Follows, Block
<1>2. u \in Units /\ u.events = events /\ u.torn = FALSE
  BY <1>1 DEF Whole, Units
<1> HIDE DEF u
<1>3. /\ g \in Seq(Units) /\ Len(g) = Len(base) + 1 /\ g[Len(base) + 1] = u
      /\ \A i \in 1 .. Len(base) : g[i] = base[i]
  BY <1>1, <1>2, AppendProperties
<1> HIDE DEF g
<1>4. \A i \in 1 .. Len(base) : Fine(g, i)
  BY <1>1, <1>3, FineSame
<1>5. Head(events).seq = Len(Events(base)) + 1
      /\ Len(Events(base) \o events) = Len(Events(base)) + Len(events)
  BY <1>1, NumberedConcat
<1>6. Fine(g, Len(base) + 1)
  <2> DEFINE n == Len(base) + 1
  <2>1. n = 1 <=> base = <<>>
    BY <1>1, EmptySeq
  <2>2. n - 1 = Len(base) /\ (n # 1 => n - 1 \in 1 .. Len(base))
    BY <1>1
  <2>3. g[n] = u /\ (n # 1 => g[n - 1] = base[Len(base)])
    BY <1>3, <2>2
  <2>4. n = 1 => Len(Events(base)) = 0
    BY <2>1, EventsEmpty
  <2> HIDE DEF n
  <2>5. Continues(g, n)
    BY <1>1, <1>2, <1>5, <2>1, <2>3, <2>4 DEF Continues
  <2> QED
    BY <1>1, <1>2, <2>3, <2>5 DEF Fine, n
<1>7. Sound(g)
  <2>1. \A i \in 1 .. Len(g) : i \in 1 .. Len(base) \/ i = Len(base) + 1
    BY <1>1, <1>3
  <2> QED
    BY <1>3, <1>4, <1>6, <2>1 DEF Sound
<1>8. Events(g) = Events(base) \o events
  BY <1>1, <1>2, EventsAppend DEF g
<1> QED
  BY <1>2, <1>5, <1>7, <1>8 DEF g, u

\* In either encoding, a batch that continues a sound file makes a longer one
\* that holds the batch behind the rest.
LEMMA EncodeSound ==
  ASSUME NEW base, Sound(base), NEW b, Follows(b, Len(Events(base)))
  PROVE  /\ Sound(base \o encode(b)) /\ Events(base \o encode(b)) = Events(base) \o b
         /\ encode(b) \in Seq(Units)
<1>1. /\ base \in Seq(Units) /\ Len(base) \in Nat /\ Events(base) \in Seq(Entries)
      /\ b \in Seq(Entries) /\ Len(b) \in Nat \ {0} /\ Len(Events(base)) \in Nat
      /\ \A j \in 1 .. Len(b) : b[j].seq = (Len(Events(base)) + 1) + (j - 1)
  BY SoundEvents, LenProperties DEF Sound, Follows, Block
<1>2. CASE compressed
  <2>1. encode(b) = <<Whole(b)>> /\ Whole(b) \in Units
    BY <1>2, AppendSound DEF encode
  <2>2. base \o <<Whole(b)>> = Append(base, Whole(b))
    BY <1>1, <2>1, AppendIsConcat
  <2>3. <<Whole(b)>> \in Seq(Units)
    BY <2>1
  <2> QED
    BY <2>1, <2>2, <2>3, AppendSound
<1>3. CASE ~compressed
  <2> DEFINE line(i) == Whole(<<b[i]>>)
             L(n) == [i \in 1 .. n |-> line(i)]
             G(n) == base \o L(n)
             P(n) == Sound(G(n)) /\ Events(G(n)) = Events(base) \o Upto(b, n)
             T == {n \in Nat : n <= Len(b) => P(n)}
  <2>1. encode(b) = L(Len(b))
    BY <1>3 DEF encode
  <2>2. ASSUME NEW i \in 1 .. Len(b) PROVE b[i] \in Entries /\ line(i) \in Units
    <3>1. b[i] \in Entries
      BY <1>1, <2>2, ElementOfSeq
    <3>2. <<b[i]>> \in Seq(Entries)
      BY <3>1
    <3> QED
      BY <3>1, <3>2 DEF Whole, Units
  <2> HIDE DEF line
  <2>3. ASSUME NEW n \in 0 .. Len(b)
        PROVE  L(n) \in Seq(Units) /\ Len(L(n)) = n /\ \A i \in 1 .. n : L(n)[i] = line(i)
    <3>1. L(n) \in [1 .. n -> Units] /\ n \in Nat
      BY <1>1, <2>2
    <3>2. \A i \in 1 .. n : L(n)[i] = line(i)
      OBVIOUS
    <3> HIDE DEF L
    <3> QED
      BY <3>1, <3>2, SeqDef, LenProperties
  <2> HIDE DEF L
  <2>4. 0 \in T
    <3>1. L(0) = <<>>
      BY <1>1, <2>3, EmptySeq
    <3>2. G(0) = base
      BY <1>1, <3>1, ConcatEmptySeq
    <3>3. Upto(b, 0) = <<>>
      BY <1>1, UptoIs
    <3>4. Events(base) \o <<>> = Events(base)
      BY <1>1, ConcatEmptySeq
    <3> QED
      BY <3>2, <3>3, <3>4
  <2>5. ASSUME NEW n \in T PROVE n + 1 \in T
    <3> SUFFICES ASSUME n + 1 <= Len(b) PROVE P(n + 1)
      OBVIOUS
    <3>1. /\ n \in 0 .. Len(b) /\ n + 1 \in 0 .. Len(b) /\ n + 1 \in 1 .. Len(b)
          /\ (n + 1) - 1 = n /\ n <= Len(b)
      BY <1>1
    <3>2. P(n)
      BY <2>5, <3>1
    <3> DEFINE u == line(n + 1)
               e == <<b[n + 1]>>
    <3>3. u \in Units /\ b[n + 1] \in Entries /\ u = Whole(e) /\ e \in Seq(Entries)
      BY <2>2, <3>1 DEF line
    <3>4. L(n + 1) = Append(L(n), u)
      <4>1. /\ Append(L(n), u) \in Seq(Units) /\ Len(Append(L(n), u)) = n + 1
            /\ Append(L(n), u)[n + 1] = u
            /\ \A i \in 1 .. n : Append(L(n), u)[i] = L(n)[i]
        BY <2>3, <3>1, <3>3, AppendProperties
      <4> DEFINE v == Append(L(n), u)
                 w == L(n + 1)
      <4>2. /\ v \in Seq(Units) /\ w \in Seq(Units) /\ Len(v) = n + 1 /\ Len(w) = n + 1
            /\ \A i \in 1 .. n : v[i] = line(i)
            /\ v[n + 1] = line(n + 1) /\ \A i \in 1 .. (n + 1) : w[i] = line(i)
        BY <2>3, <3>1, <4>1
      <4> HIDE DEF v, w
      <4>3. \A i \in 1 .. (n + 1) : v[i] = w[i]
        <5>1. \A i \in 1 .. (n + 1) : i \in 1 .. n \/ i = n + 1
          BY <3>1
        <5> QED
          BY <4>2, <5>1
      <4>4. v = w
        BY <4>2, <4>3, SeqEqual
      <4> QED
        BY <4>4 DEF v, w
    <3>5. G(n + 1) = Append(G(n), u)
      <4>1. L(n) \in Seq(Units)
        BY <2>3, <3>1
      <4>2. Append(L(n), u) = L(n) \o <<u>> /\ <<u>> \in Seq(Units)
        BY <3>3, <4>1, AppendIsConcat
      <4>3. base \o (L(n) \o <<u>>) = (base \o L(n)) \o <<u>>
        BY <1>1, <4>1, <4>2, ConcatAssociative
      <4>4. base \o L(n) \in Seq(Units)
        BY <1>1, <4>1, ConcatProperties
      <4>5. (base \o L(n)) \o <<u>> = Append(base \o L(n), u)
        BY <3>3, <4>4, AppendIsConcat
      <4> QED
        BY <3>4, <4>2, <4>3, <4>5
    <3> HIDE DEF G
    <3>6. /\ Sound(G(n)) /\ Events(G(n)) = Events(base) \o Upto(b, n)
          /\ Upto(b, n) \in Seq(Entries) /\ Len(Upto(b, n)) = n
      BY <1>1, <3>1, <3>2, UptoIs
    <3>7. Len(Events(G(n))) = Len(Events(base)) + n
      <4> DEFINE x == Events(base)
                 y == Upto(b, n)
      <4>1. x \in Seq(Entries) /\ y \in Seq(Entries)
        BY <1>1, <3>6
      <4> HIDE DEF x, y
      <4>2. Len(x \o y) = Len(x) + Len(y)
        BY <4>1, ConcatProperties
      <4> QED
        BY <3>6, <4>2 DEF x, y
    <3>8. Follows(e, Len(Events(G(n))))
      <4>1. b[n + 1].seq = (Len(Events(base)) + 1) + ((n + 1) - 1)
        BY <1>1, <3>1
      <4>2. /\ e \in Seq(Entries) /\ Len(e) = 1 /\ e[1] = b[n + 1]
            /\ b[n + 1].seq = (Len(Events(base)) + n) + 1
        BY <1>1, <3>1, <3>3, <4>1
      <4> HIDE DEF e
      <4>3. \A j \in 1 .. Len(e) : e[j].seq = e[1].seq + (j - 1)
        <5> SUFFICES ASSUME NEW j \in 1 .. Len(e) PROVE e[j].seq = e[1].seq + (j - 1)
          OBVIOUS
        <5>1. j = 1
          BY <4>2
        <5>2. e[1].seq \in Nat
          BY <1>1, <3>1, <4>2
        <5> QED
          BY <5>1, <5>2
      <4> QED
        BY <3>7, <4>2, <4>3 DEF Follows, Block
    <3>9. /\ Sound(Append(G(n), Whole(e)))
          /\ Events(Append(G(n), Whole(e))) = Events(G(n)) \o e
      BY <3>6, <3>8, AppendSound
    <3>10. Events(G(n)) \o e = Events(base) \o Upto(b, n + 1)
      <4>1. (Events(base) \o Upto(b, n)) \o e = Events(base) \o (Upto(b, n) \o e)
        <5> DEFINE x == Events(base)
                   y == Upto(b, n)
        <5>1. x \in Seq(Entries) /\ y \in Seq(Entries) /\ e \in Seq(Entries)
          BY <1>1, <3>3, <3>6
        <5>2. \A p, q, r \in Seq(Entries) : (p \o q) \o r = p \o (q \o r)
          <6> HIDE DEF x, y, e, u, P, T
          <6> TAKE p, q, r \in Seq(Entries)
          <6> QED
            BY ConcatAssociative
        <5>3. (x \o y) \o e = x \o (y \o e)
          <6> HIDE DEF x, y, e
          <6> QED
            BY <5>1, <5>2
        <5> QED
          BY <5>3
      <4>2. Upto(b, n + 1) = Append(Upto(b, (n + 1) - 1), b[n + 1])
        BY <1>1, <3>1, UptoNext
      <4>3. Append(Upto(b, n), b[n + 1]) = Upto(b, n) \o e
        BY <3>3, <3>6, AppendIsConcat
      <4> QED
        BY <3>1, <3>6, <4>1, <4>2, <4>3
    <3> QED
      BY <3>3, <3>5, <3>9, <3>10
  <2>6. T = Nat
    <3>1. T \subseteq Nat
      OBVIOUS
    <3> HIDE DEF T
    <3> QED
      BY <2>4, <2>5, <3>1, NatSetInduction
  <2>7. P(Len(b))
    BY <1>1, <2>6
  <2>8. Upto(b, Len(b)) = b
    BY <1>1, UptoIs
  <2>9. L(Len(b)) \in Seq(Units)
    BY <1>1, <2>3
  <2> QED
    BY <2>1, <2>7, <2>8, <2>9
<1> QED
  BY <1>2, <1>3

\* Whatever part of a file is written has its shape, and keeps what was there.
LEMMA CutsShape ==
  ASSUME NEW file, Shape(file), NEW from \in 0 .. Len(file), NEW g \in Cuts(file, from)
  PROVE  /\ Shape(g) /\ from <= Len(g) /\ \A i \in 1 .. from : g[i] = file[i]
<1>1. file \in Seq(Units) /\ Len(file) \in Nat /\ from \in Nat
  BY LenProperties DEF Shape
<1>2. \A i \in 1 .. Len(file) : ~file[i].torn => Fine(file, i)
  BY DEF Shape, Tail1
<1>3. ASSUME NEW n \in from .. Len(file), g = SubSeq(file, 1, n)
      PROVE  /\ Shape(g) /\ from <= Len(g) /\ \A i \in 1 .. from : g[i] = file[i]
  <2>1. /\ n \in 0 .. Len(file) /\ n \in Nat /\ from <= n
        /\ \A i \in 1 .. from : i \in 1 .. n
    BY <1>1
  <2>2. /\ g \in Seq(Units) /\ Len(g) = n /\ \A i \in 1 .. n : g[i] = file[i]
    BY <1>1, <1>3, <2>1, UptoIs DEF Upto
  <2>3. ASSUME NEW i \in 1 .. n
        PROVE  Fine(g, i) \/ (i = n /\ Tail1(g[i]))
    <3>1. i \in 1 .. Len(file) /\ (i = 1 \/ i - 1 \in 1 .. n) /\ (i = Len(file) => i = n)
      BY <1>1, <2>1
    <3>2. Fine(g, i) <=> Fine(file, i)
      BY <2>2, <3>1, FineLocal
    <3> QED
      BY <2>2, <3>1, <3>2 DEF Shape
  <2> QED
    BY <2>1, <2>2, <2>3 DEF Shape
<1>4. ASSUME NEW n \in (from + 1) .. Len(file), NEW u \in Remains(file[n]),
             g = Append(SubSeq(file, 1, n - 1), u)
      PROVE  /\ Shape(g) /\ from <= Len(g) /\ \A i \in 1 .. from : g[i] = file[i]
  <2>1. /\ n \in 1 .. Len(file) /\ n - 1 \in 0 .. Len(file) /\ n - 1 \in Nat
        /\ (n - 1) + 1 = n /\ from <= n - 1 /\ \A i \in 1 .. from : i \in 1 .. (n - 1)
    BY <1>1
  <2>2. file[n] \in Units
    BY <1>1, <2>1, ElementOfSeq
  <2>3. Tail1(u)
    <3>1. CASE file[n].torn
      <4>1. u = file[n] /\ ~Fine(file, n)
        BY <1>4, <3>1 DEF Remains, Fine, Continues
      <4> QED
        BY <2>1, <4>1 DEF Shape
    <3>2. CASE ~file[n].torn
      <4>1. Block(file[n].events)
        BY <1>2, <2>1, <3>2 DEF Fine
      <4> DEFINE es == file[n].events
      <4>2. PICK k \in 0 .. (IF compressed THEN Len(es) ELSE 0) : u = Torn(SubSeq(es, 1, k))
        BY <1>4, <3>2 DEF Remains
      <4>3. es \in Seq(Entries) /\ Len(es) \in Nat
        BY <4>1, LenProperties DEF Block
      <4> HIDE DEF es
      <4>4. k \in 0 .. Len(es) /\ k \in Nat
        BY <4>2, <4>3
      <4> DEFINE part == SubSeq(es, 1, k)
      <4>5. part \in Seq(Entries) /\ Len(part) = k /\ \A i \in 1 .. k : part[i] = es[i]
        BY <4>3, <4>4, UptoIs DEF Upto
      <4> HIDE DEF part
      <4>6. k # 0 => Block(part)
        <5> SUFFICES ASSUME k # 0 PROVE Block(part)
          OBVIOUS
        <5>1. \A j \in 1 .. Len(es) : es[j].seq = es[1].seq + (j - 1)
          BY <4>1 DEF Block, es
        <5>2. 1 \in 1 .. k /\ \A j \in 1 .. k : j \in 1 .. Len(es)
          BY <4>3, <4>4
        <5>3. \A j \in 1 .. k : part[j].seq = part[1].seq + (j - 1)
          BY <4>5, <5>1, <5>2
        <5> QED
          BY <4>5, <5>3 DEF Block
      <4>7. u \in Units /\ u.torn /\ u.events = part
        BY <4>2, <4>5 DEF Torn, Units, part
      <4> QED
        BY <4>5, <4>6, <4>7 DEF Tail1
    <3> QED
      BY <3>1, <3>2
  <2> DEFINE a == Upto(file, n - 1)
  <2>4. /\ a \in Seq(Units) /\ Len(a) = n - 1 /\ \A i \in 1 .. (n - 1) : a[i] = file[i]
    BY <1>1, <2>1, UptoIs
  <2>5. g = Append(a, u) /\ u \in Units
    BY <1>4, <2>3 DEF Upto, Tail1
  <2> HIDE DEF a
  <2>6. /\ g \in Seq(Units) /\ Len(g) = n /\ g[n] = u
        /\ \A i \in 1 .. (n - 1) : g[i] = file[i]
    BY <2>1, <2>4, <2>5, AppendProperties
  <2>7. ASSUME NEW i \in 1 .. (n - 1) PROVE Fine(g, i)
    <3>1. /\ i \in 1 .. Len(file) /\ i # Len(file) /\ (i = 1 \/ i - 1 \in 1 .. (n - 1))
      BY <1>1, <2>1
    <3>2. Fine(file, i)
      BY <3>1 DEF Shape
    <3>3. g[i] = file[i] /\ (i = 1 \/ g[i - 1] = file[i - 1])
      BY <2>6, <3>1
    <3> QED
      BY <3>2, <3>3, FineLocal
  <2>8. \A i \in 1 .. n : i \in 1 .. (n - 1) \/ i = n
    BY <2>1
  <2>9. Shape(g)
    BY <2>3, <2>6, <2>7, <2>8 DEF Shape
  <2>10. from <= n
    BY <1>1, <2>1
  <2> QED
    BY <2>1, <2>6, <2>9, <2>10
<1> QED
  BY <1>3, <1>4 DEF Cuts
-----------------------------------------------------------------------------
(***************************************************************************)
(* What the disk may hold.                                                 *)
(***************************************************************************)
\* Every file the disk may hold has the shape, and begins with the units on
\* which the file and its synced form agree.
LEMMA OnDiskIs ==
  ASSUME Shape(units), Shape(synced), NEW n, Safe(n), NEW file \in OnDisk \cup {units}
  PROVE  Shape(file) /\ n <= Len(file) /\ \A i \in 1 .. n : file[i] = units[i]
<1>1. /\ units \in Seq(Units) /\ synced \in Seq(Units) /\ Len(units) \in Nat
      /\ Len(synced) \in Nat /\ n \in 0 .. Len(units) /\ n \in Nat /\ n <= Len(synced)
      /\ \A i \in 1 .. n : units[i] = synced[i]
  BY LenProperties DEF Shape, Safe
<1> DEFINE Agree(k) == k <= Len(synced) /\ SubSeq(units, 1, k) = SubSeq(synced, 1, k)
           P(k) == /\ k <= Len(synced) /\ SubSeq(units, 1, k) = SubSeq(synced, 1, k)
                   /\ \/ k = Len(units) \/ k = Len(synced)
                      \/ units[k + 1] # synced[k + 1]
           T == {k \in Nat : k <= Len(units) /\ Agree(k)}
           common == CHOOSE k \in 0 .. Len(units) : P(k)
<1>2. \E k \in 0 .. Len(units) : P(k)
  <2> SUFFICES ASSUME \A k \in 0 .. Len(units) : ~P(k) PROVE FALSE
    OBVIOUS
  <2>1. 0 \in T
    <3>1. Upto(units, 0) = <<>> /\ Upto(synced, 0) = <<>>
      BY <1>1, UptoIs
    <3> QED
      BY <1>1, <3>1 DEF Upto
  <2>2. ASSUME NEW k \in T PROVE k + 1 \in T
    <3>1. k \in 0 .. Len(units) /\ Agree(k) /\ ~P(k)
      BY <1>1, <2>2
    <3>2. k # Len(units) /\ k # Len(synced) /\ units[k + 1] = synced[k + 1]
      BY <3>1
    <3>3. /\ k + 1 \in 1 .. Len(units) /\ k + 1 \in 1 .. Len(synced) /\ (k + 1) - 1 = k
      BY <1>1, <3>1, <3>2
    <3>4. /\ Upto(units, k + 1) = Append(Upto(units, (k + 1) - 1), units[k + 1])
          /\ Upto(synced, k + 1) = Append(Upto(synced, (k + 1) - 1), synced[k + 1])
      BY <1>1, <3>3, UptoNext
    <3>5. Upto(units, k + 1) = Upto(synced, k + 1)
      BY <3>1, <3>2, <3>3, <3>4 DEF Upto
    <3> QED
      BY <3>3, <3>5 DEF Upto
  <2>3. T = Nat
    <3>1. T \subseteq Nat
      OBVIOUS
    <3> HIDE DEF T
    <3> QED
      BY <2>1, <2>2, <3>1, NatSetInduction
  <2>4. Len(units) + 1 \in T
    BY <1>1, <2>3
  <2> QED
    BY <1>1, <2>4
<1>3. common \in 0 .. Len(units) /\ P(common)
  <2> HIDE DEF P
  <2> QED
    BY <1>2
<1>4. OnDisk = {synced} \cup Cuts(units, common)
  BY DEF OnDisk
<1> HIDE DEF common
<1>5. n <= common /\ common \in Nat
  <2>1. common \in Nat
    BY <1>1, <1>3
  <2> SUFFICES ASSUME common < n PROVE FALSE
    BY <1>1, <2>1
  <2>2. common + 1 \in 1 .. n /\ common # Len(units) /\ common # Len(synced)
    BY <1>1, <1>3, <2>1
  <2> QED
    BY <1>1, <1>3, <2>2
<1>6. CASE file = synced
  BY <1>1, <1>6
<1>7. CASE file = units
  BY <1>1, <1>7
<1>8. CASE file \in Cuts(units, common)
  <2>1. Shape(file) /\ common <= Len(file) /\ \A i \in 1 .. common : file[i] = units[i]
    BY <1>3, <1>8, CutsShape
  <2>2. n <= Len(file) /\ \A i \in 1 .. n : i \in 1 .. common
    <3>1. Len(file) \in Nat
      BY <2>1, LenProperties DEF Shape
    <3> QED
      BY <1>1, <1>5, <2>1, <3>1
  <2> QED
    BY <2>1, <2>2
<1> QED
  BY <1>4, <1>6, <1>7, <1>8

\* A log is a prefix of what it is continued by.
LEMMA PrefixConcat ==
  ASSUME NEW S, NEW a \in Seq(S), NEW b \in Seq(S)
  PROVE  IsPrefix(a, a \o b) /\ a \o b \in Seq(S)
<1> DEFINE c == a \o b
<1>1. /\ c \in Seq(S) /\ Len(c) = Len(a) + Len(b) /\ Len(a) \in Nat /\ Len(b) \in Nat
      /\ \A i \in 1 .. Len(a) + Len(b) : c[i] = IF i <= Len(a) THEN a[i] ELSE b[i - Len(a)]
  BY ConcatProperties, LenProperties
<1> HIDE DEF c
<1>2. Len(a) <= Len(c) /\ \A i \in 1 .. Len(a) : a[i] = c[i]
  BY <1>1
<1>3. IsPrefix(a, c)
  BY <1>1, <1>2, PrefixIff
<1> QED
  BY <1>1, <1>3 DEF c

\* A file that begins with those units is read back with all that was
\* acknowledged, and none of it is cut off.
LEMMA SafeScan ==
  ASSUME Shape(units), acked \in Seq(Entries), NEW n, Safe(n), NEW file, Shape(file),
         n <= Len(file), \A i \in 1 .. n : file[i] = units[i], NEW m, Scanned(file, m)
  PROVE  n <= m /\ IsPrefix(acked, scanLog(file).events)
<1>1. /\ units \in Seq(Units) /\ file \in Seq(Units) /\ Len(units) \in Nat
      /\ Len(file) \in Nat /\ n \in 0 .. Len(units) /\ n \in Nat /\ m \in 0 .. Len(file)
      /\ \A i \in 1 .. n : Fine(units, i)
  BY LenProperties DEF Shape, Safe, Scanned
<1>2. \A i \in 1 .. n : Fine(file, i)
  BY <1>1, FineSame
<1>3. n <= m /\ m \in Nat
  <2> SUFFICES ASSUME m < n PROVE FALSE
    BY <1>1
  <2>1. m + 1 \in 1 .. n /\ m # Len(file)
    BY <1>1
  <2>2. file[m + 1].torn
    BY <2>1 DEF Scanned
  <2> QED
    BY <1>2, <2>1, <2>2 DEF Fine, Continues
<1>4. Upto(units, n) = Upto(file, n)
  BY <1>1, UptoSame
<1> DEFINE a == Events(Upto(file, n))
           b == Events(Upto(file, m))
           r == scanLog(file).recovered
           e == scanLog(file).events
<1>5. a \in Seq(Entries) /\ b \in Seq(Entries)
  BY <1>1, EventsTyped
<1>6. IsPrefix(acked, a) /\ IsPrefix(a, b)
  <2>1. IsPrefix(acked, a)
    BY <1>4 DEF Safe
  <2>2. IsPrefix(a, b)
    BY <1>1, <1>3, EventsGrow
  <2> QED
    BY <2>1, <2>2
<1>7. e = b \o r /\ r \in Seq(Entries)
  <2>1. e = b \o r /\ (r = <<>> \/ Follows(r, Len(b)))
    BY DEF Scanned
  <2>2. <<>> \in Seq(Entries)
    OBVIOUS
  <2> HIDE DEF a, b, r, e
  <2> QED
    BY <2>1, <2>2 DEF Follows, Block
<1> HIDE DEF a, b, r, e
<1>8. IsPrefix(b, e) /\ e \in Seq(Entries)
  BY <1>5, <1>7, PrefixConcat
<1>9. IsPrefix(acked, b)
  BY <1>5, <1>6, PrefixTrans
<1>10. IsPrefix(acked, e)
  BY <1>5, <1>8, <1>9, PrefixTrans
<1> QED
  BY <1>3, <1>10 DEF e

\* The invariant gives both properties.
LEMMA InvGives == ASSUME IInv PROVE AckedSurvive /\ CursorMatchesFile
<1>1. AckedSurvive
  <2> SUFFICES ASSUME leftover = {}, NEW file \in OnDisk \cup {units}
               PROVE  ~scanLog(file).refused /\ IsPrefix(acked, scanLog(file).events)
    BY DEF AckedSurvive
  <2>1. PICK n \in Nat : Safe(n)
    BY DEF IInv, FileInv
  <2>2. Shape(units) /\ Shape(synced) /\ acked \in Seq(Entries)
    BY DEF IInv, FileInv, Typed
  <2>3. Shape(file) /\ n <= Len(file) /\ \A i \in 1 .. n : file[i] = units[i]
    BY <2>1, <2>2, OnDiskIs
  <2>4. PICK m \in 0 .. Len(file) : Scanned(file, m)
    BY <2>3, ScanIs
  <2>5. ~scanLog(file).refused
    BY <2>4 DEF Scanned
  <2> QED
    BY <2>1, <2>2, <2>3, <2>4, <2>5, SafeScan
<1>2. CursorMatchesFile
  <2> SUFFICES ASSUME status = "live", pc = "idle", leftover = {},
                      ~(cursor = 0 /\ entry # "absent")
               PROVE  Events(units) = SubSeq(session, 1, cursor) /\ Committed(units) = units
    BY DEF CursorMatchesFile
  <2>1. Sound(units) /\ Events(units) = SubSeq(session, 1, cursor)
    BY DEF IInv, FileInv, Counted, Upto
  <2>2. /\ units \in Seq(Units) /\ Len(units) \in 0 .. Len(units) /\ Len(units) \in Nat
        /\ \A i \in 1 .. Len(units) : Continues(units, i)
    BY <2>1, LenProperties DEF Sound, Fine
  <2>3. Committed(units) = Upto(units, Len(units)) /\ Upto(units, Len(units)) = units
    BY <2>2, CommittedIs, UptoIs
  <2> QED
    BY <2>1, <2>3
<1> QED
  BY <1>1, <1>2
-----------------------------------------------------------------------------
(***************************************************************************)
(* The steps.                                                              *)
(***************************************************************************)
\* The initial state: no file and an empty session.
LEMMA InitFile == ASSUME Init PROVE IInv
<1>1. Numbered(<<>>) /\ Sound(<<>>) /\ Shape(<<>>) /\ Len(<<>>) = 0
  BY DEF Numbered, Sound, Shape
<1>2. Events(<<>>) = <<>> /\ <<>> \in Seq(Entries) /\ <<>> \in Seq(Units)
  BY EventsEmpty
<1>3. Upto(<<>>, 0) = <<>>
  BY SubSeqEmpty DEF Upto
<1>4. Typed
  BY <1>1, <1>2 DEF Init, Typed, SystemCalls
<1>5. Placed /\ Counted
  BY <1>1, <1>2, <1>3 DEF Init, Placed, Counted, First, Holding, Appending
<1>6. IsPrefix(<<>>, <<>>)
  BY <1>1 DEF IsPrefix
<1>7. Safe(0)
  BY <1>1, <1>2, <1>3, <1>6 DEF Init, Safe, Holding
<1> QED
  BY <1>4, <1>5, <1>7 DEF IInv, FileInv

\* What was safe stays so while the units it is in stay.
LEMMA SafeMoves ==
  ASSUME Shape(units), NEW n \in Nat, Safe(n), UNCHANGED acked,
         units' \in Seq(Units), synced' \in Seq(Units),
         n <= Len(units'), n <= Len(synced'),
         \A i \in 1 .. n : units'[i] = units[i] /\ synced'[i] = units[i],
         pc' \in Holding => n <= keep'
  PROVE  Safe(n)'
<1>1. /\ units \in Seq(Units) /\ n \in 0 .. Len(units) /\ \A i \in 1 .. n : Fine(units, i)
      /\ IsPrefix(acked, Events(Upto(units, n)))
  BY DEF Shape, Safe
<1> DEFINE file == units'
<1>2. /\ file \in Seq(Units) /\ n <= Len(file) /\ \A i \in 1 .. n : file[i] = units[i]
      /\ Len(file) \in Nat
  BY LenProperties
<1> HIDE DEF file
<1>3. n \in 0 .. Len(file) /\ \A i \in 1 .. n : Fine(file, i)
  <2>1. n \in 0 .. Len(file)
    BY <1>2
  <2>2. \A i \in 1 .. n : units[i] = file[i]
    BY <1>2
  <2>3. \A i \in 1 .. n : Fine(file, i)
    BY <1>1, <2>2, FineSame
  <2> QED
    BY <2>1, <2>3
<1>4. Upto(units, n) = Upto(file, n)
  BY <1>1, <1>2, UptoSame
<1> QED
  BY <1>1, <1>3, <1>4 DEF Safe, file

\* Nothing that is written moves.
LEMMA SafeRests ==
  ASSUME Shape(units), Shape(synced), NEW n \in Nat, Safe(n), UNCHANGED <<units, synced, acked>>,
         pc' \in Holding => n <= keep'
  PROVE  Safe(n)'
BY DEF Safe

\* What was written whole and synced is safe.
LEMMA SafeAll ==
  ASSUME Sound(units), UNCHANGED units, synced' = units, IsPrefix(acked', Events(units)),
         pc' \notin Holding
  PROVE  \E n \in Nat : Safe(n)'
<1>1. Len(units) \in Nat /\ Upto(units, Len(units)) = units
  BY SoundEvents
<1>2. Safe(Len(units))'
  BY <1>1 DEF Safe, Sound
<1> QED
  BY <1>1, <1>2

\* An operation ends without touching the file.
LEMMA ReturnsKeep ==
  ASSUME FileInv, Return, UNCHANGED <<disk, memory, acked, compressed>>,
         status = "live" /\ (cursor # 0 \/ entry = "absent") =>
           Sound(units) /\ Events(units) = Upto(session, cursor)
  PROVE  FileInv'
<1>1. pc' = "idle" /\ batch' = <<>> /\ keep' = 0
  BY DEF Return
<1>2. Typed'
  BY <1>1 DEF FileInv, Typed, disk, memory, SystemCalls
<1>3. Placed'
  BY <1>1 DEF FileInv, Placed, disk, memory, First, Holding
<1>4. Counted'
  BY <1>1 DEF Counted, disk, memory, Appending
<1>5. PICK n \in Nat : Safe(n)
  BY DEF FileInv
<1>6. Safe(n)'
  BY <1>1, <1>5, SafeRests DEF FileInv, Typed, disk, Holding
<1> QED
  BY <1>2, <1>3, <1>4, <1>6 DEF FileInv

\* A longer session, and the same beginning of it.
LEMMA RecordKeeps ==
  ASSUME FileInv, NEW end \in BOOLEAN, Record(end), UNCHANGED compressed
  PROVE  FileInv'
<1> DEFINE e == [seq |-> Len(session) + 1, life |-> life, end |-> end]
<1>1. /\ session \in Seq(Entries) /\ Len(session) \in Nat /\ life \in Nat
      /\ \A i \in 1 .. Len(session) : session[i].seq = i
      /\ batch \in Seq(Entries) /\ Len(batch) \in Nat
  BY LenProperties DEF FileInv, Typed, Numbered
<1>2. e \in Entries /\ e.seq = Len(session) + 1
  BY <1>1 DEF Entries
<1> HIDE DEF e
<1>3. session' = Append(session, e)
  BY DEF Record, e
<1>4. /\ session' \in Seq(Entries) /\ Len(session') = Len(session) + 1
      /\ \A i \in 1 .. Len(session) : session'[i] = session[i]
      /\ session'[Len(session) + 1] = e
  BY <1>1, <1>2, <1>3, AppendProperties
<1>5. Numbered(session')
  <2>1. \A i \in 1 .. Len(session') : i \in 1 .. Len(session) \/ i = Len(session) + 1
    BY <1>1, <1>4
  <2> QED
    BY <1>1, <1>2, <1>4, <2>1 DEF Numbered
<1>6. ASSUME NEW k \in Nat, k <= Len(session) PROVE Upto(session', k) = Upto(session, k)
  <2>1. k \in 0 .. Len(session) /\ k <= Len(session') /\ \A i \in 1 .. k : i \in 1 .. Len(session)
    BY <1>1, <1>4, <1>6
  <2> DEFINE t == session'
  <2>2. t \in Seq(Entries) /\ k <= Len(t) /\ \A i \in 1 .. k : session[i] = t[i]
    BY <1>4, <2>1
  <2> HIDE DEF t
  <2>3. Upto(session, k) = Upto(t, k)
    BY <1>1, <2>1, <2>2, UptoSame
  <2> QED
    BY <2>3 DEF t
<1>7. ASSUME NEW k \in Nat, NEW j \in Nat, k + j <= Len(session)
      PROVE  SubSeq(session', k + 1, k + j) = SubSeq(session, k + 1, k + j)
  <2>1. /\ k + 1 \in Int /\ k + j \in Int
        /\ \A i \in (k + 1) .. (k + j) : i \in 1 .. Len(session)
        /\ IF k + 1 <= k + j THEN (k + j) - (k + 1) + 1 = j ELSE j = 0
    BY <1>1, <1>7
  <2>2. \A i \in (k + 1) .. (k + j) : session[i] \in Entries /\ session'[i] \in Entries
    BY <1>1, <1>4, <2>1, ElementOfSeq
  <2> DEFINE a == SubSeq(session, k + 1, k + j)
             b == SubSeq(session', k + 1, k + j)
  <2>3. /\ a \in Seq(Entries) /\ Len(a) = j
        /\ \A i \in 1 .. ((k + j) - (k + 1) + 1) : a[i] = session[(k + 1) + i - 1]
    BY <2>1, <2>2, SubSeqProperties
  <2>4. /\ b \in Seq(Entries) /\ Len(b) = j
        /\ \A i \in 1 .. ((k + j) - (k + 1) + 1) : b[i] = session'[(k + 1) + i - 1]
    BY <2>1, <2>2, SubSeqProperties
  <2> HIDE DEF a, b
  <2>5. ASSUME NEW i \in 1 .. j PROVE a[i] = b[i]
    <3>1. /\ i \in 1 .. ((k + j) - (k + 1) + 1)
          /\ (k + 1) + i - 1 \in 1 .. Len(session)
      BY <1>1, <1>7
    <3> QED
      BY <1>4, <2>3, <2>4, <3>1
  <2>6. a = b
    BY <2>3, <2>4, <2>5, SeqEqual
  <2> QED
    BY <2>6 DEF a, b
<1>8. /\ UNCHANGED <<entry, units, synced, life, status, cursor, pc, batch, keep, acked>>
      /\ cursor \in 0 .. Len(session) /\ cursor \in Nat
  BY DEF Record, disk, work, FileInv, Typed
<1>9. Typed'
  <2>1. cursor \in 0 .. Len(session')
    BY <1>1, <1>4, <1>8
  <2> QED
    BY <1>5, <1>8, <2>1 DEF FileInv, Typed
<1>10. Placed'
  <2>1. pc \in First => /\ Len(batch) <= Len(session')
                        /\ batch = Upto(session', Len(batch))
    BY <1>1, <1>4, <1>6 DEF FileInv, Placed
  <2>2. encode(batch)' = encode(batch)
    BY <1>8 DEF encode
  <2> QED
    BY <1>8, <2>1, <2>2 DEF FileInv, Placed
<1>11. Counted'
  <2>1. Upto(session', cursor) = Upto(session, cursor)
    BY <1>1, <1>6, <1>8
  <2>2. cursor + Len(batch) <= Len(session) =>
          /\ SubSeq(session', cursor + 1, cursor + Len(batch))
               = SubSeq(session, cursor + 1, cursor + Len(batch))
          /\ cursor + Len(batch) <= Len(session')
    BY <1>1, <1>4, <1>7, <1>8, SMTT(60)
  <2> QED
    BY <1>8, <2>1, <2>2 DEF FileInv, Counted
<1>12. PICK n \in Nat : Safe(n)
  BY DEF FileInv
<1>13. Safe(n)'
  BY <1>8, <1>12 DEF Safe
<1> QED
  BY <1>9, <1>10, <1>11, <1>13 DEF FileInv

\* The events a live session retains follow those that are counted.
LEMMA SessionSlice ==
  ASSUME Numbered(session), NEW k \in Nat, NEW j \in Nat, k + j <= Len(session)
  PROVE  /\ SubSeq(session, k + 1, k + j) \in Seq(Entries)
         /\ Len(SubSeq(session, k + 1, k + j)) = j
         /\ j # 0 => Follows(SubSeq(session, k + 1, k + j), k)
         /\ Upto(session, k) \o SubSeq(session, k + 1, k + j) = Upto(session, k + j)
         /\ Len(Upto(session, k)) = k /\ Upto(session, k + j) \in Seq(Entries)
         /\ IsPrefix(Upto(session, k), session)
<1>1. /\ session \in Seq(Entries) /\ Len(session) \in Nat
      /\ \A i \in 1 .. Len(session) : session[i].seq = i
  BY LenProperties DEF Numbered
<1>2. /\ k + 1 \in Int /\ k + j \in Int
      /\ \A i \in (k + 1) .. (k + j) : i \in 1 .. Len(session)
      /\ IF k + 1 <= k + j THEN (k + j) - (k + 1) + 1 = j ELSE j = 0
  BY <1>1
<1>3. \A i \in (k + 1) .. (k + j) : session[i] \in Entries
  BY <1>1, <1>2, ElementOfSeq
<1> DEFINE a == SubSeq(session, k + 1, k + j)
<1>4. /\ a \in Seq(Entries) /\ Len(a) = j
      /\ \A i \in 1 .. ((k + j) - (k + 1) + 1) : a[i] = session[(k + 1) + i - 1]
  BY <1>2, <1>3, SubSeqProperties
<1> HIDE DEF a
<1>5. ASSUME NEW i \in 1 .. j PROVE a[i].seq = k + i
  <2>1. /\ i \in 1 .. ((k + j) - (k + 1) + 1) /\ (k + 1) + i - 1 \in 1 .. Len(session)
        /\ (k + 1) + i - 1 = k + i
    BY <1>1
  <2> QED
    BY <1>1, <1>4, <2>1
<1>6. j # 0 => Follows(a, k)
  <2> SUFFICES ASSUME j # 0 PROVE Follows(a, k)
    OBVIOUS
  <2>1. 1 \in 1 .. j
    OBVIOUS
  <2>2. a[1].seq = k + 1
    BY <1>5, <2>1
  <2>3. \A i \in 1 .. Len(a) : a[i].seq = a[1].seq + (i - 1)
    BY <1>4, <1>5, <2>2
  <2> QED
    BY <1>4, <2>2, <2>3 DEF Follows, Block
<1>7. Upto(session, k) \o a = Upto(session, k + j)
  <2>1. 1 \in 1 .. (Len(session) + 1) /\ k \in 0 .. Len(session) /\ k + j \in k .. Len(session)
    BY <1>1
  <2> QED
    BY <1>1, <2>1, ConcatAdjacentSubSeq DEF Upto, a
<1>8. k \in 0 .. Len(session) /\ k + j \in 0 .. Len(session)
  BY <1>1
<1>9. /\ Len(Upto(session, k)) = k /\ Upto(session, k + j) \in Seq(Entries)
      /\ Upto(session, k) \in Seq(Entries)
      /\ \A i \in 1 .. k : Upto(session, k)[i] = session[i]
  BY <1>1, <1>8, UptoIs
<1>10. IsPrefix(Upto(session, k), session)
  <2> DEFINE u == Upto(session, k)
  <2>1. u \in Seq(Entries) /\ Len(u) <= Len(session) /\ \A i \in 1 .. Len(u) : u[i] = session[i]
    BY <1>8, <1>9
  <2> HIDE DEF u
  <2>2. IsPrefix(u, session)
    BY <1>1, <2>1, PrefixIff
  <2> QED
    BY <2>2 DEF u
<1> QED
  BY <1>4, <1>6, <1>7, <1>9, <1>10 DEF a

\* appendBatch takes all that is retained.
LEMMA AppendBatchKeeps ==
  ASSUME FileInv, appendBatch, UNCHANGED compressed
  PROVE  FileInv'
<1>1. /\ Numbered(session) /\ Len(session) \in Nat /\ cursor \in Nat
      /\ cursor < Len(session) /\ status = "live" /\ pc = "idle" /\ keep \in Nat
  BY LenProperties DEF FileInv, Typed, Numbered, appendBatch
<1> DEFINE j == Len(session) - cursor
           b == SubSeq(session, cursor + 1, Len(session))
<1>2. j \in Nat /\ j # 0 /\ cursor + j = Len(session) /\ cursor + j <= Len(session)
  BY <1>1
<1> HIDE DEF j
<1> DEFINE s == SubSeq(session, cursor + 1, cursor + j)
<1>11. /\ s \in Seq(Entries) /\ Len(s) = j /\ Follows(s, cursor)
       /\ Len(Upto(session, cursor)) = cursor
  BY <1>1, <1>2, SessionSlice
<1>12. b = s /\ s = SubSeq(session, cursor + 1, cursor + j)
  BY <1>2
<1> HIDE DEF s
<1>3. /\ b \in Seq(Entries) /\ Len(b) = j /\ Follows(b, cursor)
      /\ b = SubSeq(session, cursor + 1, cursor + Len(b))
      /\ Len(Upto(session, cursor)) = cursor
  BY <1>11, <1>12
<1> HIDE DEF b
<1>4. /\ pc' = (IF cursor = 0 THEN "exists" ELSE "open") /\ batch' = b
      /\ UNCHANGED <<entry, units, synced, session, life, status, cursor, keep, acked>>
  BY DEF appendBatch, b, disk, memory
<1>5. Typed'
  BY <1>3, <1>4 DEF FileInv, Typed, SystemCalls
<1>6. Counted'
  <2>1. pc' = "open" => /\ cursor # 0 /\ Events(units) = Upto(session, cursor)
    BY <1>1, <1>4 DEF FileInv, Counted
  <2>2. cursor + Len(b) <= Len(session)
    BY <1>2, <1>3
  <2> QED
    BY <1>3, <1>4, <2>1, <2>2 DEF Counted, Appending
<1>7. Placed'
  <2>1. CASE cursor = 0
    <3>1. pc' = "exists"
      BY <1>4, <2>1
    <3>2. b = Upto(session, Len(b)) /\ Len(b) <= Len(session) /\ Follows(b, 0)
      BY <1>2, <1>3, <2>1 DEF Upto
    <3> QED
      BY <1>1, <1>4, <2>1, <3>1, <3>2 DEF FileInv, Placed, First, Holding
  <2>2. CASE cursor # 0
    <3>1. pc' = "open" /\ Sound(units) /\ Len(Events(units)) = cursor
      BY <1>1, <1>3, <1>4, <2>2 DEF FileInv, Counted
    <3>2. entry # "absent"
      <4> SUFFICES ASSUME entry = "absent" PROVE FALSE
        OBVIOUS
      <4>1. units = <<>> /\ Len(<<>>) = 0
        BY DEF FileInv, Placed
      <4> QED
        BY <2>2, <3>1, <4>1, EventsEmpty
    <3> QED
      BY <1>3, <1>4, <3>1, <3>2 DEF FileInv, Placed, First, Holding
  <2> QED
    BY <2>1, <2>2
<1>8. PICK n \in Nat : Safe(n)
  BY DEF FileInv
<1>9. Safe(n)'
  BY <1>4, <1>8, SafeRests DEF FileInv, Typed, Holding
<1> QED
  BY <1>5, <1>6, <1>7, <1>9 DEF FileInv

\* The first write up to the link, and every failure before bytes are written.
LEMMA FirstKeeps ==
  ASSUME FileInv, rejectExistingLog \/ writeSyncedTempFile, UNCHANGED compressed
  PROVE  FileInv'
<1>1. pc \in First /\ status = "live" /\ cursor = 0 /\ Typed
  BY DEF FileInv, Placed, First, rejectExistingLog, writeSyncedTempFile
<1>2. UNCHANGED <<disk, memory, acked>>
  BY DEF rejectExistingLog, writeSyncedTempFile, Fails
<1>3. CASE Return
  <2>1. entry = "absent" => Sound(units) /\ Events(units) = Upto(session, cursor)
    <3> SUFFICES ASSUME entry = "absent"
                 PROVE  Sound(units) /\ Events(units) = Upto(session, cursor)
      OBVIOUS
    <3>1. units = <<>>
      BY DEF FileInv, Placed
    <3>2. Sound(<<>>) /\ Events(<<>>) = <<>>
      BY EventsEmpty DEF Sound
    <3>3. Upto(session, 0) = <<>>
      BY SubSeqEmpty DEF Upto
    <3> QED
      BY <1>1, <3>1, <3>2, <3>3
  <2> QED
    BY <1>1, <1>2, <1>3, <2>1, ReturnsKeep
<1>4. ASSUME NEW call \in {"temp", "link"}, Calls(call), entry = "absent" PROVE FileInv'
  <2>1. /\ pc' = call
        /\ UNCHANGED <<entry, units, synced, session, life, status, cursor, batch, keep, acked>>
    BY <1>2, <1>4 DEF Calls, disk, memory
  <2>2. Typed'
    BY <2>1 DEF FileInv, Typed, SystemCalls
  <2>3. Placed'
    BY <1>1, <1>4, <2>1 DEF FileInv, Placed, First, Holding
  <2>4. Counted'
    BY <2>1 DEF Counted, Appending
  <2>5. PICK n \in Nat : Safe(n)
    BY DEF FileInv
  <2>6. Safe(n)'
    BY <2>1, <2>5, SafeRests DEF FileInv, Typed, Holding
  <2> QED
    BY <2>2, <2>3, <2>4, <2>6 DEF FileInv
<1>5. CASE Calls("temp") /\ entry = "absent" /\ rejectExistingLog
  BY <1>4, <1>5
<1>6. CASE Calls("link") /\ writeSyncedTempFile
  <2>1. entry = "absent"
    BY <1>6 DEF writeSyncedTempFile, FileInv, Placed
  <2> QED
    BY <1>4, <1>6, <2>1
<1> QED
  BY <1>3, <1>5, <1>6 DEF rejectExistingLog, writeSyncedTempFile, Fails

\* The first file appears with all it holds, synced.
LEMMA LinkKeeps ==
  ASSUME FileInv, link, UNCHANGED compressed
  PROVE  FileInv'
<1>1. /\ pc = "link" /\ status = "live" /\ cursor = 0 /\ entry = "absent" /\ units = <<>>
      /\ Follows(batch, 0) /\ Len(batch) <= Len(session) /\ batch = Upto(session, Len(batch))
      /\ batch \in Seq(Entries)
  BY DEF FileInv, Typed, Placed, First, link
<1>2. Sound(<<>>) /\ Events(<<>>) = <<>> /\ Len(<<>>) = 0 /\ Upto(session, 0) = <<>>
  BY EventsEmpty, SubSeqEmpty DEF Sound, Upto
<1>3. CASE Fails
  BY <1>1, <1>2, <1>3, ReturnsKeep DEF Fails
<1>4. CASE Calls("dirSync") /\ entry' = "published" /\ units' = encode(batch) /\ synced' = units'
           /\ UNCHANGED <<memory, acked>>
  <2> DEFINE g == encode(batch)
  <2>1. /\ Sound(<<>> \o g) /\ Events(<<>> \o g) = Events(<<>>) \o batch /\ g \in Seq(Units)
    BY <1>1, <1>2, EncodeSound
  <2> HIDE DEF g
  <2>2. <<>> \o g = g /\ <<>> \o batch = batch
    BY <1>1, <2>1, ConcatEmptySeq
  <2>3. Sound(g) /\ Events(g) = batch /\ Shape(g)
    BY <1>2, <2>1, <2>2, SoundEvents
  <2>4. /\ units' = g /\ synced' = g /\ pc' = "dirSync" /\ entry' = "published"
        /\ UNCHANGED <<session, life, status, cursor, batch, keep, acked>>
    BY <1>4 DEF Calls, memory, g
  <2>5. Typed'
    BY <2>3, <2>4 DEF FileInv, Typed, SystemCalls
  <2>6. Placed'
    BY <1>1, <2>3, <2>4 DEF Placed, First, Holding
  <2>7. Counted'
    BY <2>4 DEF Counted, Appending
  <2>8. PICK n \in Nat : Safe(n)
    BY DEF FileInv
  <2>9. n = 0
    BY <1>1, <1>2, <2>8 DEF Safe
  <2>10. Len(g) \in Nat
    BY <2>1, LenProperties
  <2>11. /\ units' \in Seq(Units) /\ synced' \in Seq(Units) /\ n <= Len(units')
         /\ n <= Len(synced') /\ pc' \notin Holding /\ Shape(units)
         /\ \A i \in 1 .. n : units'[i] = units[i] /\ synced'[i] = units[i]
    BY <2>1, <2>4, <2>9, <2>10 DEF Holding, FileInv, Typed
  <2>12. Safe(n)'
    BY <2>4, <2>8, <2>11, SafeMoves
  <2> QED
    BY <2>5, <2>6, <2>7, <2>12 DEF FileInv
<1> QED
  BY <1>3, <1>4 DEF link

\* An acknowledged operation: all of the file is whole and synced.
LEMMA AcknowledgeKeeps ==
  ASSUME FileInv, Acknowledge, Sound(units), UNCHANGED <<units, compressed>>,
         synced' = units, entry' = "absent" => units = <<>>,
         status = "live" => /\ cursor + Len(batch) <= Len(session)
                            /\ Events(units) = Upto(session, cursor + Len(batch))
  PROVE  FileInv'
<1>1. /\ pc' = "idle" /\ batch' = <<>> /\ keep' = 0 /\ UNCHANGED <<session, life, status>>
      /\ IF status = "live"
         THEN cursor' = cursor + Len(batch) /\ acked' = Upto(session, cursor')
         ELSE acked' = Events(units) /\ UNCHANGED cursor
  BY DEF Acknowledge, Return, Upto
<1>2. /\ Numbered(session) /\ Len(session) \in Nat /\ cursor \in Nat /\ Len(batch) \in Nat
      /\ Events(units) \in Seq(Entries) /\ Shape(units)
  BY LenProperties, SoundEvents DEF FileInv, Typed, Numbered
<1>3. acked' = Events(units)
  BY <1>1
<1>4. cursor' \in 0 .. Len(session)
  BY <1>1, <1>2 DEF FileInv, Typed
<1>5. Typed'
  BY <1>1, <1>2, <1>3, <1>4 DEF FileInv, Typed, SystemCalls
<1>6. Placed'
  BY <1>1 DEF Placed, First, Holding
<1>7. Counted'
  BY <1>1 DEF Counted, Appending
<1>8. IsPrefix(acked', Events(units))
  BY <1>3 DEF IsPrefix
<1>9. \E n \in Nat : Safe(n)'
  BY <1>1, <1>8, SafeAll DEF Holding
<1> QED
  BY <1>5, <1>6, <1>7, <1>9 DEF FileInv

\* The name of a first file is synced, or the append fails and the session
\* forgets about the file it has published.
LEMMA SyncDirKeeps ==
  ASSUME FileInv, syncDirPosix, UNCHANGED compressed
  PROVE  FileInv'
<1>1. /\ pc = "dirSync" /\ status = "live" /\ cursor = 0 /\ Len(batch) <= Len(session)
      /\ batch = Upto(session, Len(batch)) /\ entry # "absent" /\ synced = units
      /\ Sound(units) /\ Events(units) = batch /\ Len(batch) \in Nat
  BY LenProperties DEF FileInv, Typed, Placed, First, syncDirPosix
<1>2. CASE Fails
  BY <1>1, <1>2, ReturnsKeep DEF Fails
<1>3. CASE entry' = "durable" /\ Acknowledge /\ UNCHANGED <<units, synced>>
  <2>1. cursor + Len(batch) = Len(batch)
    BY <1>1
  <2> QED
    BY <1>1, <1>3, <2>1, AcknowledgeKeeps
<1> QED
  BY <1>2, <1>3 DEF syncDirPosix

\* A file that an append has open begins with what it held before.
LEMMA OpenKeeps ==
  ASSUME FileInv, open, UNCHANGED compressed
  PROVE  FileInv'
<1>1. /\ pc = "open" /\ Sound(units) /\ Follows(batch, Len(Events(units)))
      /\ entry # "absent" /\ Len(units) \in Nat /\ Upto(units, Len(units)) = units
      /\ status = "live" => Events(units) = Upto(session, cursor)
  BY SoundEvents DEF FileInv, Placed, Counted, open
<1>2. CASE Fails
  BY <1>1, <1>2, ReturnsKeep DEF Fails
<1>3. CASE pc' = "write" /\ keep' = Len(units) /\ UNCHANGED batch /\ UNCHANGED <<disk, memory, acked>>
  <2>1. UNCHANGED <<entry, units, synced, session, life, status, cursor, batch, acked>>
    BY <1>3 DEF disk, memory
  <2>2. Typed'
    BY <1>1, <1>3, <2>1 DEF FileInv, Typed, SystemCalls
  <2>3. Placed'
    BY <1>1, <1>3, <2>1 DEF FileInv, Placed, First, Holding
  <2>4. Counted'
    BY <1>1, <1>3, <2>1 DEF FileInv, Counted, Appending
  <2>5. PICK n \in Nat : Safe(n)
    BY DEF FileInv
  <2>6. n <= keep'
    BY <1>1, <1>3, <2>5 DEF Safe
  <2>7. Safe(n)'
    BY <2>1, <2>5, <2>6, SafeRests DEF FileInv, Typed
  <2> QED
    BY <2>2, <2>3, <2>4, <2>7 DEF FileInv
<1> QED
  BY <1>2, <1>3 DEF open

\* The file an append has begun, and the file it makes of it.
LEMMA Begun ==
  ASSUME FileInv, pc \in Appending
  PROVE  /\ keep \in 0 .. Len(units) /\ keep \in Nat /\ units \in Seq(Units)
         /\ Upto(units, keep) \in Seq(Units)
         /\ Sound(Upto(units, keep)) /\ Len(Upto(units, keep)) = keep
         /\ \A i \in 1 .. keep : Upto(units, keep)[i] = units[i]
         /\ Follows(batch, Len(Events(Upto(units, keep))))
         /\ encode(batch) \in Seq(Units)
         /\ Sound(Upto(units, keep) \o encode(batch))
         /\ Events(Upto(units, keep) \o encode(batch)) = Events(Upto(units, keep)) \o batch
         /\ entry # "absent"
<1>1. /\ units \in Seq(Units) /\ Len(units) \in Nat /\ keep \in Nat /\ keep <= Len(units)
      /\ Sound(Upto(units, keep)) /\ Follows(batch, Len(Events(Upto(units, keep))))
      /\ entry # "absent"
  BY LenProperties DEF FileInv, Typed, Shape, Placed, Holding, Appending
<1>2. keep \in 0 .. Len(units)
  BY <1>1
<1>3. /\ Upto(units, keep) \in Seq(Units) /\ Len(Upto(units, keep)) = keep
      /\ \A i \in 1 .. keep : Upto(units, keep)[i] = units[i]
  BY <1>1, <1>2, UptoIs
<1> DEFINE base == Upto(units, keep)
<1>4. Sound(base) /\ Follows(batch, Len(Events(base)))
  BY <1>1
<1> HIDE DEF base
<1>5. /\ encode(batch) \in Seq(Units) /\ Sound(base \o encode(batch))
      /\ Events(base \o encode(batch)) = Events(base) \o batch
  BY <1>4, EncodeSound
<1> QED
  BY <1>1, <1>2, <1>3, <1>5 DEF base

\* Bytes arrive behind those that were there.
LEMMA WriteKeeps ==
  ASSUME FileInv, writeFile, UNCHANGED compressed
  PROVE  FileInv'
<1> DEFINE base == Upto(units, keep)
           full == base \o encode(batch)
<1>1. /\ keep \in 0 .. Len(units) /\ keep \in Nat /\ units \in Seq(Units)
      /\ base \in Seq(Units) /\ Sound(base) /\ Len(base) = keep
      /\ \A i \in 1 .. keep : base[i] = units[i]
      /\ Follows(batch, Len(Events(base)))
      /\ encode(batch) \in Seq(Units) /\ Sound(full) /\ entry # "absent"
  BY Begun DEF writeFile, Appending
<1>2. /\ full \in Seq(Units) /\ keep \in 0 .. Len(full)
      /\ \A i \in 1 .. keep : full[i] = base[i]
  <2> DEFINE e == encode(batch)
  <2>1. Len(e) \in Nat /\ e \in Seq(Units)
    BY <1>1, LenProperties
  <2> HIDE DEF e, base
  <2>2. /\ base \o e \in Seq(Units) /\ Len(base \o e) = keep + Len(e)
        /\ \A i \in 1 .. keep + Len(e) : (base \o e)[i] = IF i <= keep THEN base[i] ELSE e[i - keep]
    BY <1>1, <2>1, ConcatProperties
  <2> HIDE DEF full
  <2>3. keep \in 0 .. Len(base \o e) /\ \A i \in 1 .. keep : (base \o e)[i] = base[i]
    BY <1>1, <2>1, <2>2
  <2> QED
    BY <2>2, <2>3 DEF full, e
<1>3. Shape(full)
  BY <1>1, SoundEvents
<1>4. /\ \/ pc' = "write" /\ units' \in Cuts(full, keep)
         \/ pc' = "sync" /\ units' = full
      /\ UNCHANGED <<entry, synced, session, life, status, cursor, batch, keep, acked>>
      /\ pc = "write"
  BY DEF writeFile, Calls, memory, Upto
<1> HIDE DEF base, full
<1> DEFINE file == units'
<1>5. Shape(file) /\ keep <= Len(file) /\ \A i \in 1 .. keep : file[i] = full[i]
  <2>1. CASE pc' = "write" /\ units' \in Cuts(full, keep)
    <3>1. file \in Cuts(full, keep)
      BY <2>1
    <3> HIDE DEF file
    <3> QED
      BY <1>2, <1>3, <3>1, CutsShape
  <2>2. CASE units' = full
    BY <1>2, <1>3, <2>2
  <2> QED
    BY <1>4, <2>1, <2>2
<1>6. file = units' /\ file \in Seq(Units) /\ Len(file) \in Nat
  BY <1>5, LenProperties DEF Shape
<1> HIDE DEF file
<1>7. \A i \in 1 .. keep : file[i] = units[i]
  BY <1>1, <1>2, <1>5
<1>8. Upto(file, keep) = base
  <2>1. Upto(units, keep) = Upto(file, keep)
    BY <1>1, <1>5, <1>6, <1>7, UptoSame
  <2> QED
    BY <2>1 DEF base
<1>9. encode(batch)' = encode(batch)
  BY <1>4 DEF encode
<1>10. Typed'
  BY <1>4, <1>5, <1>6 DEF FileInv, Typed, SystemCalls
<1>11. Placed'
  BY <1>1, <1>4, <1>5, <1>6, <1>8, <1>9 DEF Placed, First, Holding, full
<1>12. Counted'
  <2>1. status = "live" =>
          /\ Events(base) = Upto(session, cursor)
          /\ cursor # 0 /\ cursor + Len(batch) <= Len(session)
          /\ batch = SubSeq(session, cursor + 1, cursor + Len(batch))
    BY <1>4 DEF FileInv, Counted, Appending, base
  <2> QED
    BY <1>4, <1>6, <1>8, <2>1 DEF Counted, Appending
<1>13. PICK n \in Nat : Safe(n)
  BY DEF FileInv
<1>14. /\ n <= keep /\ n <= Len(synced) /\ Shape(units) /\ synced \in Seq(Units)
       /\ \A i \in 1 .. n : units[i] = synced[i]
  BY <1>4, <1>13 DEF Safe, Holding, FileInv, Typed, Shape
<1>15. n <= Len(file) /\ \A i \in 1 .. n : i \in 1 .. keep
  BY <1>1, <1>5, <1>6, <1>14
<1>16. \A i \in 1 .. n : units'[i] = units[i] /\ synced'[i] = units[i]
  BY <1>4, <1>6, <1>7, <1>14, <1>15
<1>17. Safe(n)'
  BY <1>4, <1>6, <1>13, <1>14, <1>15, <1>16, SafeMoves
<1> QED
  BY <1>10, <1>11, <1>12, <1>17 DEF FileInv

\* A sync acknowledges the append.
LEMMA SyncKeeps ==
  ASSUME FileInv, sync, UNCHANGED compressed
  PROVE  FileInv'
<1> DEFINE base == Upto(units, keep)
<1>1. /\ pc = "sync" /\ units = base \o encode(batch) /\ Sound(base \o encode(batch))
      /\ Events(base \o encode(batch)) = Events(base) \o batch /\ entry # "absent"
  BY Begun DEF sync, Appending, FileInv, Placed
<1>2. Sound(units) /\ Events(units) = Events(base) \o batch
  BY <1>1
<1>3. status = "live" => /\ cursor + Len(batch) <= Len(session)
                         /\ Events(units) = Upto(session, cursor + Len(batch))
  <2> SUFFICES ASSUME status = "live"
               PROVE  /\ cursor + Len(batch) <= Len(session)
                      /\ Events(units) = Upto(session, cursor + Len(batch))
    OBVIOUS
  <2>1. /\ Events(base) = Upto(session, cursor) /\ cursor + Len(batch) <= Len(session)
        /\ batch = SubSeq(session, cursor + 1, cursor + Len(batch))
        /\ Numbered(session) /\ cursor \in Nat /\ Len(batch) \in Nat
    BY <1>1, LenProperties DEF FileInv, Typed, Counted, Appending
  <2>2. Upto(session, cursor) \o SubSeq(session, cursor + 1, cursor + Len(batch))
          = Upto(session, cursor + Len(batch))
    BY <2>1, SessionSlice
  <2> QED
    BY <1>2, <2>1, <2>2
<1> HIDE DEF base
<1> QED
  BY <1>1, <1>2, <1>3, AcknowledgeKeeps DEF sync

\* A repair whose handle does not close has written and synced all of its
\* lines, and acknowledges none.
LEMMA CloseFailsKeeps ==
  ASSUME FileInv, closeFails, status # "live", UNCHANGED compressed
  PROVE  FileInv'
<1> DEFINE base == Upto(units, keep)
<1>1. /\ pc = "sync" /\ units = base \o encode(batch) /\ Sound(base \o encode(batch))
      /\ entry # "absent"
  BY Begun DEF closeFails, Appending, FileInv, Placed
<1>2. Sound(units)
  BY <1>1
<1> HIDE DEF base
<1>3. /\ pc' = "idle" /\ batch' = <<>> /\ keep' = 0 /\ synced' = units
      /\ UNCHANGED <<entry, units, session, life, status, cursor, acked>>
  BY DEF closeFails, LeavesBehind, Return, memory
<1>4. Shape(units) /\ units \in Seq(Units)
  BY DEF FileInv, Typed, Shape
<1>5. Typed'
  BY <1>3, <1>4 DEF FileInv, Typed, SystemCalls
<1>6. Placed'
  BY <1>1, <1>3 DEF Placed, First, Holding
<1>7. Counted'
  BY <1>3 DEF Counted
<1>8. PICK n \in Nat : Safe(n)
  BY DEF FileInv
<1>9. n <= Len(units) /\ pc' \notin Holding
  <2>1. n \in 0 .. Len(units) /\ Len(units) \in Nat
    BY <1>4, <1>8, LenProperties DEF Safe
  <2> QED
    BY <1>3, <2>1 DEF Holding
<1>10. Safe(n)'
  BY <1>3, <1>4, <1>8, <1>9, SafeMoves
<1> QED
  BY <1>5, <1>6, <1>7, <1>10 DEF FileInv

\* A failed write is rolled back.
LEMMA WriteFailsKeeps ==
  ASSUME FileInv, writeFails, UNCHANGED compressed
  PROVE  FileInv'
<1>1. /\ pc \in {"write", "sync"} /\ pc' = "rollback"
      /\ UNCHANGED <<entry, units, synced, session, life, status, cursor, batch, keep, acked>>
  BY DEF writeFails, Calls, disk, memory
<1>2. Typed'
  BY <1>1 DEF FileInv, Typed, SystemCalls
<1>3. Placed'
  BY <1>1 DEF FileInv, Placed, First, Holding
<1>4. Counted'
  BY <1>1 DEF FileInv, Counted, Appending
<1>5. PICK n \in Nat : Safe(n)
  BY DEF FileInv
<1>6. Safe(n)'
  BY <1>1, <1>5, SafeRests DEF FileInv, Typed, Safe, Holding
<1> QED
  BY <1>2, <1>3, <1>4, <1>6 DEF FileInv

\* Cutting the file to the kept length: a rollback or a repair.
LEMMA CutKeeps ==
  ASSUME FileInv, NEW call, Calls(call), units' = SubSeq(units, 1, keep),
         \/ pc = "rollback" /\ call = "rollSync"
         \/ pc = "truncate" /\ call = "truncSync",
         UNCHANGED <<entry, synced, memory, acked, compressed>>
  PROVE  FileInv'
<1> DEFINE base == Upto(units, keep)
<1>1. /\ pc' = call /\ units' = base /\ pc \in Holding /\ call \in Holding /\ call \in SystemCalls
      /\ UNCHANGED <<entry, synced, session, life, status, cursor, batch, keep, acked>>
  BY DEF Calls, Upto, memory, Holding, SystemCalls
<1>2. /\ units \in Seq(Units) /\ Len(units) \in Nat /\ keep \in Nat /\ keep <= Len(units)
      /\ Sound(base) /\ entry # "absent"
      /\ \/ Follows(batch, Len(Events(base)))
         \/ call = "truncSync" /\ batch = <<>>
  BY <1>1, LenProperties DEF FileInv, Typed, Shape, Placed, Holding
<1>3. keep \in 0 .. Len(units)
  BY <1>2
<1>4. base \in Seq(Units) /\ Len(base) = keep /\ \A i \in 1 .. keep : base[i] = units[i]
  BY <1>2, <1>3, UptoIs
<1>5. Upto(base, keep) = base /\ Shape(base)
  BY <1>2, <1>4, SoundEvents
<1>6. status = "live" /\ call = "rollSync" =>
        /\ Events(base) = Upto(session, cursor)
        /\ cursor # 0 /\ cursor + Len(batch) <= Len(session)
        /\ batch = SubSeq(session, cursor + 1, cursor + Len(batch))
  BY DEF FileInv, Counted, Appending
<1>7. call = "truncSync" => status = "cold"
  BY DEF FileInv, Placed
<1> HIDE DEF base
<1>8. Typed'
  BY <1>1, <1>5 DEF FileInv, Typed
<1>9. Placed'
  <2>1. call \notin First /\ call \notin {"idle", "open", "sync"}
    BY DEF First
  <2>2. pc' \in Holding => /\ keep' <= Len(units') /\ Sound(Upto(units, keep)')
                           /\ \/ Follows(batch, Len(Events(Upto(units, keep))))'
                              \/ pc' \in {"truncate", "truncSync"} /\ batch' = <<>>
    <3>1. keep <= Len(base)
      BY <1>2, <1>4
    <3> QED
      BY <1>1, <1>2, <1>5, <3>1
  <2>3. units' = Upto(units, keep)'
    BY <1>1, <1>5
  <2> QED
    BY <1>1, <1>2, <1>7, <2>1, <2>2, <2>3 DEF Placed, First
<1>10. Counted'
  BY <1>1, <1>5, <1>6, <1>7 DEF Counted, Appending
<1>11. PICK n \in Nat : Safe(n)
  BY DEF FileInv
<1>12. /\ n <= keep /\ n <= Len(synced) /\ Shape(units) /\ synced \in Seq(Units)
       /\ \A i \in 1 .. n : units[i] = synced[i]
  BY <1>1, <1>11 DEF Safe, FileInv, Typed, Shape
<1>13. \A i \in 1 .. n : i \in 1 .. keep
  BY <1>2, <1>12
<1>14. Safe(n)'
  BY <1>1, <1>4, <1>11, <1>12, <1>13, SafeMoves
<1> QED
  BY <1>8, <1>9, <1>10, <1>14 DEF FileInv

\* The file that was cut is synced, and the operation ends or goes on to
\* append the repair.
LEMMA CutSyncs ==
  ASSUME FileInv, pc \in {"truncSync", "rollSync"}, synced' = units,
         \/ Return /\ (pc = "rollSync" \/ batch = <<>>)
         \/ Calls("open") /\ pc = "truncSync" /\ batch # <<>>,
         UNCHANGED <<entry, units, memory, acked, compressed>>
  PROVE  FileInv'
<1>1. /\ Sound(units) /\ entry # "absent" /\ units = Upto(units, keep)
      /\ batch # <<>> => Follows(batch, Len(Events(units)))
      /\ pc = "truncSync" => status = "cold"
      /\ status = "live" => Events(units) = Upto(session, cursor)
  BY DEF FileInv, Placed, Counted, Holding, Appending
<1>2. /\ UNCHANGED <<entry, units, session, life, status, cursor, acked>>
      /\ \/ pc' = "idle" /\ batch' = <<>> /\ keep' = 0
         \/ /\ pc' = "open" /\ UNCHANGED <<batch, keep>> /\ batch # <<>> /\ status = "cold"
  BY <1>1 DEF Return, Calls, memory
<1>3. Shape(units) /\ Len(units) \in Nat /\ units \in Seq(Units) /\ <<>> \in Seq(Entries)
  BY <1>1, SoundEvents DEF Sound
<1>4. Typed'
  <2>1. batch \in Seq(Entries) /\ keep \in Nat /\ 0 \in Nat
    BY DEF FileInv, Typed
  <2>2. pc' \in SystemCalls
    BY <1>2 DEF SystemCalls
  <2>3. batch' \in Seq(Entries)
    BY <1>2, <1>3, <2>1
  <2>4. keep' \in Nat
    BY <1>2, <2>1
  <2> QED
    BY <1>2, <1>3, <2>2, <2>3, <2>4 DEF FileInv, Typed
<1>5. Placed'
  BY <1>1, <1>2 DEF Placed, First, Holding
<1>6. Counted'
  BY <1>1, <1>2 DEF Counted, Appending
<1>7. PICK n \in Nat : Safe(n)
  BY DEF FileInv
<1>8. n <= Len(units) /\ pc' \notin Holding
  BY <1>2, <1>3, <1>7 DEF Safe, Holding
<1>9. Safe(n)'
  BY <1>2, <1>3, <1>7, <1>8, SafeMoves
<1> QED
  BY <1>4, <1>5, <1>6, <1>9 DEF FileInv

\* What a loader finds, and what it does about it.
LEMMA LoadKeeps ==
  ASSUME FileInv, load, UNCHANGED compressed
  PROVE  FileInv'
<1> DEFINE scan   == scanLog(units)
           repair == scan.recovered \o closers(scan.events)
<1>1. /\ status = "cold" /\ pc = "idle" /\ batch = <<>> /\ life \in Nat
      /\ Shape(units) /\ Shape(synced) /\ acked \in Seq(Entries) /\ batch \in Seq(Entries)
      /\ UNCHANGED <<entry, units, synced, life, acked>>
  BY DEF load, FileInv, Typed, Placed, disk
<1>2. PICK n \in Nat : Safe(n)
  BY DEF FileInv
<1>3. PICK m \in 0 .. Len(units) : Scanned(units, m)
  BY <1>1, ScanIs
<1>4. units \in Seq(Units) /\ Len(units) \in Nat /\ m \in Nat /\ n <= Len(units)
  BY <1>1, <1>2, LenProperties DEF Shape, Safe
<1>5. n <= m
  BY <1>1, <1>2, <1>3, <1>4, SafeScan
<1>6. /\ ~scan.refused /\ scan.keep = m /\ scan.torn = (m # Len(units))
      /\ m = Len(units) => scan.recovered = <<>>
      /\ scan.events = Events(Upto(units, m)) \o scan.recovered
      /\ Sound(Upto(units, m))
  BY <1>3 DEF Scanned
<1>7. /\ repair = <<>> \/ Follows(repair, Len(Events(Upto(units, m))))
      /\ Numbered(scan.events)
  <2> DEFINE r == repair
  <2>1. r = scanLog(units).recovered \o closers(scanLog(units).events)
    OBVIOUS
  <2> HIDE DEF r
  <2>2. /\ r = <<>> \/ Follows(r, Len(Events(Upto(units, m))))
        /\ Numbered(scanLog(units).events)
    BY <1>1, <1>3, <2>1, RepairIs
  <2> QED
    BY <2>2 DEF r
<1>8. m = Len(units) => Upto(units, m) = units
  BY <1>4, UptoIs
<1>9. \/ entry = "absent" /\ Becomes(<<>>) /\ UNCHANGED work
      \/ entry # "absent" /\ m = Len(units) /\ Becomes(scan.events) /\ UNCHANGED work
      \/ /\ entry # "absent" /\ (m = Len(units) => repair # <<>>)
         /\ pc' = (IF m # Len(units) THEN "truncate" ELSE "open")
         /\ batch' = repair /\ keep' = m
         /\ UNCHANGED <<session, cursor, status>>
  BY <1>6 DEF load
<1> HIDE DEF scan, repair
<1>10. CASE entry # "absent" /\ (m = Len(units) => repair # <<>>)
            /\ pc' = (IF m # Len(units) THEN "truncate" ELSE "open")
            /\ batch' = repair /\ keep' = m
            /\ UNCHANGED <<session, cursor, status>>
  <2>1. repair \in Seq(Entries)
    <3>1. <<>> \in Seq(Entries)
      OBVIOUS
    <3> QED
      BY <1>7, <3>1 DEF Follows, Block
  <2>2. Typed'
    BY <1>1, <1>4, <1>10, <2>1 DEF FileInv, Typed, SystemCalls
  <2>3. m <= Len(units)
    OBVIOUS
  <2>4. Placed'
    <3>1. CASE m # Len(units)
      BY <1>1, <1>6, <1>7, <1>10, <2>3, <3>1 DEF Placed, First, Holding
    <3>2. CASE m = Len(units)
      BY <1>1, <1>6, <1>7, <1>8, <1>10, <3>2 DEF Placed, First, Holding
    <3> QED
      BY <3>1, <3>2
  <2>5. Counted'
    BY <1>1, <1>10 DEF Counted
  <2>6. Safe(n)'
    BY <1>1, <1>2, <1>5, <1>10, SafeRests
  <2> QED
    BY <2>2, <2>4, <2>5, <2>6 DEF FileInv
<1>11. ASSUME NEW log, Numbered(log), Becomes(log), UNCHANGED work, Sound(units), Events(units) = log
       PROVE  FileInv'
  <2>1. /\ session' = log /\ cursor' = Len(log) /\ status' = "live"
        /\ UNCHANGED <<pc, batch, keep>>
    BY <1>11 DEF Becomes, work
  <2>2. Len(log) \in Nat /\ Len(log) \in 0 .. Len(log) /\ log \in Seq(Entries)
    BY <1>11, LenProperties DEF Numbered
  <2>3. Upto(log, Len(log)) = log
    BY <2>2, UptoIs
  <2>4. Typed'
    BY <1>1, <1>11, <2>1, <2>2 DEF FileInv, Typed
  <2>5. Placed'
    BY <1>1, <2>1 DEF FileInv, Placed, First, Holding
  <2>6. Counted'
    BY <1>1, <1>11, <2>1, <2>3 DEF Counted, Appending
  <2>7. Safe(n)'
    BY <1>1, <1>2, <2>1, SafeRests DEF Holding
  <2> QED
    BY <2>4, <2>5, <2>6, <2>7 DEF FileInv
<1>12. CASE entry = "absent" /\ Becomes(<<>>) /\ UNCHANGED work
  <2>1. units = <<>> /\ Numbered(<<>>) /\ Sound(<<>>) /\ Events(<<>>) = <<>>
    BY <1>12, EventsEmpty DEF FileInv, Placed, Numbered, Sound
  <2> QED
    BY <1>11, <1>12, <2>1
<1>13. CASE entry # "absent" /\ m = Len(units) /\ Becomes(scan.events) /\ UNCHANGED work
  <2>1. Sound(units) /\ Events(units) \in Seq(Entries)
    BY <1>4, <1>6, <1>8, <1>13, EventsTyped
  <2>2. scan.events = Events(units) \o <<>> /\ Events(units) \o <<>> = Events(units)
    BY <1>6, <1>8, <1>13, <2>1, ConcatEmptySeq
  <2>3. Events(units) = scan.events
    BY <2>2
  <2> QED
    BY <1>7, <1>11, <1>13, <2>1, <2>3
<1> QED
  BY <1>9, <1>10, <1>12, <1>13

\* The program stops, or the machine does.
LEMMA StopsKeep ==
  ASSUME FileInv, ProcessStops \/ MachineStops, UNCHANGED compressed
  PROVE  FileInv'
<1>1. /\ status' = "cold" /\ session' = <<>> /\ cursor' = 0 /\ life' = life + 1
      /\ pc' = "idle" /\ batch' = <<>> /\ keep' = 0 /\ Shape(units) /\ Shape(synced)
      /\ acked \in Seq(Entries) /\ life \in Nat
  BY DEF ProcessStops, MachineStops, Forget, Return, FileInv, Typed
<1>2. Numbered(<<>>) /\ Len(<<>>) = 0 /\ <<>> \in Seq(Entries) /\ Shape(<<>>) /\ Sound(<<>>)
  BY DEF Numbered, Shape, Sound
<1>3. ASSUME Shape(units'), Shape(synced'), acked' \in Seq(Entries),
             entry' = "absent" => units' = <<>> /\ synced' = <<>>,
             NEW n \in Nat, Safe(n)'
      PROVE  FileInv'
  <2>1. Typed'
    BY <1>1, <1>2, <1>3 DEF FileInv, Typed, SystemCalls
  <2>2. Placed'
    BY <1>1, <1>3 DEF Placed, First, Holding
  <2>3. Counted'
    BY <1>1 DEF Counted
  <2> QED
    BY <1>3, <2>1, <2>2, <2>3 DEF FileInv
<1>4. PICK n \in Nat : Safe(n)
  BY DEF FileInv
<1>5. CASE ProcessStops
  <2>1. UNCHANGED <<entry, units, synced, acked>>
    BY <1>5 DEF ProcessStops, disk
  <2>2. Safe(n)'
    BY <1>1, <1>4, <2>1, SafeRests DEF Holding
  <2> QED
    BY <1>1, <1>3, <2>1, <2>2 DEF FileInv, Placed
<1>6. CASE entry' = "durable" /\ units' \in OnDisk /\ synced' = units' /\ UNCHANGED acked
  <2> DEFINE file == units'
  <2>1. file \in OnDisk \cup {units}
    BY <1>6
  <2> HIDE DEF file
  <2>2. Shape(file) /\ n <= Len(file) /\ \A i \in 1 .. n : file[i] = units[i]
    BY <1>1, <1>4, <2>1, OnDiskIs
  <2>3. units' = file /\ synced' = file /\ file \in Seq(Units)
    BY <1>6, <2>2 DEF file, Shape
  <2>4. pc' \notin Holding
    BY <1>1 DEF Holding
  <2>5. Safe(n)'
    BY <1>1, <1>4, <1>6, <2>2, <2>3, <2>4, SafeMoves
  <2> QED
    BY <1>1, <1>3, <1>6, <2>2, <2>3, <2>5
<1>7. CASE entry' = "absent" /\ units' = <<>> /\ synced' = <<>> /\ acked' = <<>>
  <2>1. Upto(<<>>, 0) = <<>> /\ Events(<<>>) = <<>>
    BY SubSeqEmpty, EventsEmpty DEF Upto
  <2>2. IsPrefix(<<>>, <<>>)
    BY <1>2 DEF IsPrefix
  <2>3. Safe(0)'
    BY <1>1, <1>2, <1>7, <2>1, <2>2 DEF Safe, Holding
  <2> QED
    BY <1>2, <1>3, <1>7, <2>3
<1> QED
  BY <1>5, <1>6, <1>7 DEF MachineStops

\* Every step keeps the invariant.
LEMMA NextFile == ASSUME IInv, [Next]_vars PROVE IInv'
<1> SUFFICES ASSUME leftover' = {} PROVE FileInv'
  BY DEF IInv
<1>1. CASE UNCHANGED vars
  <2>1. /\ UNCHANGED <<compressed, entry, units, synced, session, life, status, cursor>>
        /\ UNCHANGED <<pc, batch, keep, acked, leftover>>
    BY <1>1 DEF vars, disk, memory, work
  <2>2. FileInv
    BY <2>1 DEF IInv
  <2>3. encode(batch)' = encode(batch)
    BY <2>1 DEF encode
  <2>4. Typed' /\ Placed' /\ Counted'
    BY <2>1, <2>2, <2>3 DEF FileInv, Typed, Placed, Counted
  <2>5. PICK n \in Nat : Safe(n)
    BY <2>2 DEF FileInv
  <2>6. Safe(n)'
    BY <2>1, <2>5 DEF Safe
  <2> QED
    BY <2>4, <2>6 DEF FileInv
<1>2. CASE Next
  <2>1. UNCHANGED compressed
    BY <1>2 DEF Next
  <2>2. ASSUME leftover' = leftover PROVE FileInv
    BY <2>2 DEF IInv
  <2>3. CASE \E end \in BOOLEAN : Record(end)
    BY <2>1, <2>2, <2>3, RecordKeeps DEF Record
  <2>4. CASE appendBatch
    BY <2>1, <2>2, <2>4, AppendBatchKeeps DEF appendBatch
  <2>5. CASE rejectExistingLog
    BY <2>1, <2>2, <2>5, FirstKeeps DEF rejectExistingLog
  <2>6. CASE writeSyncedTempFile
    BY <2>1, <2>2, <2>6, FirstKeeps DEF writeSyncedTempFile, Fails
  <2>7. CASE link
    BY <2>1, <2>2, <2>7, LinkKeeps DEF link, Fails
  <2>8. CASE syncDirPosix
    BY <2>1, <2>2, <2>8, SyncDirKeeps DEF syncDirPosix, Fails
  <2>9. CASE open
    BY <2>1, <2>2, <2>9, OpenKeeps DEF open, Fails
  <2>10. CASE writeFile
    BY <2>1, <2>2, <2>10, WriteKeeps DEF writeFile
  <2>11. CASE sync
    BY <2>1, <2>2, <2>11, SyncKeeps DEF sync
  <2>12. CASE writeFails
    BY <2>1, <2>2, <2>12, WriteFailsKeeps DEF writeFails
  <2>13. CASE rollbackAppend
    BY <2>1, <2>2, <2>13, CutKeeps DEF rollbackAppend
  <2>14. CASE rollbackSyncs
    BY <2>1, <2>2, <2>14, CutSyncs DEF rollbackSyncs
  <2>15. CASE rollbackFails
    <3>1. status # "live" /\ FileInv
      BY <2>2, <2>15 DEF rollbackFails, LeavesBehind
    <3> QED
      BY <2>1, <2>15, <3>1, ReturnsKeep DEF rollbackFails, LeavesBehind
  <2>20. CASE closeFails
    <3>1. status # "live" /\ FileInv
      BY <2>2, <2>20 DEF closeFails, LeavesBehind
    <3> QED
      BY <2>1, <2>20, <3>1, CloseFailsKeeps
  <2>16. CASE load
    BY <2>1, <2>2, <2>16, LoadKeeps DEF load
  <2>17. CASE truncate
    <3>1. FileInv /\ status = "cold"
      BY <2>2, <2>17 DEF truncate, Fails, FileInv, Placed
    <3>2. CASE Fails
      BY <2>1, <3>1, <3>2, ReturnsKeep DEF Fails
    <3> QED
      BY <2>1, <2>17, <3>1, <3>2, CutKeeps DEF truncate
  <2>18. CASE truncateSyncs
    <3>1. FileInv /\ status = "cold"
      BY <2>2, <2>18 DEF truncateSyncs, Fails, FileInv, Placed
    <3>2. CASE Fails
      BY <2>1, <3>1, <3>2, ReturnsKeep DEF Fails
    <3> QED
      BY <2>1, <2>18, <3>1, <3>2, CutSyncs DEF truncateSyncs
  <2>19. CASE ProcessStops \/ MachineStops
    BY <2>1, <2>2, <2>19, StopsKeep DEF ProcessStops, MachineStops, Forget
  <2> QED
    BY <1>2, <2>3, <2>4, <2>5, <2>6, <2>7, <2>8, <2>9, <2>10, <2>11, <2>12, <2>13,
       <2>14, <2>15, <2>16, <2>17, <2>18, <2>19, <2>20 DEF Next, Writer, Loader
<1> QED
  BY <1>1, <1>2

(***************************************************************************)
(* What holds of every log file.                                           *)
(***************************************************************************)
\* Until a live append leaves lines behind, as its rollback or its close failed,
\* the file is whole but for a torn tail, agrees with its synced form on what was acknowledged, and is, at each system call of
\* appendLines, materialize and commitRepair, what that call needs it to be.
THEOREM FileCorrect == Spec => []IInv
<1>1. Init => IInv
  BY InitFile
<1>2. IInv /\ [Next]_vars => IInv'
  BY NextFile
<1> QED
  BY <1>1, <1>2, PTL DEF Spec

\* An append or a repair that was reported is read back after any number of
\* failures and stops: no scan of what the disk can hold refuses the file or
\* loses an acknowledged event, as long as the file has a durable name and no
\* live append has left lines behind.
THEOREM AckedCorrect == Spec => []AckedSurvive
<1>1. IInv => AckedSurvive
  BY InvGives
<1> QED
  BY <1>1, FileCorrect, PTL

\* Between operations state.cursor counts exactly the events of the file, unless
\* a live append left lines behind or a first write published ones it did not
\* acknowledge.
THEOREM CursorCorrect == Spec => []CursorMatchesFile
<1>1. IInv => CursorMatchesFile
  BY InvGives
<1> QED
  BY <1>1, FileCorrect, PTL
===============================================================================
