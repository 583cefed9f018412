-------------------------- MODULE SessionLogProofs --------------------------
(***************************************************************************)
(* What the readers of a session log compute, for logs of any length: how  *)
(* each recursive definition of SessionLog answers an append.  Induction   *)
(* is over sets of naturals, by well-foundedness of < (NatSetInduction).   *)
(***************************************************************************)
EXTENDS SessionLog, SequenceTheorems, WellFoundedInduction, TLAPS

\* Induction over the naturals, for a property given as the set it holds on.
LEMMA NatSetInduction ==
  ASSUME NEW T, T \subseteq Nat, 0 \in T, \A n \in T : n + 1 \in T
  PROVE  T = Nat
<1> DEFINE U == Nat \ T
           R == OpToRel(<, Nat)
<1>1. SUFFICES ASSUME U # {} PROVE FALSE
  OBVIOUS
<1>2. \A y, z \in Nat : y < z => <<y, z>> \in R
  BY DEF OpToRel
<1>3. IsWellFoundedOn(R, Nat)
  BY NatLessThanWellFounded
<1>4. U \subseteq Nat
  OBVIOUS
<1> HIDE DEF R
<1>5. PICK x \in U : \A y \in U : ~(<<y, x>> \in R)
  <2> HIDE DEF U
  <2> QED
    BY <1>1, <1>4, <1>3, WFMin
<1>6. x \in Nat /\ x # 0
  BY <1>5
<1>7. x - 1 \in Nat /\ x - 1 < x /\ (x - 1) + 1 = x
  BY <1>6
<1>8. x - 1 \in T
  BY <1>5, <1>6, <1>7, <1>2
<1> QED
  BY <1>8, <1>7, <1>5

\* The relational trace follows its definition along the log.
LEMMA TracesDef ==
  ASSUME NEW events, Len(events) \in Nat
  PROVE  Traces(events) = [i \in 0..Len(events) |->
           IF i = 0 THEN FreshTrace
           ELSE applyTransition(Traces(events)[i - 1], events[i])]
<1> DEFINE Runs(f, n) ==
      f = [i \in 0..n |-> IF i = 0 THEN FreshTrace
                          ELSE applyTransition(f[i - 1], events[i])]
           T == {n \in Nat : \E f : Runs(f, n)}
<1>1. 0 \in T
  <2>1. Runs([i \in 0..0 |-> FreshTrace], 0)
    OBVIOUS
  <2> QED
    BY <2>1
<1>2. ASSUME NEW n \in T PROVE n + 1 \in T
  <2>1. PICK f : Runs(f, n)
    BY <1>2
  <2> DEFINE g == [i \in 0..(n + 1) |-> IF i <= n THEN f[i]
                      ELSE applyTransition(f[n], events[n + 1])]
  <2>2. \A i \in 0..(n + 1) : g[i] = IF i = 0 THEN FreshTrace
                                   ELSE applyTransition(g[i - 1], events[i])
    BY <2>1
  <2>3. Runs(g, n + 1)
    BY <2>2
  <2>4. \E h : Runs(h, n + 1)
    <3> HIDE DEF g, Runs
    <3> QED
      BY <2>3
  <2> QED
    <3> HIDE DEF Runs
    <3> QED
      BY <2>4
<1>3. T = Nat
  <2> HIDE DEF T
  <2>1. T \subseteq Nat
    BY DEF T
  <2> QED
    BY <1>1, <1>2, <2>1, NatSetInduction
<1>4. PICK f : Runs(f, Len(events))
  BY <1>3
<1>5. Traces(events) = CHOOSE h : Runs(h, Len(events))
  BY DEF Traces
<1>6. Runs(Traces(events), Len(events))
  <2> HIDE DEF Runs
  <2> QED
    BY <1>4, <1>5
<1> QED
  BY <1>6

\* The trace before an appended event is not touched by it, and the rules
\* advance from the last one.
LEMMA TracesAppend ==
  ASSUME NEW S, NEW l \in Seq(S), NEW e \in S
  PROVE  /\ \A i \in 0..Len(l) : Traces(Append(l, e))[i] = Traces(l)[i]
         /\ Traces(Append(l, e))[Len(l) + 1]
              = applyTransition(Traces(l)[Len(l)], e)
<1>1. /\ Len(l) \in Nat /\ Len(Append(l, e)) = Len(l) + 1
      /\ Append(l, e)[Len(l) + 1] = e
      /\ \A i \in 1..Len(l) : Append(l, e)[i] = l[i]
  BY AppendProperties, LenProperties
<1> DEFINE m == Append(l, e)
           f == Traces(l)
           g == Traces(m)
<1> HIDE DEF m, f, g
<1>2. /\ Len(m) = Len(l) + 1 /\ m[Len(l) + 1] = e
      /\ \A i \in 1..Len(l) : m[i] = l[i]
  BY <1>1 DEF m
<1>3. f = [i \in 0..Len(l) |-> IF i = 0 THEN FreshTrace
                               ELSE applyTransition(f[i - 1], l[i])]
  BY <1>1, TracesDef DEF f
<1>4. g = [i \in 0..Len(m) |-> IF i = 0 THEN FreshTrace
                               ELSE applyTransition(g[i - 1], m[i])]
  <2>1. Len(m) \in Nat
    BY <1>1, <1>2
  <2> QED
    BY <2>1, TracesDef DEF g
<1> DEFINE T == {i \in Nat : i <= Len(l) => f[i] = g[i]}
<1>5. 0 \in T
  BY <1>1, <1>2, <1>3, <1>4
<1>6. ASSUME NEW i \in T PROVE i + 1 \in T
  BY <1>1, <1>2, <1>3, <1>4
<1>7. T = Nat
  <2>1. T \subseteq Nat
    OBVIOUS
  <2> HIDE DEF T
  <2> QED
    BY <1>5, <1>6, <2>1, NatSetInduction
<1>8. \A i \in 0..Len(l) : f[i] = g[i]
  BY <1>1, <1>7
<1>9. g[Len(l) + 1] = applyTransition(g[Len(l)], e)
  BY <1>1, <1>2, <1>4
<1> QED
  BY <1>1, <1>8, <1>9 DEF f, g, m

\* An event the rules accept extends an accepted log.
LEMMA AcceptedAppend ==
  ASSUME NEW S, NEW l \in Seq(S), NEW e \in S, NEW n \in 0..Len(l),
         AcceptedAfter(n, l), validateEvent(Traces(l)[Len(l)], e)
  PROVE  AcceptedAfter(n, Append(l, e))
<1>1. /\ Len(l) \in Nat /\ Len(Append(l, e)) = Len(l) + 1
      /\ Append(l, e)[Len(l) + 1] = e
      /\ \A i \in 1..Len(l) : Append(l, e)[i] = l[i]
  BY AppendProperties, LenProperties
<1>2. \A i \in 0..Len(l) : Traces(Append(l, e))[i] = Traces(l)[i]
  BY TracesAppend
<1>3. \A i \in (n + 1)..Len(l) : validateEvent(Traces(l)[i - 1], l[i])
  BY DEF AcceptedAfter
<1> SUFFICES ASSUME NEW i \in (n + 1)..(Len(l) + 1)
             PROVE  validateEvent(Traces(Append(l, e))[i - 1], Append(l, e)[i])
  BY <1>1 DEF AcceptedAfter
<1>4. CASE i = Len(l) + 1
  <2>1. i - 1 = Len(l) /\ Len(l) \in 0..Len(l)
    BY <1>1, <1>4
  <2> QED
    BY <1>1, <1>2, <1>4, <2>1
<1>5. CASE i \in 1..Len(l)
  <2>1. i \in (n + 1)..Len(l) /\ i - 1 \in 0..Len(l)
    BY <1>1, <1>5
  <2> QED
    BY <1>1, <1>2, <1>3, <1>5, <2>1
<1> QED
  BY <1>1, <1>4, <1>5

\* A log extends itself by nothing.
LEMMA AcceptedSelf ==
  ASSUME NEW S, NEW l \in Seq(S)
  PROVE  AcceptedAfter(Len(l), l)
<1>1. Len(l) \in Nat
  BY LenProperties
<1> QED
  BY <1>1 DEF AcceptedAfter

\* Folded(apply, ..) follows its definition along the log.
LEMMA ReplayRuns ==
  ASSUME NEW events, Len(events) \in Nat
  PROVE  \E f : /\ f = [i \in 0..Len(events) |->
                         IF i = 0 THEN EmptyInbox ELSE apply(f[i - 1], events[i])]
                /\ Folded(apply, EmptyInbox, events) = f[Len(events)]
<1> DEFINE Runs(f, n) ==
      f = [i \in 0..n |-> IF i = 0 THEN EmptyInbox ELSE apply(f[i - 1], events[i])]
           T == {n \in Nat : \E f : Runs(f, n)}
<1>1. 0 \in T
  <2>1. Runs([i \in 0..0 |-> EmptyInbox], 0)
    OBVIOUS
  <2> QED
    BY <2>1
<1>2. ASSUME NEW n \in T PROVE n + 1 \in T
  <2>1. PICK f : Runs(f, n)
    BY <1>2
  <2> DEFINE g == [i \in 0..(n + 1) |-> IF i <= n THEN f[i]
                                        ELSE apply(f[n], events[n + 1])]
  <2>2. \A i \in 0..(n + 1) :
          g[i] = IF i = 0 THEN EmptyInbox ELSE apply(g[i - 1], events[i])
    BY <2>1
  <2>3. Runs(g, n + 1)
    BY <2>2
  <2> HIDE DEF g, Runs
  <2> QED
    BY <2>3
<1>3. T = Nat
  <2> HIDE DEF T
  <2>1. T \subseteq Nat
    BY DEF T
  <2> QED
    BY <1>1, <1>2, <2>1, NatSetInduction
<1>4. PICK f : Runs(f, Len(events))
  BY <1>3
<1> DEFINE run == CHOOSE h : Runs(h, Len(events))
<1>5. Folded(apply, EmptyInbox, events) = run[Len(events)]
  BY DEF Folded
<1>6. Runs(run, Len(events))
  <2> HIDE DEF Runs
  <2> QED
    BY <1>4
<1> QED
  <2> HIDE DEF run
  <2> QED
    BY <1>5, <1>6

\* replay reads an appended event after everything before it.
LEMMA ReplayAppend ==
  ASSUME NEW S, NEW l \in Seq(S), NEW e \in S
  PROVE  Folded(apply, EmptyInbox, Append(l, e))
           = apply(Folded(apply, EmptyInbox, l), e)
<1>1. /\ Len(l) \in Nat /\ Len(Append(l, e)) = Len(l) + 1
      /\ Append(l, e)[Len(l) + 1] = e
      /\ \A i \in 1..Len(l) : Append(l, e)[i] = l[i]
  BY AppendProperties, LenProperties
<1> DEFINE m == Append(l, e)
<1> HIDE DEF m
<1>2. /\ Len(m) = Len(l) + 1 /\ m[Len(l) + 1] = e
      /\ \A i \in 1..Len(l) : m[i] = l[i]
  BY <1>1 DEF m
<1>3. PICK f : /\ f = [i \in 0..Len(l) |->
                         IF i = 0 THEN EmptyInbox ELSE apply(f[i - 1], l[i])]
               /\ Folded(apply, EmptyInbox, l) = f[Len(l)]
  BY <1>1, ReplayRuns
<1>4. PICK g : /\ g = [i \in 0..Len(m) |->
                         IF i = 0 THEN EmptyInbox ELSE apply(g[i - 1], m[i])]
               /\ Folded(apply, EmptyInbox, m) = g[Len(m)]
  <2>1. Len(m) \in Nat
    BY <1>1, <1>2
  <2> QED
    BY <2>1, ReplayRuns
<1> DEFINE T == {i \in Nat : i <= Len(l) => f[i] = g[i]}
<1>5. 0 \in T
  BY <1>1, <1>2, <1>3, <1>4
<1>6. ASSUME NEW i \in T PROVE i + 1 \in T
  BY <1>1, <1>2, <1>3, <1>4
<1>7. T = Nat
  <2>1. T \subseteq Nat
    OBVIOUS
  <2> HIDE DEF T
  <2> QED
    BY <1>5, <1>6, <2>1, NatSetInduction
<1>8. f[Len(l)] = g[Len(l)]
  BY <1>1, <1>7
<1>9. g[Len(l) + 1] = apply(g[Len(l)], e)
  BY <1>1, <1>2, <1>4
<1> QED
  BY <1>2, <1>3, <1>4, <1>8, <1>9 DEF m

\* An empty log folds to the initial value.
LEMMA ReplayEmpty == Folded(apply, EmptyInbox, <<>>) = EmptyInbox
<1>1. Len(<<>>) = 0
  OBVIOUS
<1> DEFINE m == <<>>
<1> HIDE DEF m
<1>2. PICK f : /\ f = [i \in 0..Len(m) |->
                         IF i = 0 THEN EmptyInbox ELSE apply(f[i - 1], m[i])]
               /\ Folded(apply, EmptyInbox, m) = f[Len(m)]
  BY <1>1, ReplayRuns DEF m
<1>3. Len(m) = 0
  BY <1>1 DEF m
<1>4. f[0] = EmptyInbox
  BY <1>2, <1>3
<1> QED
  BY <1>2, <1>3, <1>4 DEF m

\* The repair's cursor follows its definition along the log.
LEMMA ScanRuns ==
  ASSUME NEW events, Len(events) \in Nat
  PROVE  \E f : /\ f = [i \in 0..Len(events) |->
                         IF i = 0 THEN FreshCursor ELSE scan(f[i - 1], events[i])]
                /\ Folded(scan, FreshCursor, events) = f[Len(events)]
<1> DEFINE Runs(f, n) ==
      f = [i \in 0..n |-> IF i = 0 THEN FreshCursor ELSE scan(f[i - 1], events[i])]
           T == {n \in Nat : \E f : Runs(f, n)}
<1>1. 0 \in T
  <2>1. Runs([i \in 0..0 |-> FreshCursor], 0)
    OBVIOUS
  <2> QED
    BY <2>1
<1>2. ASSUME NEW n \in T PROVE n + 1 \in T
  <2>1. PICK f : Runs(f, n)
    BY <1>2
  <2> DEFINE g == [i \in 0..(n + 1) |-> IF i <= n THEN f[i]
                                        ELSE scan(f[n], events[n + 1])]
  <2>2. \A i \in 0..(n + 1) :
          g[i] = IF i = 0 THEN FreshCursor ELSE scan(g[i - 1], events[i])
    BY <2>1
  <2>3. Runs(g, n + 1)
    BY <2>2
  <2> HIDE DEF g, Runs
  <2> QED
    BY <2>3
<1>3. T = Nat
  <2> HIDE DEF T
  <2>1. T \subseteq Nat
    BY DEF T
  <2> QED
    BY <1>1, <1>2, <2>1, NatSetInduction
<1>4. PICK f : Runs(f, Len(events))
  BY <1>3
<1> DEFINE run == CHOOSE h : Runs(h, Len(events))
<1>5. Folded(scan, FreshCursor, events) = run[Len(events)]
  BY DEF Folded
<1>6. Runs(run, Len(events))
  <2> HIDE DEF Runs
  <2> QED
    BY <1>4
<1> QED
  <2> HIDE DEF run
  <2> QED
    BY <1>5, <1>6

\* The repair reads an appended event after everything before it.
LEMMA ScanAppend ==
  ASSUME NEW S, NEW l \in Seq(S), NEW e \in S
  PROVE  Folded(scan, FreshCursor, Append(l, e))
           = scan(Folded(scan, FreshCursor, l), e)
<1>1. /\ Len(l) \in Nat /\ Len(Append(l, e)) = Len(l) + 1
      /\ Append(l, e)[Len(l) + 1] = e
      /\ \A i \in 1..Len(l) : Append(l, e)[i] = l[i]
  BY AppendProperties, LenProperties
<1> DEFINE m == Append(l, e)
<1> HIDE DEF m
<1>2. /\ Len(m) = Len(l) + 1 /\ m[Len(l) + 1] = e
      /\ \A i \in 1..Len(l) : m[i] = l[i]
  BY <1>1 DEF m
<1>3. PICK f : /\ f = [i \in 0..Len(l) |->
                         IF i = 0 THEN FreshCursor ELSE scan(f[i - 1], l[i])]
               /\ Folded(scan, FreshCursor, l) = f[Len(l)]
  BY <1>1, ScanRuns
<1>4. PICK g : /\ g = [i \in 0..Len(m) |->
                         IF i = 0 THEN FreshCursor ELSE scan(g[i - 1], m[i])]
               /\ Folded(scan, FreshCursor, m) = g[Len(m)]
  <2>1. Len(m) \in Nat
    BY <1>1, <1>2
  <2> QED
    BY <2>1, ScanRuns
<1> DEFINE T == {i \in Nat : i <= Len(l) => f[i] = g[i]}
<1>5. 0 \in T
  BY <1>1, <1>2, <1>3, <1>4
<1>6. ASSUME NEW i \in T PROVE i + 1 \in T
  BY <1>1, <1>2, <1>3, <1>4
<1>7. T = Nat
  <2>1. T \subseteq Nat
    OBVIOUS
  <2> HIDE DEF T
  <2> QED
    BY <1>5, <1>6, <2>1, NatSetInduction
<1>8. f[Len(l)] = g[Len(l)]
  BY <1>1, <1>7
<1>9. g[Len(l) + 1] = scan(g[Len(l)], e)
  BY <1>1, <1>2, <1>4
<1> QED
  BY <1>2, <1>3, <1>4, <1>8, <1>9 DEF m

\* An empty log folds to the initial value.
LEMMA ScanEmpty == Folded(scan, FreshCursor, <<>>) = FreshCursor
<1>1. Len(<<>>) = 0
  OBVIOUS
<1> DEFINE m == <<>>
<1> HIDE DEF m
<1>2. PICK f : /\ f = [i \in 0..Len(m) |->
                         IF i = 0 THEN FreshCursor ELSE scan(f[i - 1], m[i])]
               /\ Folded(scan, FreshCursor, m) = f[Len(m)]
  BY <1>1, ScanRuns DEF m
<1>3. Len(m) = 0
  BY <1>1 DEF m
<1>4. f[0] = FreshCursor
  BY <1>2, <1>3
<1> QED
  BY <1>2, <1>3, <1>4 DEF m

\* The search for the last turn follows its definition along the log.
LEMMA LastRuns ==
  ASSUME NEW events, Len(events) \in Nat
  PROVE  \E f : /\ f = [i \in 0..Len(events) |->
                         IF i = 0 THEN 0 ELSE findLast(f[i - 1], events[i])]
                /\ Folded(findLast, 0, events) = f[Len(events)]
<1> DEFINE Runs(f, n) ==
      f = [i \in 0..n |-> IF i = 0 THEN 0 ELSE findLast(f[i - 1], events[i])]
           T == {n \in Nat : \E f : Runs(f, n)}
<1>1. 0 \in T
  <2>1. Runs([i \in 0..0 |-> 0], 0)
    OBVIOUS
  <2> QED
    BY <2>1
<1>2. ASSUME NEW n \in T PROVE n + 1 \in T
  <2>1. PICK f : Runs(f, n)
    BY <1>2
  <2> DEFINE g == [i \in 0..(n + 1) |-> IF i <= n THEN f[i]
                                        ELSE findLast(f[n], events[n + 1])]
  <2>2. \A i \in 0..(n + 1) :
          g[i] = IF i = 0 THEN 0 ELSE findLast(g[i - 1], events[i])
    BY <2>1
  <2>3. Runs(g, n + 1)
    BY <2>2
  <2> HIDE DEF g, Runs
  <2> QED
    BY <2>3
<1>3. T = Nat
  <2> HIDE DEF T
  <2>1. T \subseteq Nat
    BY DEF T
  <2> QED
    BY <1>1, <1>2, <2>1, NatSetInduction
<1>4. PICK f : Runs(f, Len(events))
  BY <1>3
<1> DEFINE run == CHOOSE h : Runs(h, Len(events))
<1>5. Folded(findLast, 0, events) = run[Len(events)]
  BY DEF Folded
<1>6. Runs(run, Len(events))
  <2> HIDE DEF Runs
  <2> QED
    BY <1>4
<1> QED
  <2> HIDE DEF run
  <2> QED
    BY <1>5, <1>6

\* An appended event is the last turn's start, or changes nothing.
LEMMA LastAppend ==
  ASSUME NEW S, NEW l \in Seq(S), NEW e \in S
  PROVE  Folded(findLast, 0, Append(l, e))
           = findLast(Folded(findLast, 0, l), e)
<1>1. /\ Len(l) \in Nat /\ Len(Append(l, e)) = Len(l) + 1
      /\ Append(l, e)[Len(l) + 1] = e
      /\ \A i \in 1..Len(l) : Append(l, e)[i] = l[i]
  BY AppendProperties, LenProperties
<1> DEFINE m == Append(l, e)
<1> HIDE DEF m
<1>2. /\ Len(m) = Len(l) + 1 /\ m[Len(l) + 1] = e
      /\ \A i \in 1..Len(l) : m[i] = l[i]
  BY <1>1 DEF m
<1>3. PICK f : /\ f = [i \in 0..Len(l) |->
                         IF i = 0 THEN 0 ELSE findLast(f[i - 1], l[i])]
               /\ Folded(findLast, 0, l) = f[Len(l)]
  BY <1>1, LastRuns
<1>4. PICK g : /\ g = [i \in 0..Len(m) |->
                         IF i = 0 THEN 0 ELSE findLast(g[i - 1], m[i])]
               /\ Folded(findLast, 0, m) = g[Len(m)]
  <2>1. Len(m) \in Nat
    BY <1>1, <1>2
  <2> QED
    BY <2>1, LastRuns
<1> DEFINE T == {i \in Nat : i <= Len(l) => f[i] = g[i]}
<1>5. 0 \in T
  BY <1>1, <1>2, <1>3, <1>4
<1>6. ASSUME NEW i \in T PROVE i + 1 \in T
  BY <1>1, <1>2, <1>3, <1>4
<1>7. T = Nat
  <2>1. T \subseteq Nat
    OBVIOUS
  <2> HIDE DEF T
  <2> QED
    BY <1>5, <1>6, <2>1, NatSetInduction
<1>8. f[Len(l)] = g[Len(l)]
  BY <1>1, <1>7
<1>9. g[Len(l) + 1] = findLast(g[Len(l)], e)
  BY <1>1, <1>2, <1>4
<1> QED
  BY <1>2, <1>3, <1>4, <1>8, <1>9 DEF m

\* An empty log folds to the initial value.
LEMMA LastEmpty == Folded(findLast, 0, <<>>) = 0
<1>1. Len(<<>>) = 0
  OBVIOUS
<1> DEFINE m == <<>>
<1> HIDE DEF m
<1>2. PICK f : /\ f = [i \in 0..Len(m) |->
                         IF i = 0 THEN 0 ELSE findLast(f[i - 1], m[i])]
               /\ Folded(findLast, 0, m) = f[Len(m)]
  BY <1>1, LastRuns DEF m
<1>3. Len(m) = 0
  BY <1>1 DEF m
<1>4. f[0] = 0
  BY <1>2, <1>3
<1> QED
  BY <1>2, <1>3, <1>4 DEF m

\* The account of consumed work follows its definition along the log.
LEMMA ConsumeRuns ==
  ASSUME NEW events, Len(events) \in Nat
  PROVE  \E f : /\ f = [i \in 0..Len(events) |->
                         IF i = 0 THEN NoWork ELSE consume(f[i - 1], events[i])]
                /\ Folded(consume, NoWork, events) = f[Len(events)]
<1> DEFINE Runs(f, n) ==
      f = [i \in 0..n |-> IF i = 0 THEN NoWork ELSE consume(f[i - 1], events[i])]
           T == {n \in Nat : \E f : Runs(f, n)}
<1>1. 0 \in T
  <2>1. Runs([i \in 0..0 |-> NoWork], 0)
    OBVIOUS
  <2> QED
    BY <2>1
<1>2. ASSUME NEW n \in T PROVE n + 1 \in T
  <2>1. PICK f : Runs(f, n)
    BY <1>2
  <2> DEFINE g == [i \in 0..(n + 1) |-> IF i <= n THEN f[i]
                                        ELSE consume(f[n], events[n + 1])]
  <2>2. \A i \in 0..(n + 1) :
          g[i] = IF i = 0 THEN NoWork ELSE consume(g[i - 1], events[i])
    BY <2>1
  <2>3. Runs(g, n + 1)
    BY <2>2
  <2> HIDE DEF g, Runs
  <2> QED
    BY <2>3
<1>3. T = Nat
  <2> HIDE DEF T
  <2>1. T \subseteq Nat
    BY DEF T
  <2> QED
    BY <1>1, <1>2, <2>1, NatSetInduction
<1>4. PICK f : Runs(f, Len(events))
  BY <1>3
<1> DEFINE run == CHOOSE h : Runs(h, Len(events))
<1>5. Folded(consume, NoWork, events) = run[Len(events)]
  BY DEF Folded
<1>6. Runs(run, Len(events))
  <2> HIDE DEF Runs
  <2> QED
    BY <1>4
<1> QED
  <2> HIDE DEF run
  <2> QED
    BY <1>5, <1>6

\* The account takes an appended event after everything before it.
LEMMA ConsumeAppend ==
  ASSUME NEW S, NEW l \in Seq(S), NEW e \in S
  PROVE  Folded(consume, NoWork, Append(l, e))
           = consume(Folded(consume, NoWork, l), e)
<1>1. /\ Len(l) \in Nat /\ Len(Append(l, e)) = Len(l) + 1
      /\ Append(l, e)[Len(l) + 1] = e
      /\ \A i \in 1..Len(l) : Append(l, e)[i] = l[i]
  BY AppendProperties, LenProperties
<1> DEFINE m == Append(l, e)
<1> HIDE DEF m
<1>2. /\ Len(m) = Len(l) + 1 /\ m[Len(l) + 1] = e
      /\ \A i \in 1..Len(l) : m[i] = l[i]
  BY <1>1 DEF m
<1>3. PICK f : /\ f = [i \in 0..Len(l) |->
                         IF i = 0 THEN NoWork ELSE consume(f[i - 1], l[i])]
               /\ Folded(consume, NoWork, l) = f[Len(l)]
  BY <1>1, ConsumeRuns
<1>4. PICK g : /\ g = [i \in 0..Len(m) |->
                         IF i = 0 THEN NoWork ELSE consume(g[i - 1], m[i])]
               /\ Folded(consume, NoWork, m) = g[Len(m)]
  <2>1. Len(m) \in Nat
    BY <1>1, <1>2
  <2> QED
    BY <2>1, ConsumeRuns
<1> DEFINE T == {i \in Nat : i <= Len(l) => f[i] = g[i]}
<1>5. 0 \in T
  BY <1>1, <1>2, <1>3, <1>4
<1>6. ASSUME NEW i \in T PROVE i + 1 \in T
  BY <1>1, <1>2, <1>3, <1>4
<1>7. T = Nat
  <2>1. T \subseteq Nat
    OBVIOUS
  <2> HIDE DEF T
  <2> QED
    BY <1>5, <1>6, <2>1, NatSetInduction
<1>8. f[Len(l)] = g[Len(l)]
  BY <1>1, <1>7
<1>9. g[Len(l) + 1] = consume(g[Len(l)], e)
  BY <1>1, <1>2, <1>4
<1> QED
  BY <1>2, <1>3, <1>4, <1>8, <1>9 DEF m

\* An empty log folds to the initial value.
LEMMA ConsumeEmpty == Folded(consume, NoWork, <<>>) = NoWork
<1>1. Len(<<>>) = 0
  OBVIOUS
<1> DEFINE m == <<>>
<1> HIDE DEF m
<1>2. PICK f : /\ f = [i \in 0..Len(m) |->
                         IF i = 0 THEN NoWork ELSE consume(f[i - 1], m[i])]
               /\ Folded(consume, NoWork, m) = f[Len(m)]
  BY <1>1, ConsumeRuns DEF m
<1>3. Len(m) = 0
  BY <1>1 DEF m
<1>4. f[0] = NoWork
  BY <1>2, <1>3
<1> QED
  BY <1>2, <1>3, <1>4 DEF m


\* The community modules' FlattenSeq follows its definition.
LEMMA FlattenRuns ==
  ASSUME NEW seqs, Len(seqs) \in Nat \ {0}
  PROVE  \E f : /\ f = [i \in 1..Len(seqs) |->
                         IF i = 1 THEN seqs[i] ELSE f[i - 1] \o seqs[i]]
                /\ FlattenSeq(seqs) = f[Len(seqs)]
<1> DEFINE Runs(f, n) ==
      f = [i \in 1..n |-> IF i = 1 THEN seqs[i] ELSE f[i - 1] \o seqs[i]]
           T == {n \in Nat : \E f : Runs(f, n)}
<1>1. 0 \in T
  <2>1. Runs([i \in 1..0 |-> seqs], 0)
    OBVIOUS
  <2> QED
    BY <2>1
<1>2. ASSUME NEW n \in T PROVE n + 1 \in T
  <2>1. PICK f : Runs(f, n)
    BY <1>2
  <2> DEFINE g == [i \in 1..(n + 1) |->
                     IF i <= n THEN f[i]
                     ELSE IF i = 1 THEN seqs[i] ELSE f[n] \o seqs[i]]
  <2>2. \A i \in 1..(n + 1) : g[i] = IF i = 1 THEN seqs[i] ELSE g[i - 1] \o seqs[i]
    <3> SUFFICES ASSUME NEW i \in 1..(n + 1)
                 PROVE  g[i] = IF i = 1 THEN seqs[i] ELSE g[i - 1] \o seqs[i]
      OBVIOUS
    <3>1. CASE i = n + 1
      <4>1. i # 1 => i - 1 = n /\ n \in 1..(n + 1) /\ n <= n
        BY <3>1
      <4>2. g[i] = IF i = 1 THEN seqs[i] ELSE f[n] \o seqs[i]
        BY <3>1
      <4>3. i # 1 => g[i - 1] = f[n]
        BY <4>1
      <4> QED
        BY <4>2, <4>3
    <3>2. CASE i \in 1..n
      <4>1. g[i] = f[i]
        BY <3>2
      <4>2. i # 1 => i - 1 \in 1..n
        BY <3>2
      <4>3. i # 1 => g[i - 1] = f[i - 1]
        BY <4>2
      <4>4. f[i] = IF i = 1 THEN seqs[i] ELSE f[i - 1] \o seqs[i]
        BY <2>1, <3>2
      <4> QED
        BY <4>1, <4>3, <4>4
    <3> QED
      BY <3>1, <3>2
  <2>3. Runs(g, n + 1)
    BY <2>2
  <2> HIDE DEF g, Runs
  <2> QED
    BY <2>3
<1>3. T = Nat
  <2> HIDE DEF T
  <2>1. T \subseteq Nat
    BY DEF T
  <2> QED
    BY <1>1, <1>2, <2>1, NatSetInduction
<1>4. PICK f : Runs(f, Len(seqs))
  BY <1>3
<1> DEFINE run == CHOOSE h : Runs(h, Len(seqs))
<1>5. FlattenSeq(seqs) = run[Len(seqs)]
  BY DEF FlattenSeq
<1>6. Runs(run, Len(seqs))
  <2> HIDE DEF Runs
  <2> QED
    BY <1>4
<1> QED
  <2> HIDE DEF run
  <2> QED
    BY <1>5, <1>6

\* Flattening one sequence more appends it.
LEMMA FlattenAppend ==
  ASSUME NEW S, NEW n \in Nat, NEW s \in [1..(n + 1) -> Seq(S)]
  PROVE  /\ FlattenSeq([i \in 1..(n + 1) |-> s[i]])
              = FlattenSeq([i \in 1..n |-> s[i]]) \o s[n + 1]
         /\ n = 0 => FlattenSeq([i \in 1..n |-> s[i]]) = <<>>
<1> DEFINE a == [i \in 1..n |-> s[i]]
           b == [i \in 1..(n + 1) |-> s[i]]
<1>1. /\ Len(a) = n /\ \A i \in 1..n : a[i] = s[i]
      /\ Len(b) = n + 1 /\ \A i \in 1..(n + 1) : b[i] = s[i]
  OBVIOUS
<1>2. n = 0 => a = <<>>
  OBVIOUS
<1> HIDE DEF a, b
<1>3. PICK g : /\ g = [i \in 1..(n + 1) |-> IF i = 1 THEN b[i] ELSE g[i - 1] \o b[i]]
               /\ FlattenSeq(b) = g[n + 1]
  <2>1. Len(b) \in Nat \ {0} /\ Len(b) = n + 1
    BY <1>1
  <2> QED
    BY <2>1, FlattenRuns
<1>4. CASE n = 0
  <2>1. FlattenSeq(a) = <<>>
    BY <1>1, <1>2, <1>4 DEF FlattenSeq
  <2>2. s[1] \in Seq(S) /\ <<>> \o s[1] = s[1]
    BY <1>4, ConcatEmptySeq
  <2>3. g[1] = s[1]
    BY <1>1, <1>3, <1>4
  <2> QED
    BY <1>3, <1>4, <2>1, <2>2, <2>3 DEF a, b
<1>5. CASE n # 0
  <2>1. PICK f : /\ f = [i \in 1..n |-> IF i = 1 THEN a[i] ELSE f[i - 1] \o a[i]]
                 /\ FlattenSeq(a) = f[n]
    <3>1. Len(a) \in Nat \ {0} /\ Len(a) = n
      BY <1>1, <1>5
    <3> QED
      BY <3>1, FlattenRuns
  <2> DEFINE T == {i \in Nat : i \in 1..n => f[i] = g[i]}
  <2>2. 0 \in T
    OBVIOUS
  <2>3. ASSUME NEW i \in T PROVE i + 1 \in T
    <3> SUFFICES ASSUME i + 1 \in 1..n PROVE f[i + 1] = g[i + 1]
      OBVIOUS
    <3>1. a[i + 1] = b[i + 1]
      BY <1>1
    <3>2. CASE i = 0
      BY <1>3, <2>1, <3>1, <3>2
    <3>3. CASE i # 0
      <4>1. i \in 1..n /\ f[i] = g[i]
        BY <3>3
      <4>2. i + 1 # 1 /\ (i + 1) - 1 = i /\ i + 1 \in 1..(n + 1)
        BY <3>3
      <4>3. f[i + 1] = f[i] \o a[i + 1]
        BY <2>1, <4>2
      <4>4. g[i + 1] = g[i] \o b[i + 1]
        BY <1>3, <4>2
      <4> QED
        BY <3>1, <4>1, <4>3, <4>4
    <3> QED
      BY <3>2, <3>3
  <2>4. T = Nat
    <3>1. T \subseteq Nat
      OBVIOUS
    <3> HIDE DEF T
    <3> QED
      BY <2>2, <2>3, <3>1, NatSetInduction
  <2>5. f[n] = g[n]
    BY <1>5, <2>4
  <2>6. g[n + 1] = g[n] \o b[n + 1]
    <3>1. n + 1 # 1 /\ (n + 1) - 1 = n /\ n + 1 \in 1..(n + 1)
      BY <1>5
    <3> QED
      BY <1>3, <3>1
  <2> QED
    BY <1>1, <1>3, <1>5, <2>1, <2>5, <2>6 DEF a, b
<1> QED
  BY <1>4, <1>5

(***************************************************************************)
(* Prefixes of a log.                                                      *)
(***************************************************************************)
Upto(l, n) == SubSeq(l, 1, n)

\* A prefix is a log, and its prefixes are the log's.
LEMMA PrefixOf ==
  ASSUME NEW S, NEW l \in Seq(S), NEW n \in 0..Len(l)
  PROVE  /\ Upto(l, n) \in Seq(S) /\ Len(Upto(l, n)) = n
         /\ \A i \in 1..n : Upto(l, n)[i] = l[i]
         /\ \A k \in 0..n : Upto(Upto(l, n), k) = Upto(l, k)
         /\ Upto(l, Len(l)) = l /\ Upto(l, 0) = <<>>
<1>1. Len(l) \in Nat
  OBVIOUS
<1>2. ASSUME NEW k \in 0..Len(l)
      PROVE  /\ Upto(l, k) \in Seq(S) /\ Len(Upto(l, k)) = k
             /\ \A i \in 1..k : Upto(l, k)[i] = l[i]
  BY <1>1 DEF Upto
<1>3. ASSUME NEW k \in 0..n PROVE Upto(Upto(l, n), k) = Upto(l, k)
  BY <1>1, <1>2 DEF Upto
<1>4. Upto(l, Len(l)) = l
  BY <1>1 DEF Upto
<1>5. Upto(l, 0) = <<>>
  BY <1>1, <1>2 DEF Upto
<1> QED
  BY <1>2, <1>3, <1>4, <1>5

\* The prefixes of an extended log: those it had, and itself.
LEMMA PrefixAppend ==
  ASSUME NEW S, NEW l \in Seq(S), NEW e \in S
  PROVE  /\ Append(l, e) \in Seq(S) /\ Len(Append(l, e)) = Len(l) + 1
         /\ Append(l, e)[Len(l) + 1] = e
         /\ \A i \in 1..Len(l) : Append(l, e)[i] = l[i]
         /\ \A k \in 0..Len(l) : Upto(Append(l, e), k) = Upto(l, k)
         /\ Upto(Append(l, e), Len(l) + 1) = Append(l, e)
<1>1. Len(l) \in Nat
  OBVIOUS
<1>2. /\ Append(l, e) \in Seq(S) /\ Len(Append(l, e)) = Len(l) + 1
      /\ Append(l, e)[Len(l) + 1] = e
      /\ \A i \in 1..Len(l) : Append(l, e)[i] = l[i]
  BY AppendProperties, LenProperties
<1> DEFINE m == Append(l, e)
<1> HIDE DEF m
<1>3. /\ m \in Seq(S) /\ Len(m) = Len(l) + 1 /\ \A i \in 1..Len(l) : m[i] = l[i]
  BY <1>2 DEF m
<1>4. ASSUME NEW k \in 0..Len(l) PROVE Upto(m, k) = Upto(l, k)
  <2>1. k \in 0..Len(m)
    BY <1>1, <1>3
  <2>2. /\ Upto(m, k) \in Seq(S) /\ Len(Upto(m, k)) = k
        /\ \A i \in 1..k : Upto(m, k)[i] = m[i]
    BY <1>3, <2>1, PrefixOf
  <2>3. /\ Upto(l, k) \in Seq(S) /\ Len(Upto(l, k)) = k
        /\ \A i \in 1..k : Upto(l, k)[i] = l[i]
    BY PrefixOf
  <2>4. \A i \in 1..k : Upto(m, k)[i] = Upto(l, k)[i]
    BY <1>1, <1>3, <2>2, <2>3
  <2> HIDE DEF Upto
  <2> QED
    BY <2>2, <2>3, <2>4, SeqEqual
<1>5. Upto(m, Len(l) + 1) = m
  <2>1. Len(m) \in 0..Len(m)
    BY <1>1, <1>3
  <2> QED
    BY <1>3, <2>1, PrefixOf
<1> QED
  BY <1>2, <1>4, <1>5 DEF m

\* The rules read a prefix as they read the log.
LEMMA TracesPrefix ==
  ASSUME NEW S, NEW l \in Seq(S), NEW n \in 0..Len(l)
  PROVE  \A k \in 0..n : Traces(Upto(l, n))[k] = Traces(l)[k]
<1> DEFINE m == Upto(l, n)
           f == Traces(l)
           g == Traces(m)
<1>1. /\ Len(l) \in Nat /\ n \in Nat /\ n <= Len(l) /\ Len(m) = n
      /\ \A i \in 1..n : m[i] = l[i]
  BY PrefixOf
<1> HIDE DEF m, f, g
<1>3. f = [i \in 0..Len(l) |-> IF i = 0 THEN FreshTrace
                               ELSE applyTransition(f[i - 1], l[i])]
  BY <1>1, TracesDef DEF f
<1>4. g = [i \in 0..n |-> IF i = 0 THEN FreshTrace
                          ELSE applyTransition(g[i - 1], m[i])]
  <2>1. Len(m) \in Nat
    BY <1>1
  <2> QED
    BY <1>1, <2>1, TracesDef DEF g
<1> DEFINE T == {i \in Nat : i <= n => f[i] = g[i]}
<1>5. 0 \in T
  BY <1>1, <1>3, <1>4
<1>6. ASSUME NEW i \in T PROVE i + 1 \in T
  BY <1>1, <1>3, <1>4
<1>7. T = Nat
  <2>1. T \subseteq Nat
    OBVIOUS
  <2> HIDE DEF T
  <2> QED
    BY <1>5, <1>6, <2>1, NatSetInduction
<1>8. \A i \in 0..n : f[i] = g[i]
  BY <1>1, <1>7
<1> QED
  BY <1>8 DEF f, g, m

\* A prefix of an accepted log is accepted, and so is every later part of it.
LEMMA AcceptedPrefix ==
  ASSUME NEW S, NEW l \in Seq(S), NEW n \in 0..Len(l), AcceptedAfter(0, l)
  PROVE  AcceptedAfter(0, Upto(l, n)) /\ AcceptedAfter(n, l)
<1>1. /\ Len(l) \in Nat /\ n \in Nat /\ n <= Len(l) /\ Len(Upto(l, n)) = n
      /\ \A i \in 1..n : Upto(l, n)[i] = l[i]
  BY PrefixOf
<1>2. \A i \in 1..Len(l) : validateEvent(Traces(l)[i - 1], l[i])
  BY DEF AcceptedAfter
<1>3. \A i \in 1..n : i - 1 \in 0..n /\ i \in 1..Len(l)
  BY <1>1
<1>4. \A i \in 1..n : Traces(Upto(l, n))[i - 1] = Traces(l)[i - 1]
  BY <1>3, TracesPrefix
<1>5. AcceptedAfter(0, Upto(l, n))
  BY <1>1, <1>2, <1>3, <1>4 DEF AcceptedAfter
<1>6. AcceptedAfter(n, l)
  BY <1>1, <1>2 DEF AcceptedAfter
<1> QED
  BY <1>5, <1>6

\* A set of positions has a last one.
LEMMA LastPosition ==
  ASSUME NEW n \in Nat, NEW P, P \subseteq 0..n, P # {}
  PROVE  Max(P) \in P /\ \A i \in P : i <= Max(P)
<1> DEFINE T == {k \in Nat : \A Q \in (SUBSET (0..k)) \ {{}} :
                              \E x \in Q : \A y \in Q : y <= x}
<1>1. 0 \in T
  OBVIOUS
<1>2. ASSUME NEW k \in T PROVE k + 1 \in T
  <2> SUFFICES ASSUME NEW Q \in (SUBSET (0..(k + 1))) \ {{}}
               PROVE  \E x \in Q : \A y \in Q : y <= x
    OBVIOUS
  <2>1. CASE k + 1 \in Q
    BY <2>1
  <2>2. CASE k + 1 \notin Q
    <3>1. Q \in (SUBSET (0..k)) \ {{}}
      BY <2>2
    <3> QED
      BY <1>2, <3>1
  <2> QED
    BY <2>1, <2>2
<1>3. T = Nat
  <2>1. T \subseteq Nat
    OBVIOUS
  <2> HIDE DEF T
  <2> QED
    BY <1>1, <1>2, <2>1, NatSetInduction
<1>4. n \in T /\ P \in (SUBSET (0..n)) \ {{}}
  BY <1>3
<1>5. PICK x \in P : \A y \in P : y <= x
  BY <1>4
<1>6. x \in Nat /\ P \subseteq Nat
  OBVIOUS
<1>7. x \in P /\ \A y \in P : x >= y
  BY <1>5, <1>6
<1>8. Max(P) \in P /\ \A y \in P : Max(P) >= y
  BY <1>7 DEF Max
<1> QED
  BY <1>6, <1>8
=============================================================================
