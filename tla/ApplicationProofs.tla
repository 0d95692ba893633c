-------------------------- MODULE ApplicationProofs -------------------------
(***************************************************************************)
(* Theorems about the destination server, by itself and in the             *)
(* end-to-end application, for every table size, block length, set of runs *)
(* and order of deliveries.                                                *)
(***************************************************************************)
EXTENDS Application, TrafficGeneratorProofs, FiniteSetTheorems,
        WellFoundedInduction, TLAPS

-----------------------------------------------------------------------------
(* Sums.  Since adds up a function with a fold, whose recursion goes over  *)
(* the subsets of a set.                                                   *)

\* Induction: a set of naturals with zero and all successors has them all.
LEMMA NatSetInduction ==
  ASSUME NEW S, 0 \in S, \A n \in Nat : n \in S => n + 1 \in S
  PROVE  Nat \subseteq S
<1> SUFFICES ASSUME Nat \ S # {}
             PROVE  FALSE
  OBVIOUS
<1> DEFINE T == Nat \ S
<1>1. PICK x \in T : \A y \in T : ~(<<y, x>> \in OpToRel(<, Nat))
  BY NatLessThanWellFounded, WFMin, Zenon
<1>2. x # 0 /\ x \in Nat
  OBVIOUS
<1>3. x - 1 \in T
  BY <1>2
<1>4. <<x - 1, x>> \in OpToRel(<, Nat)
  <2>1. x - 1 \in Nat /\ x - 1 < x
    BY <1>2
  <2> QED BY <1>2, <2>1 DEF OpToRel
<1> QED  BY <1>1, <1>3, <1>4

\* The element the fold takes next, and one unfolding of its recursion.
Next1(s) == CHOOSE x \in s : TRUE
AddUp(f, g, s) == IF s = {} THEN 0 ELSE f[Next1(s)] + g[s \ {Next1(s)}]
SumOf(f, S) ==
  CHOOSE g : g = [s \in SUBSET S |-> AddUp(f, g, s)]

LEMMA Next1In == \A s : s # {} => Next1(s) \in s
  BY DEF Next1

LEMMA FoldIsSum ==
  ASSUME NEW f, NEW S
  PROVE  FoldFunctionOnSet(+, 0, f, S) = SumOf(f, S)[S]
  BY DEF FoldFunctionOnSet, MapThenFoldSet, SumOf, AddUp, Next1

\* The subsets of at most n elements.
UpTo(S, n) == {s \in SUBSET S : Cardinality(s) <= n}

LEMMA LessOne ==
  ASSUME NEW S, IsFiniteSet(S), NEW n \in Nat,
         NEW s \in UpTo(S, n + 1), s # {}
  PROVE  s \ {Next1(s)} \in UpTo(S, n)
<1>1. s \in SUBSET S /\ IsFiniteSet(s) /\ Cardinality(s) <= n + 1
  BY FS_Subset DEF UpTo
<1>2. Cardinality(s) \in Nat
  BY <1>1, FS_CardinalityType
<1>3. Next1(s) \in s
  BY Next1In
<1>4. Cardinality(s \ {Next1(s)}) = Cardinality(s) - 1
  BY <1>1, <1>3, FS_RemoveElement
<1>5. Cardinality(s \ {Next1(s)}) <= n
  BY <1>1, <1>2, <1>4
<1> QED  BY <1>1, <1>5 DEF UpTo

\* The recursion has a solution.
LEMMA SumExists ==
  ASSUME NEW S, IsFiniteSet(S), NEW f
  PROVE  SumOf(f, S) = [s \in SUBSET S |-> AddUp(f, SumOf(f, S), s)]
<1> DEFINE Solves(g, n) == g = [s \in UpTo(S, n) |-> AddUp(f, g, s)]
           N == {n \in Nat : \E g : Solves(g, n)}
<1>1. 0 \in N
  <2> DEFINE g == [s \in UpTo(S, 0) |-> 0]
  <2>1. \A s \in UpTo(S, 0) : s = {}
    <3> SUFFICES ASSUME NEW s \in UpTo(S, 0)
                 PROVE  s = {}
      OBVIOUS
    <3>1. IsFiniteSet(s) /\ Cardinality(s) <= 0
      BY FS_Subset DEF UpTo
    <3>2. Cardinality(s) = 0
      BY <3>1, FS_CardinalityType
    <3> QED  BY <3>1, <3>2, FS_EmptySet
  <2>2. Solves(g, 0)
    BY <2>1 DEF AddUp
  <2> QED  BY <2>2
<1>2. ASSUME NEW n \in Nat, n \in N
      PROVE  n + 1 \in N
  <2>1. PICK g : Solves(g, n)
    BY <1>2
  <2> DEFINE h == [s \in UpTo(S, n + 1) |-> AddUp(f, g, s)]
  <2>2. UpTo(S, n) \subseteq UpTo(S, n + 1)
    <3> SUFFICES ASSUME NEW s \in UpTo(S, n)
                 PROVE  s \in UpTo(S, n + 1)
      OBVIOUS
    <3>1. IsFiniteSet(s) /\ s \in SUBSET S /\ Cardinality(s) <= n
      BY FS_Subset DEF UpTo
    <3>2. Cardinality(s) <= n + 1
      BY <3>1, FS_CardinalityType
    <3> QED  BY <3>1, <3>2 DEF UpTo
  <2>3. \A s \in UpTo(S, n) : g[s] = h[s]
    <3>1. \A s \in UpTo(S, n) : g[s] = AddUp(f, g, s)
      BY <2>1, Zenon
    <3> QED  BY <2>2, <3>1
  <2>4. ASSUME NEW s \in UpTo(S, n + 1)
        PROVE  AddUp(f, g, s) = AddUp(f, h, s)
    <3>1. CASE s = {}
      BY <3>1 DEF AddUp
    <3>2. CASE s # {}
      <4>1. g[s \ {Next1(s)}] = h[s \ {Next1(s)}]
        BY <2>3, <3>2, LessOne
      <4> HIDE DEF h
      <4> QED  BY <3>2, <4>1 DEF AddUp
    <3> QED  BY <3>1, <3>2
  <2>5. Solves(h, n + 1)
    <3>1. h = [s \in UpTo(S, n + 1) |-> AddUp(f, h, s)]
      BY <2>4, Zenon
    <3> QED  BY <3>1
  <2> HIDE DEF h
  <2>6. n + 1 \in Nat
    OBVIOUS
  <2> QED  BY <2>5, <2>6
<1>3. Nat \subseteq N
  <2> HIDE DEF N
  <2> QED  BY <1>1, <1>2, NatSetInduction
<1>4. Cardinality(S) \in Nat
  BY FS_CardinalityType
<1>5. UpTo(S, Cardinality(S)) = SUBSET S
  BY FS_Subset DEF UpTo
<1>6. PICK g : Solves(g, Cardinality(S))
  BY <1>3, <1>4
<1>7. g = [s \in SUBSET S |-> AddUp(f, g, s)]
  BY <1>5, <1>6
<1> QED  BY <1>7, Zenon DEF SumOf

\* A function is what its recursion says wherever it is defined.
LEMMA SumUnfolds ==
  ASSUME NEW S, IsFiniteSet(S), NEW f
  PROVE  \A s \in SUBSET S : SumOf(f, S)[s] = AddUp(f, SumOf(f, S), s)
<1>1. ASSUME NEW g, NEW T, g = [s \in T |-> AddUp(f, g, s)]
      PROVE  \A s \in T : g[s] = AddUp(f, g, s)
  BY <1>1, Zenon
<1> DEFINE g == SumOf(f, S)
<1>2. g = [s \in SUBSET S |-> AddUp(f, g, s)]
  BY SumExists
<1> HIDE DEF g
<1>3. \A s \in SUBSET S : g[s] = AddUp(f, g, s)
  BY <1>1, <1>2, Zenon
<1> QED  BY <1>3 DEF g

\* A sum of integers is one, and grows by one when one of its terms does.
LEMMA SumShift ==
  ASSUME NEW S, IsFiniteSet(S), NEW f, NEW h, NEW q,
         \A x \in S : f[x] \in Int,
         \A x \in S : h[x] = IF x = q THEN f[x] + 1 ELSE f[x]
  PROVE  /\ SumOf(f, S)[S] \in Int
         /\ SumOf(h, S)[S] = SumOf(f, S)[S] + IF q \in S THEN 1 ELSE 0
<1> DEFINE F == SumOf(f, S)
           H == SumOf(h, S)
           Right(s) == /\ F[s] \in Int
                       /\ H[s] = F[s] + IF q \in s THEN 1 ELSE 0
           N == {n \in Nat : \A s \in UpTo(S, n) : Right(s)}
<1>1. \A s \in SUBSET S : F[s] = AddUp(f, F, s) /\ H[s] = AddUp(h, H, s)
  BY SumUnfolds
<1> HIDE DEF F, H
<1>2. Right({})
  <2>1. {} \in SUBSET S
    OBVIOUS
  <2>2. F[{}] = 0 /\ H[{}] = 0
    BY <1>1, <2>1 DEF AddUp
  <2> QED  BY <2>2
<1>3. 0 \in N
  <2> SUFFICES ASSUME NEW s \in UpTo(S, 0)
               PROVE  s = {}
    BY <1>2
  <2>1. IsFiniteSet(s) /\ Cardinality(s) <= 0
    BY FS_Subset DEF UpTo
  <2>2. Cardinality(s) = 0
    BY <2>1, FS_CardinalityType
  <2> QED  BY <2>1, <2>2, FS_EmptySet
<1>4. ASSUME NEW n \in Nat, n \in N
      PROVE  n + 1 \in N
  <2>0. n + 1 \in Nat
    OBVIOUS
  <2> SUFFICES ASSUME NEW s \in UpTo(S, n + 1), s # {}
               PROVE  Right(s)
    <3>1. ASSUME NEW s \in UpTo(S, n + 1), s = {}
          PROVE  Right(s)
      BY <1>2, <3>1
    <3> QED  BY <2>0, <3>1, Zenon
  <2> DEFINE x == Next1(s)
             r == s \ {x}
  <2>1. x \in s /\ x \in S /\ s \in SUBSET S
    BY Next1In DEF UpTo
  <2>2. Right(r)
    BY <1>4, LessOne
  <2>3. F[s] = f[x] + F[r] /\ H[s] = h[x] + H[r]
    BY <1>1, <2>1 DEF AddUp
  <2>4. q \in s <=> q = x \/ q \in r
    BY <2>1
  <2>5. q = x => q \notin r
    OBVIOUS
  <2>6. f[x] \in Int /\ h[x] = IF x = q THEN f[x] + 1 ELSE f[x]
    BY <2>1
  <2> HIDE DEF r, x
  <2> QED  BY <2>2, <2>3, <2>4, <2>5, <2>6
<1>5. Nat \subseteq N
  <2> HIDE DEF N
  <2> QED  BY <1>3, <1>4, NatSetInduction
<1>6. Cardinality(S) \in Nat /\ S \in UpTo(S, Cardinality(S))
  BY FS_CardinalityType DEF UpTo
<1> QED  BY <1>5, <1>6 DEF F, H

LEMMA SumOfZeros ==
  ASSUME NEW S, IsFiniteSet(S), NEW f, \A x \in S : f[x] = 0
  PROVE  SumOf(f, S)[S] = 0
<1> DEFINE F == SumOf(f, S)
           N == {n \in Nat : \A s \in UpTo(S, n) : F[s] = 0}
<1>1. \A s \in SUBSET S : F[s] = AddUp(f, F, s)
  BY SumUnfolds
<1> HIDE DEF F
<1>2. F[{}] = 0
  BY <1>1 DEF AddUp
<1>3. 0 \in N
  <2> SUFFICES ASSUME NEW s \in UpTo(S, 0)
               PROVE  s = {}
    BY <1>2
  <2>1. IsFiniteSet(s) /\ Cardinality(s) <= 0
    BY FS_Subset DEF UpTo
  <2>2. Cardinality(s) = 0
    BY <2>1, FS_CardinalityType
  <2> QED  BY <2>1, <2>2, FS_EmptySet
<1>4. ASSUME NEW n \in Nat, n \in N
      PROVE  n + 1 \in N
  <2> SUFFICES ASSUME NEW s \in UpTo(S, n + 1), s # {}
               PROVE  F[s] = 0
    BY <1>2
  <2>1. Next1(s) \in S /\ s \in SUBSET S
    BY Next1In DEF UpTo
  <2>2. F[s \ {Next1(s)}] = 0
    BY <1>4, LessOne
  <2>3. F[s] = f[Next1(s)] + F[s \ {Next1(s)}]
    BY <1>1, <2>1 DEF AddUp
  <2>4. f[Next1(s)] = 0
    BY <2>1
  <2> QED  BY <2>2, <2>3, <2>4
<1>5. Nat \subseteq N
  <2> HIDE DEF N
  <2> QED  BY <1>3, <1>4, NatSetInduction
<1>6. Cardinality(S) \in Nat /\ S \in UpTo(S, Cardinality(S))
  BY FS_CardinalityType DEF UpTo
<1> QED  BY <1>5, <1>6 DEF F
-----------------------------------------------------------------------------
(* The destination server's table and totals.                              *)

LEMMA BelowFinite ==
  /\ Numbers \subseteq Nat /\ IsFiniteSet(Numbers)
  /\ Below \subseteq Numbers /\ IsFiniteSet(Below)
  /\ Capacity \in Nat \ {0} /\ NoRun \notin Runs
<1>1. Below \subseteq Numbers
  BY DEF Below
<1>2. IsFiniteSet(Below)
  BY <1>1, NumbersAssumption, FS_Subset
<1> QED  BY <1>1, <1>2, NumbersAssumption DEF Capacity

\* The counters as one value, which Fresh and Kept are instances of.
Table(m, u, k, S, lo, hi, e) ==
  [matched |-> m, uniques |-> u, dups |-> k, seen |-> S, min |-> lo,
   max |-> hi, emitted |-> e]

LEMMA NotedIs ==
  ASSUME NEW m, NEW u, NEW k, NEW S, NEW lo, NEW hi, NEW e, NEW q
  PROVE  Noted([Table(m, u, k, S, lo, hi, e) EXCEPT !.matched = @ + 1], q) =
           IF q >= Capacity THEN Table(m + 1, u, k, S, lo, hi, e)
           ELSE IF q \in S THEN Table(m + 1, u, k + 1, S, lo, hi, e)
           ELSE Table(m + 1, u + 1, k, S \cup {q},
                      IF lo = NoSeq \/ q < lo THEN q ELSE lo,
                      IF q > hi THEN q ELSE hi, e)
<1> DEFINE c == [Table(m, u, k, S, lo, hi, e) EXCEPT !.matched = @ + 1]
<1>1. c = Table(m + 1, u, k, S, lo, hi, e)
  BY DEF Table
<1>2. Noted(c, q) = Noted(Table(m + 1, u, k, S, lo, hi, e), q)
  BY <1>1
<1>3. CASE q >= Capacity
  BY <1>2, <1>3 DEF Noted
<1>4. CASE ~(q >= Capacity) /\ q \in S
  BY <1>2, <1>4 DEF Noted, Table
<1>5. CASE ~(q >= Capacity) /\ q \notin S
  BY <1>2, <1>5 DEF Noted, Table
<1> QED  BY <1>3, <1>4, <1>5

\* What counting datagram d does to the variables.
CountedInto(m, u, k, S, lo, hi, q) ==
  /\ matched' = m + 1
  /\ q >= Capacity =>
       /\ uniques' = u /\ dups' = k /\ seen' = S
       /\ minSeq' = lo /\ maxSeq' = hi
  /\ ~(q >= Capacity) /\ q \in S =>
       /\ uniques' = u /\ dups' = k + 1 /\ seen' = S
       /\ minSeq' = lo /\ maxSeq' = hi
  /\ ~(q >= Capacity) /\ q \notin S =>
       /\ uniques' = u + 1 /\ dups' = k /\ seen' = S \cup {q}
       /\ minSeq' = IF lo = NoSeq \/ q < lo THEN q ELSE lo
       /\ maxSeq' = IF q > hi THEN q ELSE hi

NowSummary(r) == Summary(r, matched, uniques, dups, seen, maxSeq)

SummedUp(e, r) ==
  LET whole == Expected > 0 /\ uniques' >= Expected /\ ~e
  IN  /\ summaryEmitted' = (e \/ whole)
      /\ summaries' =
           IF whole
           THEN Append(summaries,
                       Summary(r, matched', uniques', dups', seen', maxSeq'))
           ELSE summaries

LEMMA MeasuredIs ==
  ASSUME NEW m, NEW u, NEW k, NEW S, NEW lo, NEW hi, NEW e, NEW d,
         Measured(Table(m, u, k, S, lo, hi, e), d)
  PROVE  CountedInto(m, u, k, S, lo, hi, d.seq) /\ SummedUp(e, d.run)
<1> DEFINE n == Noted([Table(m, u, k, S, lo, hi, e) EXCEPT !.matched = @ + 1],
                      d.seq)
<1>1. /\ matched' = n.matched /\ uniques' = n.uniques /\ dups' = n.dups
      /\ seen' = n.seen /\ minSeq' = n.min /\ maxSeq' = n.max
      /\ LET whole == Expected > 0 /\ n.uniques >= Expected /\ ~n.emitted
         IN  /\ summaryEmitted' = (n.emitted \/ whole)
             /\ summaries' =
                  IF whole
                  THEN Append(summaries, Summary(d.run, n.matched, n.uniques,
                                            n.dups, n.seen, n.max))
                  ELSE summaries
  BY DEF Measured
<1>2. n = IF d.seq >= Capacity THEN Table(m + 1, u, k, S, lo, hi, e)
          ELSE IF d.seq \in S THEN Table(m + 1, u, k + 1, S, lo, hi, e)
          ELSE Table(m + 1, u + 1, k, S \cup {d.seq},
                     IF lo = NoSeq \/ d.seq < lo THEN d.seq ELSE lo,
                     IF d.seq > hi THEN d.seq ELSE hi, e)
  BY NotedIs
<1> HIDE DEF n
<1>3. n.matched = m + 1 /\ n.emitted = e
  BY <1>2 DEF Table
<1>4. CountedInto(m, u, k, S, lo, hi, d.seq)
  BY <1>1, <1>2 DEF Table, CountedInto
<1> QED  BY <1>1, <1>3, <1>4 DEF SummedUp

\* The three ways a datagram with a header is received.
Counted(d) ==
  /\ d \in Datagrams
  /\ heard' = [heard EXCEPT ![d] = @ + 1]
  /\ stopRequested' = stopRequested
  /\ dsPc = "receive" /\ dsPc' = "top"
TakenUp(d) ==
  /\ Counted(d) /\ TakesUp(d)
  /\ haveRun' = TRUE /\ current' = d.run /\ ignored' = heard
  /\ Measured(Table(0, 0, 0, {}, NoSeq, 0, FALSE), d)
OfTheRun(d) ==
  /\ Counted(d) /\ haveRun /\ d.run = current
  /\ UNCHANGED <<haveRun, current, ignored>>
  /\ Measured(Table(matched, uniques, dups, seen, minSeq, maxSeq,
                    summaryEmitted), d)
PassedOver(d) ==
  /\ Counted(d) /\ haveRun /\ d.run # current /\ d.seq # 0
  /\ UNCHANGED <<haveRun, current, ignored, matched, uniques, dups, seen,
                 minSeq, maxSeq, summaryEmitted, summaries>>

\* Everything the counters and the histories consist of.
dsCounters ==
  <<haveRun, current, matched, uniques, dups, seen, minSeq, maxSeq,
    summaryEmitted, heard, ignored>>

LEMMA DsStepForms ==
  ASSUME DsNext
  PROVE  \/ \E d \in Datagrams : TakenUp(d) \/ OfTheRun(d) \/ PassedOver(d)
         \/ /\ UNCHANGED <<dsCounters, summaries>>
            /\ dsPc' \in {dsPc, "top", "receive", "exited"}
            /\ stopRequested' \in {stopRequested, TRUE}
            /\ dsPc' = "exited" => dsPc \in {"start", "exited"}
            /\ dsPc = "exited" => dsPc' = "exited"
         \/ /\ dsPc # "exited" /\ Finish
<1>1. CASE ServerFails \/ Listen \/ LoopTest \/ NothingReceived
  BY <1>1 DEF ServerFails, Listen, LoopTest, NothingReceived, dsCounters
<1>2. CASE Stopped \/ ReceiveFails
  BY <1>2 DEF Stopped, ReceiveFails
<1>3. CASE StopSignal
  BY <1>3 DEF StopSignal, dsCounters
<1>4. ASSUME NEW d \in Datagrams \cup {Runt}, Receive(d)
      PROVE  \/ d \in Datagrams /\
                  (TakenUp(d) \/ OfTheRun(d) \/ PassedOver(d))
             \/ /\ UNCHANGED <<dsCounters, summaries, stopRequested>>
                /\ dsPc # "exited" /\ dsPc' = "top"
  <2>1. CASE d = Runt
    BY <1>4, <2>1 DEF Receive, dsCounters
  <2>2. CASE d # Runt
    <3>1. Counted(d)
      BY <1>4, <2>2 DEF Receive, Counted
    <3>2. CASE TakesUp(d)
      BY <1>4, <2>2, <3>1, <3>2 DEF Receive, TakenUp, Fresh, Table
    <3>3. CASE ~TakesUp(d) /\ d.run = current
      BY <1>4, <2>2, <3>1, <3>3 DEF Receive, OfTheRun, Kept, Table, TakesUp
    <3>4. CASE ~TakesUp(d) /\ d.run # current
      BY <1>4, <2>2, <3>1, <3>4 DEF Receive, PassedOver, TakesUp
    <3> QED  BY <3>2, <3>3, <3>4
  <2> QED  BY <2>1, <2>2
<1> QED  BY <1>1, <1>2, <1>3, <1>4 DEF DsNext, OwnStep

\* What the histories say: nothing is forgotten, a run is being measured
\* once anything has come, and something of that run has come.
HistoriesOK ==
  /\ \A d \in Datagrams : ignored[d] <= heard[d]
  /\ ~haveRun => \A d \in Datagrams : heard[d] = 0
  /\ haveRun => \E e \in Datagrams : e.run = current /\ heard[e] > 0

\* An empty table has no smallest and no largest number.
EmptyTable == seen = {} => minSeq = NoSeq /\ maxSeq = 0

DsInv == DsTypeOK /\ HistoriesOK /\ EmptyTable /\ CountsExact

\* The deliveries counted by Since, of one run between two histories.
Gain(h, g, r) ==
  [q \in Numbers |-> h[[run |-> r, seq |-> q]] - g[[run |-> r, seq |-> q]]]

LEMMA SinceIsSum ==
  ASSUME NEW S
  PROVE  /\ Since(S) = SumOf(Gain(heard, ignored, current), S)[S]
         /\ Since(S)' = SumOf(Gain(heard', ignored', current'), S')[S']
<1>1. Since(S) = SumOf(Gain(heard, ignored, current), S)[S]
  BY DEF Since, Gain, FoldFunctionOnSet, MapThenFoldSet, SumOf, AddUp, Next1
<1>2. Since(S)' = SumOf(Gain(heard', ignored', current'), S')[S']
  BY DEF Since, Gain, FoldFunctionOnSet, MapThenFoldSet, SumOf, AddUp, Next1
<1> QED  BY <1>1, <1>2

LEMMA DatagramOf ==
  \A r \in Runs, q \in Numbers : [run |-> r, seq |-> q] \in Datagrams
  BY DEF Datagrams

LEMMA DatagramIs ==
  ASSUME NEW d \in Datagrams
  PROVE  /\ d.run \in Runs /\ d.seq \in Numbers /\ d.seq \in Nat
         /\ d = [run |-> d.run, seq |-> d.seq]
         /\ (d.seq \in Below <=> ~(d.seq >= Capacity))
         /\ \A r \in Runs, q \in Numbers :
              /\ [run |-> r, seq |-> q] \in Datagrams
              /\ [run |-> r, seq |-> q] = d <=> r = d.run /\ q = d.seq
<1>1. d.run \in Runs /\ d.seq \in Numbers /\ d = [run |-> d.run, seq |-> d.seq]
  BY DEF Datagrams
<1>2. d.seq \in Nat /\ (d.seq \in Below <=> ~(d.seq >= Capacity))
  BY <1>1, BelowFinite DEF Below
<1>3. ASSUME NEW r \in Runs, NEW q \in Numbers
      PROVE  [run |-> r, seq |-> q] = d <=> r = d.run /\ q = d.seq
  BY <1>1
<1> QED  BY <1>1, <1>2, <1>3, DatagramOf

\* One more delivery, counted in its run.
LEMMA GainGrows ==
  ASSUME NEW h \in [Datagrams -> Nat], NEW g \in [Datagrams -> Nat],
         NEW d \in Datagrams, NEW k, k = [h EXCEPT ![d] = @ + 1],
         NEW S \in {Numbers, Below}
  PROVE  /\ SumOf(Gain(h, g, d.run), S)[S] \in Int
         /\ SumOf(Gain(k, g, d.run), S)[S]
              = SumOf(Gain(h, g, d.run), S)[S] + IF d.seq \in S THEN 1 ELSE 0
<1> DEFINE r == d.run
<1>1. S \subseteq Numbers /\ IsFiniteSet(S) /\ r \in Runs
  BY BelowFinite, DatagramIs
<1>2. ASSUME NEW q \in Numbers
      PROVE  /\ Gain(h, g, r)[q] \in Int
             /\ Gain(k, g, r)[q] = IF q = d.seq THEN Gain(h, g, r)[q] + 1
                                   ELSE Gain(h, g, r)[q]
  <2> DEFINE e == [run |-> r, seq |-> q]
  <2>1. e \in Datagrams /\ (e = d <=> q = d.seq)
    BY <1>1, DatagramIs
  <2>2. k[e] = IF q = d.seq THEN h[e] + 1 ELSE h[e]
    BY <2>1
  <2>3. Gain(k, g, r)[q] = k[e] - g[e] /\ Gain(h, g, r)[q] = h[e] - g[e]
    BY DEF Gain
  <2>4. h[e] \in Nat /\ g[e] \in Nat
    BY <2>1
  <2> HIDE DEF e
  <2> QED  BY <2>2, <2>3, <2>4
<1> DEFINE F == Gain(h, g, r)
           G == Gain(k, g, r)
<1>3. /\ \A x \in S : F[x] \in Int
      /\ \A x \in S : G[x] = IF x = d.seq THEN F[x] + 1 ELSE F[x]
  BY <1>1, <1>2
<1> HIDE DEF F, G
<1>4. /\ SumOf(F, S)[S] \in Int
      /\ SumOf(G, S)[S] = SumOf(F, S)[S] + IF d.seq \in S THEN 1 ELSE 0
  BY <1>1, <1>3, SumShift
<1> QED  BY <1>4 DEF F, G

\* Between a history and itself there is nothing.
LEMMA GainOfNothing ==
  ASSUME NEW h \in [Datagrams -> Nat], NEW r \in Runs,
         NEW S \in {Numbers, Below}
  PROVE  SumOf(Gain(h, h, r), S)[S] = 0
<1>1. S \subseteq Numbers /\ IsFiniteSet(S)
  BY BelowFinite
<1>2. \A q \in Numbers : Gain(h, h, r)[q] = 0
  <2> SUFFICES ASSUME NEW q \in Numbers
               PROVE  Gain(h, h, r)[q] = 0
    OBVIOUS
  <2> DEFINE e == [run |-> r, seq |-> q]
  <2>1. h[e] \in Nat
    BY DatagramOf
  <2>2. Gain(h, h, r)[q] = h[e] - h[e]
    BY DEF Gain
  <2> HIDE DEF e
  <2> QED  BY <2>1, <2>2
<1> QED  BY <1>1, <1>2, SumOfZeros

LEMMA DsInitInv ==
  ASSUME DsInit
  PROVE  DsInv
<1>1. \A d \in Datagrams : heard[d] = 0 /\ ignored[d] = 0
  BY DEF DsInit
<1>2. heard \in [Datagrams -> Nat] /\ ignored \in [Datagrams -> Nat]
  BY DEF DsInit
<1>3. DsTypeOK
  BY <1>2, BelowFinite DEF DsInit, DsTypeOK
<1> QED  BY <1>1, <1>3 DEF DsInit, DsInv, HistoriesOK, EmptyTable, CountsExact,
                           TableExact, TotalsExact, FirstRunWhole

\* What every step of a received datagram keeps of the types.
LEMMA CountedTypes ==
  ASSUME DsTypeOK, NEW d \in Datagrams, Counted(d),
         NEW m \in Nat, NEW u \in Nat, NEW k \in Nat, NEW S \in SUBSET Below,
         NEW lo \in Below \cup {NoSeq}, NEW hi \in Below \cup {0},
         NEW e \in BOOLEAN,
         Measured(Table(m, u, k, S, lo, hi, e), d),
         haveRun', current' \in Runs, ignored' \in {ignored, heard}
  PROVE  DsTypeOK'
<1>1. heard' \in [Datagrams -> Nat] /\ ignored' \in [Datagrams -> Nat]
  BY DEF DsTypeOK, Counted
<1>2. d.seq \in Numbers /\ (d.seq \in Below <=> ~(d.seq >= Capacity))
  BY DatagramIs
<1>3. /\ matched' \in Nat /\ uniques' \in Nat /\ dups' \in Nat
      /\ seen' \subseteq Below /\ minSeq' \in Below \cup {NoSeq}
      /\ maxSeq' \in Below \cup {0} /\ summaryEmitted' \in BOOLEAN
  <2>1. CountedInto(m, u, k, S, lo, hi, d.seq) /\ SummedUp(e, d.run)
    BY MeasuredIs
  <2>2. matched' = m + 1 /\ summaryEmitted' \in BOOLEAN
    BY <2>1 DEF CountedInto, SummedUp
  <2>3. CASE d.seq \in Below /\ d.seq \notin S
    <3>1. uniques' = u + 1 /\ dups' = k /\ seen' = S \cup {d.seq}
          /\ minSeq' \in {lo, d.seq} /\ maxSeq' \in {hi, d.seq}
      BY <1>2, <2>1, <2>3 DEF CountedInto
    <3> QED  BY <2>2, <2>3, <3>1
  <2>4. CASE ~(d.seq \in Below /\ d.seq \notin S)
    <3>1. uniques' = u /\ dups' \in {k, k + 1} /\ seen' = S
          /\ minSeq' = lo /\ maxSeq' = hi
      BY <1>2, <2>1, <2>4 DEF CountedInto
    <3> QED  BY <2>2, <3>1
  <2> QED  BY <2>3, <2>4
<1> QED  BY <1>1, <1>3, BelowFinite DEF DsTypeOK, Counted

LEMMA TakenUpInv ==
  ASSUME DsInv, NEW d \in Datagrams, TakenUp(d)
  PROVE  DsInv'
<1>1. d.run \in Runs /\ d.seq \in Numbers /\ d.seq \in Nat
      /\ (d.seq \in Below <=> ~(d.seq >= Capacity))
  BY DatagramIs
<1>2. /\ heard \in [Datagrams -> Nat] /\ heard' = [heard EXCEPT ![d] = @ + 1]
      /\ ignored' = heard /\ haveRun' = TRUE /\ current' = d.run
      /\ Measured(Table(0, 0, 0, {}, NoSeq, 0, FALSE), d)
  BY DEF DsInv, DsTypeOK, TakenUp, Counted
<1>3. DsTypeOK'
  BY <1>1, <1>2, CountedTypes DEF DsInv, TakenUp
<1>0. CountedInto(0, 0, 0, {}, NoSeq, 0, d.seq)
  BY <1>2, MeasuredIs
<1>4. \A x \in Datagrams :
        heard'[x] = IF x = d THEN heard[x] + 1 ELSE heard[x]
  BY <1>2
<1>5. HistoriesOK'
  <2>1. \A x \in Datagrams : heard[x] \in Nat
    BY <1>2
  <2> QED  BY <1>2, <1>4, <2>1 DEF HistoriesOK
<1>6. TableExact'
  <2>1. \A q \in Below : Came(q)' <=> q = d.seq
    <3> SUFFICES ASSUME NEW q \in Below
                 PROVE  Came(q)' <=> q = d.seq
      OBVIOUS
    <3> DEFINE x == [run |-> d.run, seq |-> q]
    <3>1. x \in Datagrams /\ (x = d <=> q = d.seq) /\ heard[x] \in Nat
      BY <1>1, <1>2, DatagramIs, BelowFinite
    <3>2. Came(q)' <=> heard'[x] > heard[x]
      BY <1>2 DEF Came
    <3> HIDE DEF x
    <3> QED  BY <1>4, <3>1, <3>2
  <2>2. Below' = Below
    BY DEF Below, Capacity
  <2>3. CASE d.seq \in Below
    <3>1. seen' = {d.seq} /\ uniques' = 1 /\ minSeq' = d.seq
          /\ maxSeq' = d.seq
      BY <1>0, <1>1, <2>3 DEF CountedInto
    <3>2. Cardinality(seen') = 1
      BY <3>1, FS_Singleton
    <3>3. seen' = {q \in Below' : Came(q)'}
      BY <2>1, <2>2, <2>3, <3>1
    <3> QED  BY <1>1, <3>1, <3>2, <3>3 DEF TableExact
  <2>4. CASE d.seq \notin Below
    <3>1. seen' = {} /\ uniques' = 0
      BY <1>0, <1>1, <2>4 DEF CountedInto
    <3>2. Cardinality(seen') = 0
      BY <3>1, FS_EmptySet
    <3>3. seen' = {q \in Below' : Came(q)'}
      BY <2>1, <2>2, <2>4, <3>1
    <3> QED  BY <3>1, <3>2, <3>3 DEF TableExact
  <2> QED  BY <2>3, <2>4
<1>7. TotalsExact'
  <2>1. Below' = Below /\ Numbers' = Numbers
    BY DEF Below, Capacity
  <2>2. /\ Since(Numbers)' = SumOf(Gain(heard', heard, d.run), Numbers)[Numbers]
        /\ Since(Below)' = SumOf(Gain(heard', heard, d.run), Below)[Below]
    BY <1>2, <2>1, SinceIsSum
  <2>3. /\ Since(Numbers)' = 1
        /\ Since(Below)' = IF d.seq \in Below THEN 1 ELSE 0
    <3>1. SumOf(Gain(heard, heard, d.run), Numbers)[Numbers] = 0
          /\ SumOf(Gain(heard, heard, d.run), Below)[Below] = 0
      BY <1>1, <1>2, GainOfNothing
    <3>2. SumOf(Gain(heard', heard, d.run), Numbers)[Numbers]
            = SumOf(Gain(heard, heard, d.run), Numbers)[Numbers] + 1
      BY <1>1, <1>2, GainGrows
    <3>3. SumOf(Gain(heard', heard, d.run), Below)[Below]
            = SumOf(Gain(heard, heard, d.run), Below)[Below]
                + IF d.seq \in Below THEN 1 ELSE 0
      BY <1>1, <1>2, GainGrows
    <3> QED  BY <2>2, <3>1, <3>2, <3>3
  <2>4. /\ matched' = 1 /\ dups' = 0
        /\ uniques' = IF d.seq \in Below THEN 1 ELSE 0
    BY <1>0, <1>1 DEF CountedInto
  <2> QED  BY <2>3, <2>4 DEF TotalsExact
<1>8. FirstRunWhole'
  BY <1>2, BelowFinite
     DEF FirstRunWhole, DsInv, HistoriesOK, TakenUp, TakesUp, DsTypeOK
<1>9. EmptyTable'
  BY <1>0 DEF CountedInto, EmptyTable
<1> QED  BY <1>3, <1>5, <1>6, <1>7, <1>8, <1>9 DEF DsInv, CountsExact

LEMMA OfTheRunInv ==
  ASSUME DsInv, NEW d \in Datagrams, OfTheRun(d)
  PROVE  DsInv'
<1>1. d.run \in Runs /\ d.seq \in Numbers /\ d.seq \in Nat
      /\ (d.seq \in Below <=> ~(d.seq >= Capacity))
  BY DatagramIs
<1>2. /\ heard \in [Datagrams -> Nat] /\ heard' = [heard EXCEPT ![d] = @ + 1]
      /\ ignored \in [Datagrams -> Nat] /\ ignored' = ignored
      /\ haveRun /\ haveRun' = haveRun
      /\ current' = current /\ current = d.run
      /\ Measured(Table(matched, uniques, dups, seen, minSeq, maxSeq,
                        summaryEmitted), d)
  BY DEF DsInv, DsTypeOK, OfTheRun, Counted
<1>3. CountedInto(matched, uniques, dups, seen, minSeq, maxSeq, d.seq)
  BY <1>2, MeasuredIs
<1>4. DsTypeOK'
  <2>1. Counted(d)
    BY DEF OfTheRun
  <2> QED  BY <1>1, <1>2, <2>1, CountedTypes DEF DsInv, DsTypeOK
<1>5. \A x \in Datagrams :
        heard'[x] = IF x = d THEN heard[x] + 1 ELSE heard[x]
  BY <1>2
<1>6. \A x \in Datagrams : heard[x] \in Nat /\ ignored[x] \in Nat
  BY <1>2
<1>7. HistoriesOK'
  <2>1. \A x \in Datagrams : ignored'[x] <= heard'[x]
    BY <1>2, <1>5, <1>6 DEF DsInv, HistoriesOK
  <2>2. heard'[d] > 0
    BY <1>5, <1>6
  <2> QED  BY <1>2, <2>1, <2>2 DEF HistoriesOK
<1>8. TableExact'
  <2>1. Below' = Below /\ Below \subseteq Nat
    BY BelowFinite DEF Below, Capacity
  <2>2. \A q \in Below : Came(q)' <=> Came(q) \/ q = d.seq
    <3> SUFFICES ASSUME NEW q \in Below
                 PROVE  Came(q)' <=> Came(q) \/ q = d.seq
      OBVIOUS
    <3> DEFINE x == [run |-> current, seq |-> q]
    <3>1. x \in Datagrams /\ (x = d <=> q = d.seq)
      BY <1>1, <1>2, DatagramIs, BelowFinite
    <3>2. heard[x] \in Nat /\ ignored[x] \in Nat /\ ignored[x] <= heard[x]
      BY <1>6, <3>1 DEF DsInv, HistoriesOK
    <3>3. /\ Came(q) <=> heard[x] > ignored[x]
          /\ Came(q)' <=> heard'[x] > ignored[x]
      BY <1>2 DEF Came
    <3> HIDE DEF x
    <3> QED  BY <1>5, <3>1, <3>2, <3>3
  <2>3. /\ seen = {q \in Below : Came(q)} /\ uniques = Cardinality(seen)
        /\ seen # {} => /\ minSeq \in seen /\ maxSeq \in seen
                        /\ \A q \in seen : minSeq <= q /\ q <= maxSeq
    BY <1>2 DEF DsInv, CountsExact, TableExact
  <2>4. seen \subseteq Below /\ IsFiniteSet(seen)
        /\ minSeq \in Below \cup {NoSeq} /\ maxSeq \in Below \cup {0}
    BY BelowFinite, FS_Subset DEF DsInv, DsTypeOK
  <2>5. CASE d.seq \in Below /\ d.seq \notin seen
    <3>1. /\ seen' = seen \cup {d.seq} /\ uniques' = uniques + 1
          /\ minSeq' = IF minSeq = NoSeq \/ d.seq < minSeq
                       THEN d.seq ELSE minSeq
          /\ maxSeq' = IF d.seq > maxSeq THEN d.seq ELSE maxSeq
      BY <1>1, <1>3, <2>5 DEF CountedInto
    <3>2. uniques' = Cardinality(seen')
      BY <2>3, <2>4, <2>5, <3>1, FS_AddElement
    <3>3. seen' = {q \in Below' : Came(q)'}
      BY <2>1, <2>2, <2>3, <2>5, <3>1
    <3>4. CASE seen = {}
      <4>1. minSeq = NoSeq /\ maxSeq = 0
        BY <3>4 DEF DsInv, EmptyTable
      <4> QED  BY <1>1, <3>1, <3>2, <3>3, <3>4, <4>1 DEF TableExact
    <3>5. CASE seen # {}
      <4>1. minSeq \in seen /\ maxSeq \in seen /\ minSeq \in Nat
            /\ maxSeq \in Nat /\ minSeq # NoSeq
            /\ \A q \in seen : q \in Nat /\ minSeq <= q /\ q <= maxSeq
        BY <2>1, <2>3, <2>4, <3>5 DEF NoSeq
      <4>2. minSeq' \in seen' /\ maxSeq' \in seen'
        BY <3>1, <4>1
      <4>3. \A q \in seen' : minSeq' <= q /\ q <= maxSeq'
        BY <1>1, <3>1, <4>1
      <4> QED  BY <3>2, <3>3, <4>2, <4>3 DEF TableExact
    <3> QED  BY <3>4, <3>5
  <2>6. CASE ~(d.seq \in Below /\ d.seq \notin seen)
    <3>1. seen' = seen /\ uniques' = uniques /\ minSeq' = minSeq
          /\ maxSeq' = maxSeq
      BY <1>1, <1>3, <2>6 DEF CountedInto
    <3>2. seen' = {q \in Below' : Came(q)'}
      BY <2>1, <2>2, <2>3, <2>6, <3>1
    <3> QED  BY <2>3, <3>1, <3>2 DEF TableExact
  <2> QED  BY <2>5, <2>6
<1>9. TotalsExact'
  <2>1. Below' = Below /\ Numbers' = Numbers
    BY DEF Below, Capacity
  <2>2. /\ Since(Numbers)' = SumOf(Gain(heard', ignored, d.run), Numbers)[Numbers]
        /\ Since(Below)' = SumOf(Gain(heard', ignored, d.run), Below)[Below]
        /\ Since(Numbers) = SumOf(Gain(heard, ignored, d.run), Numbers)[Numbers]
        /\ Since(Below) = SumOf(Gain(heard, ignored, d.run), Below)[Below]
    BY <1>2, <2>1, SinceIsSum
  <2>3. /\ Since(Numbers) \in Int /\ Since(Numbers)' = Since(Numbers) + 1
        /\ Since(Below) \in Int
        /\ Since(Below)' = Since(Below) + IF d.seq \in Below THEN 1 ELSE 0
    <3>1. /\ SumOf(Gain(heard, ignored, d.run), Numbers)[Numbers] \in Int
          /\ SumOf(Gain(heard', ignored, d.run), Numbers)[Numbers]
               = SumOf(Gain(heard, ignored, d.run), Numbers)[Numbers] + 1
      BY <1>1, <1>2, GainGrows
    <3>2. /\ SumOf(Gain(heard, ignored, d.run), Below)[Below] \in Int
          /\ SumOf(Gain(heard', ignored, d.run), Below)[Below]
               = SumOf(Gain(heard, ignored, d.run), Below)[Below]
                   + IF d.seq \in Below THEN 1 ELSE 0
      BY <1>1, <1>2, GainGrows
    <3> QED  BY <2>2, <3>1, <3>2
  <2>4. /\ matched \in Nat /\ uniques \in Nat /\ dups \in Nat
        /\ matched = Since(Numbers) /\ dups = Since(Below) - uniques
    BY <1>2 DEF DsInv, DsTypeOK, CountsExact, TotalsExact
  <2>5. /\ matched' = matched + 1
        /\ dups' + uniques' = dups + uniques
                                + IF d.seq \in Below THEN 1 ELSE 0
        /\ dups' \in Nat /\ uniques' \in Nat
    <3>1. \/ d.seq \in Below /\ dups' = dups /\ uniques' = uniques + 1
          \/ d.seq \in Below /\ dups' = dups + 1 /\ uniques' = uniques
          \/ d.seq \notin Below /\ dups' = dups /\ uniques' = uniques
      BY <1>1, <1>3 DEF CountedInto
    <3>2. matched' = matched + 1
      BY <1>3 DEF CountedInto
    <3> QED  BY <2>4, <3>1, <3>2
  <2>6. dups' = Since(Below)' - uniques'
    <3>1. ASSUME NEW a \in Int, NEW b, NEW i \in Int, b = a + i,
                 NEW k \in Nat, NEW u \in Nat, k = a - u,
                 NEW l \in Nat, NEW v \in Nat, l + v = k + u + i
          PROVE  l = b - v
      BY <3>1
    <3> DEFINE i == IF d.seq \in Below THEN 1 ELSE 0
    <3>2. i \in Int /\ Since(Below)' = Since(Below) + i
          /\ dups' + uniques' = dups + uniques + i
      BY <2>3, <2>5
    <3> HIDE DEF i
    <3> QED  BY <2>3, <2>4, <2>5, <3>1, <3>2
  <2> QED  BY <2>3, <2>4, <2>5, <2>6 DEF TotalsExact
<1>11. EmptyTable'
  BY <1>1, <1>3 DEF DsInv, EmptyTable, CountedInto
<1>10. FirstRunWhole'
  BY <1>2 DEF FirstRunWhole, DsInv, CountsExact
<1> QED  BY <1>4, <1>7, <1>8, <1>9, <1>10, <1>11 DEF DsInv, CountsExact

LEMMA PassedOverInv ==
  ASSUME DsInv, NEW d \in Datagrams, PassedOver(d)
  PROVE  DsInv'
<1>1. /\ heard \in [Datagrams -> Nat] /\ heard' = [heard EXCEPT ![d] = @ + 1]
      /\ ignored \in [Datagrams -> Nat] /\ ignored' = ignored
      /\ haveRun /\ haveRun' /\ current' = current
      /\ d.run # current /\ current \in Runs
      /\ UNCHANGED <<matched, uniques, dups, seen, minSeq, maxSeq>>
  BY DEF DsInv, DsTypeOK, PassedOver, Counted
<1>2. \A x \in Datagrams :
        /\ heard[x] \in Nat
        /\ heard'[x] = IF x = d THEN heard[x] + 1 ELSE heard[x]
  BY <1>1
<1>3. DsTypeOK'
  <2>1. heard' \in [Datagrams -> Nat]
    BY <1>1
  <2> QED  BY <2>1 DEF DsInv, DsTypeOK, PassedOver, Counted, Below, Capacity
<1>4. HistoriesOK'
  <2>1. \A x \in Datagrams : ignored'[x] <= heard'[x]
    <3> SUFFICES ASSUME NEW x \in Datagrams
                 PROVE  ignored'[x] <= heard'[x]
      OBVIOUS
    <3>1. ignored[x] <= heard[x] /\ ignored[x] \in Nat
      BY <1>1 DEF DsInv, HistoriesOK
    <3> QED  BY <1>1, <1>2, <3>1
  <2> QED  BY <1>1, <1>2, <2>1 DEF DsInv, HistoriesOK
<1>5. Below' = Below /\ Below \subseteq Numbers
  BY BelowFinite DEF Below, Capacity
<1>6. TableExact'
  <2>1. \A q \in Below : Came(q)' <=> Came(q)
    BY <1>1, <1>2, <1>5, DatagramIs, DatagramOf DEF Came
  <2> QED  BY <1>1, <1>5, <2>1 DEF DsInv, CountsExact, TableExact
<1>7. TotalsExact'
  <2>1. Gain(heard', ignored', current') = Gain(heard, ignored, current)
    <3>1. ASSUME NEW q \in Numbers
          PROVE  heard'[[run |-> current, seq |-> q]]
                   = heard[[run |-> current, seq |-> q]]
      BY <1>1, <1>2, DatagramIs, DatagramOf
    <3> QED  BY <1>1, <3>1 DEF Gain
  <2>2. Since(Numbers)' = Since(Numbers) /\ Since(Below)' = Since(Below)
    BY <1>5, <2>1, SinceIsSum
  <2> QED  BY <1>1, <2>2 DEF DsInv, CountsExact, TotalsExact
<1>8. FirstRunWhole' /\ EmptyTable'
  BY <1>1 DEF FirstRunWhole, EmptyTable, DsInv, CountsExact
<1> QED  BY <1>3, <1>4, <1>6, <1>7, <1>8 DEF DsInv, CountsExact

LEMMA SameCountersInv ==
  ASSUME DsInv, UNCHANGED dsCounters,
         dsPc' \in {"start", "top", "receive", "exited"},
         stopRequested' \in BOOLEAN
  PROVE  DsInv'
<1>1. DsTypeOK'
  BY DEF DsInv, DsTypeOK, dsCounters, Below, Capacity
<1>2. HistoriesOK' /\ EmptyTable'
  BY DEF DsInv, HistoriesOK, EmptyTable, dsCounters
<1>3. Below' = Below
  BY DEF Below, Capacity
<1>4. TableExact'
  <2>1. \A q : Came(q)' <=> Came(q)
    BY DEF Came, dsCounters
  <2> QED  BY <1>3, <2>1 DEF DsInv, CountsExact, TableExact, dsCounters
<1>5. TotalsExact'
  <2>1. Since(Numbers)' = Since(Numbers) /\ Since(Below)' = Since(Below)
    BY <1>3, SinceIsSum DEF dsCounters
  <2> QED  BY <2>1 DEF DsInv, CountsExact, TotalsExact, dsCounters
<1>6. FirstRunWhole'
  BY DEF DsInv, CountsExact, FirstRunWhole, dsCounters
<1> QED  BY <1>1, <1>2, <1>4, <1>5, <1>6 DEF DsInv, CountsExact

LEMMA DsStepInv == DsInv /\ [DsNext]_dsVars => DsInv'
<1> SUFFICES ASSUME DsInv, [DsNext]_dsVars
             PROVE  DsInv'
  OBVIOUS
<1>1. CASE UNCHANGED dsVars
  BY <1>1, SameCountersInv DEF dsVars, dsCounters, DsInv, DsTypeOK
<1>2. ASSUME NEW d \in Datagrams, TakenUp(d) \/ OfTheRun(d) \/ PassedOver(d)
      PROVE  DsInv'
  BY <1>2, TakenUpInv, OfTheRunInv, PassedOverInv
<1>3. CASE /\ UNCHANGED <<dsCounters, summaries>>
           /\ dsPc' \in {dsPc, "top", "receive", "exited"}
           /\ stopRequested' \in {stopRequested, TRUE}
  <2>1. UNCHANGED dsCounters
    BY <1>3
  <2>2. dsPc \in {"start", "top", "receive", "exited"}
        /\ stopRequested \in BOOLEAN
    BY DEF DsInv, DsTypeOK
  <2> QED  BY <1>3, <2>1, <2>2, SameCountersInv
<1>4. CASE Finish
  <2>1. UNCHANGED dsCounters /\ dsPc' = "exited"
        /\ stopRequested' = stopRequested
    BY <1>4 DEF Finish, dsCounters
  <2> QED  BY <2>1, SameCountersInv DEF DsInv, DsTypeOK
<1> QED  BY <1>1, <1>2, <1>3, <1>4, DsStepForms

\* The counters say what came, whatever is delivered and in whatever order.
THEOREM DsCountsExact == DsSpec => []CountsExact
<1>1. DsInit => DsInv
  BY DsInitInv
<1>2. DsInv /\ [DsNext]_dsVars => DsInv'
  BY DsStepInv
<1>3. DsInv => CountsExact
  BY DEF DsInv
<1> QED  BY <1>1, <1>2, <1>3, PTL DEF DsSpec
-----------------------------------------------------------------------------
(* The summaries.                                                          *)

\* A place in a block determines the block.
LEMMA OnePlace ==
  ASSUME NEW L \in Nat \ {0}, NEW a \in Nat, NEW b \in Nat,
         NEW i \in 0 .. L - 1, NEW j \in 0 .. L - 1, a * L + i = b * L + j
  PROVE  a = b /\ i = j
<1>1. ASSUME NEW x \in Nat, NEW y \in Nat, x < y
      PROVE  x * L + L <= y * L
  <2>1. x + 1 \in Nat /\ x + 1 <= y /\ y - (x + 1) \in Nat
    BY <1>1
  <2>2. (x + 1) * L = x * L + L
    OBVIOUS
  <2>3. y * L = (x + 1) * L + (y - (x + 1)) * L
    BY <2>1
  <2>4. (y - (x + 1)) * L \in Nat
    BY <2>1
  <2>5. x * L \in Nat /\ y * L \in Nat
    OBVIOUS
  <2> QED  BY <2>2, <2>3, <2>4, <2>5
<1>2. a * L \in Nat /\ b * L \in Nat
  OBVIOUS
<1>3. ~(a < b)
  BY <1>1, <1>2
<1>4. ~(b < a)
  BY <1>1, <1>2
<1>5. a = b
  BY <1>3, <1>4
<1> QED  BY <1>2, <1>5

\* The whole blocks of a set have BlockLen of its numbers each.
LEMMA BlocksFit ==
  ASSUME NEW S \in SUBSET Nat, IsFiniteSet(S)
  PROVE  /\ Cardinality(FullBlocks(S)) \in Nat
         /\ Cardinality(FullBlocks(S)) * BlockLen <= Cardinality(S)
<1> DEFINE D == FullBlocks(S)
           I == 0 .. BlockLen - 1
           f == [p \in D \X I |-> p[1] * BlockLen + p[2]]
<1>1. BlockLen \in Nat \ {0} /\ Expected \in Nat
  BY NumbersAssumption
<1>2. D \subseteq 0 .. (Expected \div BlockLen) - 1 /\ D \subseteq Nat
  BY DEF FullBlocks
<1>3. Expected \div BlockLen \in Int
  BY <1>1
<1>4. IsFiniteSet(D) /\ IsFiniteSet(I) /\ Cardinality(I) = BlockLen
      /\ Cardinality(D) \in Nat
  <2>1. IsFiniteSet(0 .. (Expected \div BlockLen) - 1)
    BY <1>3, FS_Interval
  <2>2. IsFiniteSet(D)
    BY <1>2, <2>1, FS_Subset
  <2>3. IsFiniteSet(I) /\ Cardinality(I) = BlockLen
    <3>1. 0 \in Int /\ BlockLen - 1 \in Int /\ ~(0 > BlockLen - 1)
          /\ BlockLen - 1 - 0 + 1 = BlockLen
      BY <1>1
    <3> QED  BY <3>1, FS_Interval
  <2> QED  BY <2>2, <2>3, FS_CardinalityType
<1>5. IsFiniteSet(D \X I) /\ Cardinality(D \X I) = Cardinality(D) * BlockLen
  BY <1>4, FS_Product
<1>6. f \in Injection(D \X I, S)
  <2>1. ASSUME NEW p \in D \X I
        PROVE  f[p] \in S
    BY DEF FullBlocks
  <2>2. ASSUME NEW p \in D \X I, NEW r \in D \X I, f[p] = f[r]
        PROVE  p = r
    <3>1. PICK a \in D, i \in I : p = <<a, i>>
      OBVIOUS
    <3>2. PICK b \in D, j \in I : r = <<b, j>>
      OBVIOUS
    <3>3. a \in Nat /\ b \in Nat
      BY <1>2
    <3>4. a * BlockLen + i = b * BlockLen + j
      BY <2>2, <3>1, <3>2
    <3> HIDE DEF f, D
    <3>5. a = b /\ i = j
      BY <1>1, <3>3, <3>4, OnePlace
    <3> QED  BY <3>1, <3>2, <3>5
  <2>3. f \in [D \X I -> S]
    BY <2>1
  <2> HIDE DEF f
  <2> QED  BY <2>2, <2>3 DEF Injection, IsInjective
<1>7. Cardinality(D \X I) <= Cardinality(S)
  BY <1>6, FS_Injection
<1> QED  BY <1>4, <1>5, <1>7

\* A summary is a record of counts, with the sample of missing numbers.
SummaryRecords ==
  [run : Runs, matched : Nat, uniques : Nat, dups : Nat, missing : Nat,
   sample : SUBSET Nat, full : Nat]

\* Truthful, of the deliveries in h, each of a number that occurs.
TruthfulOf(h, s) ==
  /\ s.missing >= 0 /\ s.missing = Cardinality(s.sample)
  /\ s.full * BlockLen <= s.uniques
  /\ Expected > 0 =>
       \A q \in 0 .. Expected - 1 :
         q \notin s.sample => /\ q \in Numbers
                              /\ h[[run |-> s.run, seq |-> q]] > 0

\* A summary made from an exact table is truthful.
LEMMA SummaryOfExact ==
  ASSUME NEW r \in Runs, NEW m \in Nat, NEW u \in Nat, NEW k \in Nat,
         NEW S \in SUBSET Below, NEW top \in Below \cup {0},
         u = Cardinality(S), \A q \in S : q <= top,
         NEW h, \A q \in S : h[[run |-> r, seq |-> q]] > 0
  PROVE  /\ Summary(r, m, u, k, S, top) \in SummaryRecords
         /\ Summary(r, m, u, k, S, top).run = r
         /\ TruthfulOf(h, Summary(r, m, u, k, S, top))
<1> DEFINE space == IF Expected > 0 THEN Expected ELSE top + 1
           s == Summary(r, m, u, k, S, top)
<1>1. /\ IsFiniteSet(S) /\ S \subseteq Nat /\ S \subseteq Numbers
      /\ top \in Nat /\ Expected \in Nat
  <2>1. IsFiniteSet(S)
    BY BelowFinite, FS_Subset
  <2> QED  BY <2>1, BelowFinite, NumbersAssumption
<1>2. space \in Nat \ {0} /\ S \subseteq 0 .. space - 1
  <2>1. CASE Expected > 0
    <3>1. Capacity = Expected
      BY <2>1 DEF Capacity
    <3> QED  BY <1>1, <2>1, <3>1 DEF Below
  <2>2. CASE ~(Expected > 0)
    BY <1>1, <2>2
  <2> QED  BY <2>1, <2>2
<1>3. Expected > 0 => space = Expected
  OBVIOUS
<1>4. s = [run |-> r, matched |-> m, uniques |-> u, dups |-> k,
           missing |-> space - u,
           sample |-> IF space - u > 0 THEN Unseen(S, space) ELSE {},
           full |-> Cardinality(FullBlocks(S))]
  BY DEF Summary
<1> HIDE DEF space
<1>5. Unseen(S, space) = (0 .. space - 1) \ S
  BY DEF Unseen
<1>6. IsFiniteSet(Unseen(S, space))
      /\ Cardinality(Unseen(S, space)) = space - u
  <2>1. IsFiniteSet(0 .. space - 1) /\ Cardinality(0 .. space - 1) = space
    <3>1. 0 \in Int /\ space - 1 \in Int /\ ~(0 > space - 1)
          /\ space - 1 - 0 + 1 = space
      BY <1>2
    <3> QED  BY <3>1, FS_Interval
  <2>2. (0 .. space - 1) \cap S = S
    BY <1>2
  <2> QED  BY <1>5, <2>1, <2>2, FS_Difference
<1>7. space - u \in Nat
  BY <1>6, FS_CardinalityType
<1>8. s.sample = Unseen(S, space)
  <2>1. CASE space - u > 0
    BY <1>4, <2>1
  <2>2. CASE ~(space - u > 0)
    <3>1. Cardinality(Unseen(S, space)) = 0
      BY <1>6, <1>7, <2>2
    <3>2. Unseen(S, space) = {}
      BY <1>6, <3>1, FS_EmptySet
    <3> QED  BY <1>4, <2>2, <3>2
  <2> QED  BY <2>1, <2>2
<1>9. Unseen(S, space) \subseteq Nat
  BY DEF Unseen
<1>10. /\ Cardinality(FullBlocks(S)) \in Nat
       /\ Cardinality(FullBlocks(S)) * BlockLen <= u
  BY <1>1, BlocksFit
<1>11. s \in SummaryRecords
  <2>1. (IF space - u > 0 THEN Unseen(S, space) ELSE {}) \in SUBSET Nat
    BY <1>9
  <2> QED  BY <1>4, <1>7, <1>10, <2>1 DEF SummaryRecords
<1>12. /\ s.run = r /\ s.missing = space - u /\ s.uniques = u
       /\ s.full = Cardinality(FullBlocks(S))
  BY <1>4
<1>13. ASSUME Expected > 0, NEW q \in 0 .. Expected - 1, q \notin s.sample
       PROVE  q \in Numbers /\ h[[run |-> s.run, seq |-> q]] > 0
  <2>1. q \in S
    BY <1>3, <1>5, <1>8, <1>13
  <2> QED  BY <1>1, <1>12, <2>1
<1> HIDE DEF s
<1>14. TruthfulOf(h, s)
  BY <1>6, <1>7, <1>8, <1>10, <1>12, <1>13 DEF TruthfulOf
<1> QED  BY <1>11, <1>12, <1>14 DEF s

\* The run the server is measuring can be summed up truthfully at any time.
Exact ==
  /\ current \in Runs /\ matched \in Nat /\ uniques \in Nat
  /\ dups \in Nat /\ seen \in SUBSET Below
  /\ maxSeq \in Below \cup {0} /\ uniques = Cardinality(seen)
  /\ \A q \in seen : q <= maxSeq
  /\ \A q \in seen : heard[[run |-> current, seq |-> q]] > 0

LEMMA NowExact == DsInv /\ haveRun => Exact
<1> SUFFICES ASSUME DsInv, haveRun
             PROVE  Exact
  OBVIOUS
<1>1. DsTypeOK /\ TableExact /\ HistoriesOK
  BY DEF DsInv, CountsExact
<1>2. current \in Runs
  BY <1>1 DEF DsTypeOK
<1>3. ASSUME NEW q \in seen
      PROVE  heard[[run |-> current, seq |-> q]] > 0 /\ q <= maxSeq
  <2> DEFINE x == [run |-> current, seq |-> q]
  <2>1. q \in Below /\ Came(q) /\ q <= maxSeq
    BY <1>1, <1>3 DEF TableExact
  <2>2. x \in Datagrams
    BY <1>2, <2>1, BelowFinite, DatagramOf
  <2>3. heard[x] \in Nat /\ ignored[x] \in Nat
    BY <1>1, <2>2 DEF DsTypeOK
  <2>4. heard[x] > ignored[x]
    BY <2>1 DEF Came
  <2> HIDE DEF x
  <2>5. heard[x] > 0
    BY <2>3, <2>4
  <2> QED  BY <2>1, <2>5 DEF x
<1> QED  BY <1>1, <1>2, <1>3 DEF DsTypeOK, TableExact, Exact

LEMMA NextExact == (DsInv /\ haveRun => Exact)'
  BY NowExact, PTL

\* Another run's number zero has come; a run has been printed.
OtherZeroIn(h, r) == \E e \in Datagrams : e.run # r /\ e.seq = 0 /\ h[e] > 0
PrintedIn(p, r) == \E i \in 1 .. Len(p) : p[i].run = r

\* What has been printed is truthful, and a run is in it twice only with
\* another taken up in between.
WholeOf(h, p) ==
  /\ p \in Seq(SummaryRecords)
  /\ \A i \in 1 .. Len(p) : TruthfulOf(h, p[i])
  /\ \A i, j \in 1 .. Len(p) :
       i < j /\ p[i].run = p[j].run => OtherZeroIn(h, p[i].run)

Grows(h, g) == \A e \in Datagrams : h[e] > 0 => g[e] > 0

LEMMA WholeGrows ==
  ASSUME NEW h, NEW g, Grows(h, g), NEW p, WholeOf(h, p)
  PROVE  WholeOf(g, p) /\ \A r : OtherZeroIn(h, r) => OtherZeroIn(g, r)
<1>1. \A r : OtherZeroIn(h, r) => OtherZeroIn(g, r)
  BY DEF OtherZeroIn, Grows
<1>2. ASSUME NEW i \in 1 .. Len(p)
      PROVE  TruthfulOf(g, p[i])
  <2>1. p[i] \in SummaryRecords
    BY DEF WholeOf
  <2>2. p[i].run \in Runs
    BY <2>1 DEF SummaryRecords
  <2>3. TruthfulOf(h, p[i])
    BY DEF WholeOf
  <2>4. ASSUME NEW q \in Numbers, h[[run |-> p[i].run, seq |-> q]] > 0
        PROVE  g[[run |-> p[i].run, seq |-> q]] > 0
    BY <2>2, <2>4, DatagramOf DEF Grows
  <2> QED  BY <2>3, <2>4 DEF TruthfulOf
<1> QED  BY <1>1, <1>2 DEF WholeOf

LEMMA WholeAppends ==
  ASSUME NEW h, NEW p, WholeOf(h, p), NEW s \in SummaryRecords,
         TruthfulOf(h, s), PrintedIn(p, s.run) => OtherZeroIn(h, s.run)
  PROVE  /\ WholeOf(h, Append(p, s))
         /\ \A r : PrintedIn(Append(p, s), r) <=> PrintedIn(p, r) \/ r = s.run
<1> DEFINE n == Append(p, s)
<1>1. p \in Seq(SummaryRecords) /\ Len(p) \in Nat
  BY DEF WholeOf
<1>2. /\ n \in Seq(SummaryRecords) /\ Len(n) = Len(p) + 1
      /\ \A i \in 1 .. Len(p) : n[i] = p[i]
      /\ n[Len(p) + 1] = s
  BY <1>1
<1> HIDE DEF n
<1>3. \A i \in 1 .. Len(n) : i \in 1 .. Len(p) \/ i = Len(p) + 1
  BY <1>1, <1>2
<1>4. \A i \in 1 .. Len(n) : TruthfulOf(h, n[i])
  BY <1>2, <1>3 DEF WholeOf
<1>5. ASSUME NEW i \in 1 .. Len(n), NEW j \in 1 .. Len(n), i < j,
             n[i].run = n[j].run
      PROVE  OtherZeroIn(h, n[i].run)
  <2>1. i \in 1 .. Len(p)
    BY <1>1, <1>2, <1>5
  <2>2. CASE j \in 1 .. Len(p)
    BY <1>2, <1>5, <2>1, <2>2 DEF WholeOf
  <2>3. CASE j = Len(p) + 1
    BY <1>2, <1>5, <2>1, <2>3 DEF PrintedIn
  <2> QED  BY <1>3, <2>2, <2>3
<1>6. ASSUME NEW r
      PROVE  PrintedIn(n, r) <=> PrintedIn(p, r) \/ r = s.run
  <2>1. 1 .. Len(p) \subseteq 1 .. Len(n) /\ Len(p) + 1 \in 1 .. Len(n)
    BY <1>1, <1>2
  <2> QED  BY <1>2, <1>3, <2>1 DEF PrintedIn
<1> QED  BY <1>2, <1>4, <1>5, <1>6 DEF n, WholeOf

OwnZeroIn(h, r) == \E e \in Datagrams : e.run = r /\ e.seq = 0 /\ h[e] > 0

\* What has been printed, and what the server's state says of it: a run
\* printed and measured again, and a run measured after another was printed,
\* were taken up with a number zero.
PrintInv ==
  /\ WholeOf(heard, summaries)
  /\ ~haveRun => summaries = <<>>
  /\ dsPc # "exited" /\ haveRun /\ ~summaryEmitted
       /\ PrintedIn(summaries, current)
       => OtherZeroIn(heard, current)
  /\ \A r : haveRun /\ r # current /\ PrintedIn(summaries, r)
              => OwnZeroIn(heard, current)

LEMMA CountedGrows ==
  ASSUME DsTypeOK, NEW d \in Datagrams, Counted(d)
  PROVE  /\ Grows(heard, heard') /\ heard'[d] > 0
         /\ \A r : OwnZeroIn(heard, r) => OwnZeroIn(heard', r)
<1>1. heard \in [Datagrams -> Nat] /\ heard' = [heard EXCEPT ![d] = @ + 1]
  BY DEF DsTypeOK, Counted
<1>2. \A e \in Datagrams :
        /\ heard[e] \in Nat
        /\ heard'[e] = IF e = d THEN heard[e] + 1 ELSE heard[e]
  BY <1>1
<1>3. \A e \in Datagrams : heard[e] > 0 => heard'[e] > 0
  BY <1>2
<1> QED  BY <1>2, <1>3 DEF Grows, OwnZeroIn

LEMMA MeasuredPrints ==
  ASSUME DsInv, DsInv', PrintInv, NEW d \in Datagrams, Counted(d),
         haveRun', current' = d.run, NEW e \in BOOLEAN, SummedUp(e, d.run),
         ~e /\ PrintedIn(summaries, d.run) => OtherZeroIn(heard', d.run),
         \A r : r # d.run /\ PrintedIn(summaries, r) => OwnZeroIn(heard', d.run)
  PROVE  PrintInv'
<1>1. WholeOf(heard', summaries)
  BY CountedGrows, WholeGrows DEF DsInv, PrintInv
<1>2. CASE ~(Expected > 0 /\ uniques' >= Expected /\ ~e)
  <2>1. summaries' = summaries /\ summaryEmitted' = e
    BY <1>2 DEF SummedUp
  <2> QED  BY <1>1, <2>1 DEF PrintInv
<1>3. CASE Expected > 0 /\ uniques' >= Expected /\ ~e
  <2> DEFINE s == Summary(d.run, matched', uniques', dups', seen', maxSeq')
  <2>1. summaries' = Append(summaries, s) /\ summaryEmitted' = TRUE
    BY <1>3 DEF SummedUp
  <2>2. /\ d.run \in Runs /\ matched' \in Nat /\ uniques' \in Nat
        /\ dups' \in Nat /\ seen' \in SUBSET Below
        /\ maxSeq' \in Below \cup {0} /\ uniques' = Cardinality(seen')
        /\ \A q \in seen' : q <= maxSeq'
        /\ \A q \in seen' : heard'[[run |-> d.run, seq |-> q]] > 0
    BY NextExact DEF Exact, Below, Capacity
  <2>3. s \in SummaryRecords /\ s.run = d.run /\ TruthfulOf(heard', s)
    BY <2>2, SummaryOfExact
  <2> HIDE DEF s
  <2>4. /\ WholeOf(heard', Append(summaries, s))
        /\ \A r : PrintedIn(Append(summaries, s), r)
                    <=> PrintedIn(summaries, r) \/ r = s.run
    BY <1>1, <1>3, <2>3, WholeAppends
  <2> QED  BY <2>1, <2>3, <2>4 DEF PrintInv
<1> QED  BY <1>2, <1>3

LEMMA TakenUpPrints ==
  ASSUME DsInv, DsInv', PrintInv, NEW d \in Datagrams, TakenUp(d)
  PROVE  PrintInv'
<1>1. Counted(d) /\ haveRun' /\ current' = d.run /\ TakesUp(d)
      /\ SummedUp(FALSE, d.run)
  BY MeasuredIs DEF TakenUp
<1>2. DsTypeOK
  BY DEF DsInv
<1>3. CASE ~haveRun
  <2>1. summaries = <<>>
    BY <1>3 DEF PrintInv
  <2>2. \A r : ~PrintedIn(summaries, r)
    BY <2>1 DEF PrintedIn
  <2> QED  BY <1>1, <2>2, MeasuredPrints
<1>4. CASE haveRun
  <2>1. d.run # current /\ d.seq = 0
    BY <1>1, <1>4 DEF TakesUp
  <2>2. OwnZeroIn(heard', d.run)
    BY <1>1, <1>2, <2>1, CountedGrows DEF OwnZeroIn
  <2>3. ASSUME PrintedIn(summaries, d.run)
        PROVE  OtherZeroIn(heard', d.run)
    <3>1. OwnZeroIn(heard, current)
      BY <1>4, <2>1, <2>3 DEF PrintInv
    <3>2. OwnZeroIn(heard', current)
      BY <1>1, <1>2, <3>1, CountedGrows
    <3> QED  BY <2>1, <3>2 DEF OwnZeroIn, OtherZeroIn
  <2> QED  BY <1>1, <2>2, <2>3, MeasuredPrints
<1> QED  BY <1>3, <1>4

LEMMA OfTheRunPrints ==
  ASSUME DsInv, DsInv', PrintInv, NEW d \in Datagrams, OfTheRun(d)
  PROVE  PrintInv'
<1>1. /\ Counted(d) /\ haveRun /\ haveRun' /\ current = d.run
      /\ current' = d.run /\ dsPc # "exited"
      /\ SummedUp(summaryEmitted, d.run)
  BY MeasuredIs DEF OfTheRun, Counted
<1>2. DsTypeOK /\ summaryEmitted \in BOOLEAN
  BY DEF DsInv, DsTypeOK
<1>3. WholeOf(heard, summaries) /\ Grows(heard, heard')
  BY <1>1, <1>2, CountedGrows DEF PrintInv
<1>4. ASSUME ~summaryEmitted, PrintedIn(summaries, d.run)
      PROVE  OtherZeroIn(heard', d.run)
  <2>1. OtherZeroIn(heard, d.run)
    BY <1>1, <1>4 DEF PrintInv
  <2> QED  BY <1>3, <2>1, WholeGrows
<1>5. ASSUME NEW r, r # d.run, PrintedIn(summaries, r)
      PROVE  OwnZeroIn(heard', d.run)
  <2>1. OwnZeroIn(heard, d.run)
    BY <1>1, <1>5 DEF PrintInv
  <2> QED  BY <1>1, <1>2, <2>1, CountedGrows
<1> QED  BY <1>1, <1>2, <1>4, <1>5, MeasuredPrints

LEMMA PassedOverPrints ==
  ASSUME DsInv, PrintInv, NEW d \in Datagrams, PassedOver(d)
  PROVE  PrintInv'
<1>1. /\ Counted(d) /\ dsPc # "exited" /\ UNCHANGED <<haveRun, current,
                                          summaryEmitted, summaries>>
  BY DEF PassedOver, Counted
<1>2. DsTypeOK
  BY DEF DsInv
<1>3. WholeOf(heard', summaries)
      /\ \A r : OtherZeroIn(heard, r) => OtherZeroIn(heard', r)
  BY <1>1, <1>2, CountedGrows, WholeGrows DEF PrintInv
<1>4. \A r : OwnZeroIn(heard, r) => OwnZeroIn(heard', r)
  BY <1>1, <1>2, CountedGrows
<1> QED  BY <1>1, <1>3, <1>4 DEF PrintInv

LEMMA FinishPrints ==
  ASSUME DsInv, PrintInv, dsPc # "exited", Finish
  PROVE  PrintInv'
<1>1. /\ dsPc' = "exited"
      /\ UNCHANGED <<haveRun, current, summaryEmitted, heard>>
  BY DEF Finish
<1>2. CASE ~(haveRun /\ ~summaryEmitted)
  <2>1. summaries' = summaries
    BY <1>2 DEF Finish
  <2> QED  BY <1>1, <2>1 DEF PrintInv
<1>3. CASE haveRun /\ ~summaryEmitted
  <2> DEFINE s == NowSummary(current)
  <2>1. summaries' = Append(summaries, s)
    BY <1>3 DEF Finish, NowSummary
  <2>2. s \in SummaryRecords /\ s.run = current /\ TruthfulOf(heard, s)
    BY <1>3, NowExact, SummaryOfExact DEF Exact, NowSummary
  <2> HIDE DEF s
  <2>3. /\ WholeOf(heard, Append(summaries, s))
        /\ \A r : PrintedIn(Append(summaries, s), r)
                    <=> PrintedIn(summaries, r) \/ r = s.run
    BY <1>3, <2>2, WholeAppends DEF PrintInv
  <2> QED  BY <1>1, <1>3, <2>1, <2>2, <2>3 DEF PrintInv
<1> QED  BY <1>2, <1>3

LEMMA PrintStep ==
  DsInv /\ DsInv' /\ PrintInv /\ [DsNext]_dsVars => PrintInv'
<1> SUFFICES ASSUME DsInv, DsInv', PrintInv, [DsNext]_dsVars
             PROVE  PrintInv'
  OBVIOUS
<1>1. CASE UNCHANGED dsVars
  BY <1>1 DEF dsVars, PrintInv
<1>2. ASSUME NEW d \in Datagrams, TakenUp(d) \/ OfTheRun(d) \/ PassedOver(d)
      PROVE  PrintInv'
  BY <1>2, TakenUpPrints, OfTheRunPrints, PassedOverPrints
<1>3. CASE /\ UNCHANGED <<dsCounters, summaries>>
           /\ dsPc = "exited" => dsPc' = "exited"
  BY <1>3 DEF dsCounters, PrintInv
<1>4. CASE dsPc # "exited" /\ Finish
  BY <1>4, FinishPrints
<1> QED  BY <1>1, <1>2, <1>3, <1>4, DsStepForms

LEMMA PrintInit == DsInit => PrintInv
<1> SUFFICES ASSUME DsInit
             PROVE  PrintInv
  OBVIOUS
<1>1. summaries = <<>> /\ ~haveRun
  BY DEF DsInit
<1>2. WholeOf(heard, <<>>) /\ \A r : ~PrintedIn(<<>>, r)
  BY DEF WholeOf, PrintedIn
<1> QED  BY <1>1, <1>2 DEF PrintInv

LEMMA PrintTruthful == PrintInv => SummaryTruthful
  BY DEF PrintInv, WholeOf, TruthfulOf, SummaryTruthful, Truthful, OtherZeroIn

\* Every summary is truthful and no run has two without another in between.
THEOREM DsSummaryTruthful == DsSpec => []SummaryTruthful
<1>1. DsInit => DsInv /\ PrintInv
  BY DsInitInv, PrintInit
<1>2. DsInv /\ PrintInv /\ [DsNext]_dsVars => (DsInv /\ PrintInv)'
  BY DsStepInv, PrintStep
<1>3. DsInv /\ PrintInv => SummaryTruthful
  BY PrintTruthful
<1> QED  BY <1>1, <1>2, <1>3, PTL DEF DsSpec
-----------------------------------------------------------------------------
(* The end-to-end application: its steps are steps of the two programs, as *)
(* the data path carries nothing but datagrams.                            *)

\* The generator does not number a datagram beyond its target.
SentBelow == tgPc \in InLoop => sent < Target

PathOK == SentBelow /\ net \subseteq Datagrams \cup {Runt}

LEMMA SentBelowStep ==
  ASSUME TgTypeOK, SentBelow, [TgNext]_tgVars
  PROVE  SentBelow'
<1>1. sent \in Nat /\ Target \in Nat /\ Target' = Target
  BY WindowType DEF TgTypeOK, Target, RawTarget
<1>2. CASE RefuseOptions \/ AcquireFails \/ Start \/ Report
  BY <1>2 DEF RefuseOptions, AcquireFails, Start, Report, Exits, SentBelow,
              InLoop
<1>3. CASE Check
  BY <1>1, <1>3 DEF Check, SentBelow, InLoop
<1>4. CASE Pace \/ Wake \/ SleepFails \/ Recheck
  BY <1>1, <1>4 DEF Pace, Wake, SleepFails, Recheck, SentBelow, InLoop
<1>5. CASE \E ok \in SendResults : Transmit(ok)
  BY <1>1, <1>5 DEF Transmit, SentBelow, InLoop
<1>6. CASE Tick \/ UNCHANGED tgVars
  BY <1>1, <1>6 DEF Tick, tgVars, SentBelow
<1> QED  BY <1>2, <1>3, <1>4, <1>5, <1>6 DEF TgNext, Quiet

LEMMA AppStepForms ==
  ASSUME TgTypeOK, PathOK, [AppNext]_appVars
  PROVE  /\ [TgNext]_tgVars /\ [DsNext]_dsVars
         /\ net' \subseteq Datagrams \cup {Runt}
<1>1. net \subseteq Datagrams \cup {Runt}
  BY DEF PathOK
<1>2. CASE GeneratorStep \/ ClockStep
  BY <1>1, <1>2 DEF GeneratorStep, ClockStep, TgNext
<1>3. CASE ServerStep \/ Interruption
  BY <1>1, <1>3 DEF ServerStep, Interruption, DsNext
<1>4. ASSUME NEW ok \in SendResults, Generate(ok)
      PROVE  /\ [TgNext]_tgVars /\ [DsNext]_dsVars
             /\ net' \subseteq Datagrams \cup {Runt}
  <2>1. Transmit(ok) /\ UNCHANGED dsVars /\ net' \subseteq net \cup {Header}
    BY <1>4 DEF Generate
  <2>2. sent \in Nat /\ Target \in Nat /\ sent < Target
    BY <2>1, WindowType DEF TgTypeOK, PathOK, SentBelow, InLoop, Transmit
  <2>3. sent \in 0 .. Target - 1
    BY <2>2
  <2>4. Header \in Datagrams
    BY <2>3, PathAssumption DEF Header, Datagrams
  <2> QED  BY <1>1, <2>1, <2>4 DEF TgNext
<1>5. ASSUME NEW d \in net, Deliver(d) \/ DeliverCopy(d)
      PROVE  /\ [TgNext]_tgVars /\ [DsNext]_dsVars
             /\ net' \subseteq Datagrams \cup {Runt}
  <2>1. Receive(d) /\ UNCHANGED tgVars /\ net' \subseteq net
    BY <1>5 DEF Deliver, DeliverCopy
  <2> QED  BY <1>1, <2>1 DEF DsNext
<1>6. CASE UNCHANGED appVars
  BY <1>1, <1>6 DEF appVars
<1> QED  BY <1>2, <1>3, <1>4, <1>5, <1>6 DEF AppNext

\* What holds of the application in every state.
AppInv ==
  /\ TgTypeOK /\ Paced /\ Windowed /\ InTime /\ PathOK
  /\ DsInv /\ PrintInv

LEMMA AppInitInv == AppInit => AppInv
<1> SUFFICES ASSUME AppInit
             PROVE  AppInv
  OBVIOUS
<1>1. TgInit /\ DsInit /\ net = Strays
  BY DEF AppInit
<1>2. PathOK
  BY <1>1, PathAssumption DEF PathOK, SentBelow, TgInit, InLoop
<1> QED  BY <1>1, <1>2, TgTypeInit, PacedInit, WindowedInit, InTimeInit,
            DsInitInv, PrintInit DEF AppInv

LEMMA AppStepInv == AppInv /\ [AppNext]_appVars => AppInv'
<1> SUFFICES ASSUME AppInv, [AppNext]_appVars
             PROVE  AppInv'
  OBVIOUS
<1>1. /\ TgTypeOK /\ Paced /\ Windowed /\ InTime /\ PathOK
      /\ DsInv /\ PrintInv
  BY DEF AppInv
<1>2. /\ [TgNext]_tgVars /\ [DsNext]_dsVars
      /\ net' \subseteq Datagrams \cup {Runt}
  BY <1>1, AppStepForms
<1>3. TgTypeOK' /\ Paced' /\ Windowed' /\ InTime'
  BY <1>1, <1>2, TgTypeStep, PacedStep, WindowedStep, InTimeStep
<1>4. DsInv' /\ PrintInv'
  BY <1>1, <1>2, DsStepInv, PrintStep
<1>5. PathOK'
  BY <1>1, <1>2, SentBelowStep DEF PathOK, Datagrams
<1> QED  BY <1>3, <1>4, <1>5 DEF AppInv

LEMMA AppAlways == AppSpec => []AppInv
  BY AppInitInv, AppStepInv, PTL DEF AppSpec

\* The variables of both programs keep their types, end to end.
THEOREM AppTypeSafe == AppSpec => []AppTypeOK
<1>1. AppInv => AppTypeOK
  BY DEF AppInv, AppTypeOK, DsInv
<1> QED  BY <1>1, AppAlways, PTL

\* The generator keeps its promises with the server beside it.
THEOREM AppPaced ==
  AppSpec => [](NoCatchUpBurst /\ StrictWindow /\ TargetReached)
<1>1. AppInv => NoCatchUpBurst /\ StrictWindow /\ TargetReached
  BY PacedNoBurst DEF AppInv, Windowed, InLoop, StrictWindow, InTime, Smooth,
                      TargetReached
<1> QED  BY <1>1, AppAlways, PTL

\* The counters say what came of the generator's run and of any other.
THEOREM AppCountsExact == AppSpec => []CountsExact
<1>1. AppInv => CountsExact
  BY DEF AppInv, DsInv
<1> QED  BY <1>1, AppAlways, PTL

\* Every summary printed in an experiment is truthful.
THEOREM AppSummaryTruthful == AppSpec => []SummaryTruthful
<1>1. AppInv => SummaryTruthful
  BY PrintTruthful DEF AppInv
<1> QED  BY <1>1, AppAlways, PTL
=============================================================================
