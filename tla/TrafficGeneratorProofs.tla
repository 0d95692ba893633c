----------------------- MODULE TrafficGeneratorProofs -----------------------
(***************************************************************************)
(* Proofs about the traffic generator, for every rate, duration, delay and *)
(* failing call.                                                           *)
(***************************************************************************)
EXTENDS TrafficGenerator, TLAPS

\* What integer division gives, and products with a common factor.
LEMMA Product == ASSUME NEW a \in Int, NEW b \in Int, NEW p \in Nat, a <= b
                 PROVE  a * p <= b * p /\ a * p \in Int
  BY SMT

LEMMA Quotient ==
  ASSUME NEW x \in Nat, NEW p \in Nat \ {0}
  PROVE  /\ x \div p \in Nat
         /\ (x \div p) * p <= x
         /\ x < (x \div p) * p + p
  BY SMT

LEMMA PeriodType == Period \in Nat \ {0} /\ Pps * Period <= TicksPerSecond
  BY RateAssumption, SMT DEF Period, RateAssumption

LEMMA WindowType == Window \in Nat /\ Target \in Nat /\ RawTarget \in Nat
<1>1. Window \in Nat /\ RawTarget \in Nat
  BY RateAssumption DEF Window, RawTarget, RateAssumption
<1>2. RawTarget - (RawTarget % Batch) \in Nat
  BY <1>1, RateAssumption, SMT DEF RateAssumption
<1> QED  BY <1>1, <1>2, RateAssumption DEF Target, RateAssumption

\* Deadlines grow by one period from slot to slot.
LEMMA Deadlines ==
  ASSUME NEW s \in Nat
  PROVE  /\ Deadline(s) \in Nat
         /\ Deadline(s + 1) = Deadline(s) + Period
         /\ \A r \in Nat : s <= r => Deadline(s) <= Deadline(r)
<1>1. Deadline(s) \in Nat
  BY PeriodType DEF Deadline
<1>2. Deadline(s + 1) = Deadline(s) + Period
  BY PeriodType, SMT DEF Deadline
<1>3. ASSUME NEW r \in Nat, s <= r
      PROVE  Deadline(s) <= Deadline(r)
  BY <1>3, PeriodType, Product DEF Deadline
<1> QED  BY <1>1, <1>2, <1>3

\* The slot chosen after skipping is the current one: less than a period has
\* passed of it, and nothing is skipped before a whole period has passed.
LEMMA Skipping ==
  ASSUME NEW s \in Nat, NEW t \in Nat
  PROVE  /\ PeriodsLate(s, t) \in Nat
         /\ t < Deadline(s + PeriodsLate(s, t) + 1)
         /\ t < Deadline(s + 1) => PeriodsLate(s, t) = 0
<1> DEFINE late == PeriodsLate(s, t)
<1>1. Deadline(s) \in Nat /\ Deadline(s + 1) = Deadline(s) + Period
  BY Deadlines
<1>2. CASE ~(t > Deadline(s))
  <2>1. late = 0
    BY <1>2 DEF PeriodsLate
  <2> QED  BY <1>1, <1>2, <2>1, PeriodType
<1>3. CASE t > Deadline(s)
  <2> DEFINE x == t - Deadline(s)
  <2>1. x \in Nat /\ late = x \div Period
    BY <1>1, <1>3 DEF PeriodsLate
  <2>2. late \in Nat /\ late * Period <= x /\ x < late * Period + Period
    BY <2>1, PeriodType, Quotient
  <2>3. Deadline(s + late + 1) = Deadline(s) + late * Period + Period
    BY <2>2, PeriodType, SMT DEF Deadline
  <2>4. t < Deadline(s + late + 1)
    BY <1>1, <2>1, <2>2, <2>3, PeriodType
  <2>5. ASSUME t < Deadline(s + 1), late # 0
        PROVE  FALSE
    <3>1. 1 * Period <= late * Period
      BY <2>2, <2>5, PeriodType, Product
    <3> QED  BY <1>1, <2>1, <2>2, <2>5, <3>1, PeriodType
  <2> QED  BY <2>2, <2>4, <2>5
<1> QED  BY <1>2, <1>3
-----------------------------------------------------------------------------
LEMMA FurtherApart ==
  ASSUME NEW a \in Nat, NEW b \in Nat, NEW c \in Nat, NEW d \in Nat,
         NEW p \in Nat, a < c, c + p <= d, d <= b
  PROVE  b - a > p
  OBVIOUS

LEMMA TwoLater == \A n \in Nat : n + 1 \in Nat /\ n + 2 \in Nat /\ n + 1 + 1 = n + 2
  OBVIOUS

LEMMA Appended ==
  ASSUME NEW S, NEW q \in Seq(S), NEW e \in S
  PROVE  /\ Append(q, e) \in Seq(S)
         /\ Len(Append(q, e)) = Len(q) + 1
         /\ \A j \in 1 .. Len(q) : Append(q, e)[j] = q[j]
         /\ Append(q, e)[Len(q) + 1] = e
  OBVIOUS

LEMMA Elements ==
  ASSUME NEW S, NEW q \in Seq(S)
  PROVE  /\ Len(q) \in Nat
         /\ \A j \in 1 .. Len(q) : q[j] \in S
  OBVIOUS

LEMMA SendsType ==
  TgTypeOK => /\ Len(sends) \in Nat
              /\ \A j \in 1 .. Len(sends) :
                   sends[j].slot \in Nat /\ sends[j].at \in Nat
<1> SUFFICES ASSUME TgTypeOK
             PROVE  /\ Len(sends) \in Nat
                    /\ \A j \in 1 .. Len(sends) :
                         sends[j].slot \in Nat /\ sends[j].at \in Nat
  OBVIOUS
<1>1. Len(sends) \in Nat /\ \A j \in 1 .. Len(sends) : sends[j] \in Sending
  BY Elements DEF TgTypeOK
<1> QED  BY <1>1 DEF Sending

LEMMA NothingSent == <<>> \in Seq(Sending) /\ Len(<<>>) = 0
  OBVIOUS

LEMMA TgTypeInit == TgInit => TgTypeOK
<1> SUFFICES ASSUME TgInit
             PROVE  TgTypeOK
  OBVIOUS
<1>1. /\ now = 0 /\ tgPc = "start" /\ tgExit = Running /\ slot = 0
      /\ sent = 0 /\ missed = 0 /\ sleepErrors = 0 /\ sends = <<>>
      /\ behind = FALSE /\ broken = FALSE
  BY DEF TgInit
<1>2. tgExit \in {Running, 0, 1} /\ tgPc \in Points
  BY <1>1 DEF Points
<1>3. sends \in Seq(Sending) /\ sent = Len(sends)
  BY <1>1, NothingSent
<1>4. slot = sent + missed + sleepErrors
  BY <1>1
<1>5. /\ now \in Nat /\ slot \in Nat /\ sent \in Nat
      /\ missed \in Nat /\ sleepErrors \in Nat
  BY <1>1
<1>6. behind \in BOOLEAN /\ broken \in BOOLEAN
  BY <1>1
<1> QED  BY <1>2, <1>3, <1>4, <1>5, <1>6 DEF TgTypeOK

\* The end of the process clears what it held.
LEMMA ExitsType ==
  ASSUME NEW status \in {0, 1}, Exits(status)
  PROVE  TgTypeOK'
<1>1. /\ now' = 0 /\ tgPc' = "done" /\ tgExit' = status /\ slot' = 0
      /\ sent' = 0 /\ missed' = 0 /\ sleepErrors' = 0 /\ sends' = <<>>
      /\ behind' = FALSE /\ broken' = FALSE
  BY DEF Exits
<1>2. tgExit' \in {Running, 0, 1} /\ tgPc' \in Points
  BY <1>1 DEF Points
<1>3. sends' \in Seq(Sending) /\ sent' = Len(sends')
  BY <1>1, NothingSent
<1>4. slot' = sent' + missed' + sleepErrors'
  BY <1>1
<1>5. /\ now' \in Nat /\ slot' \in Nat /\ sent' \in Nat
      /\ missed' \in Nat /\ sleepErrors' \in Nat
  BY <1>1
<1>6. behind' \in BOOLEAN /\ broken' \in BOOLEAN
  BY <1>1
<1> QED  BY <1>2, <1>3, <1>4, <1>5, <1>6 DEF TgTypeOK

LEMMA TgTypeStep == TgTypeOK /\ [TgNext]_tgVars => TgTypeOK'
<1> SUFFICES ASSUME TgTypeOK, [TgNext]_tgVars
             PROVE  TgTypeOK'
  OBVIOUS
<1>1. CASE RefuseOptions \/ AcquireFails
  BY <1>1, ExitsType DEF RefuseOptions, AcquireFails
<1>2. CASE Start
  BY <1>2 DEF Start, TgTypeOK, Points
<1>3. CASE Check
  BY <1>3 DEF Check, Reads, TgTypeOK, Points
<1>4. CASE Pace
  <2>1. PeriodsLate(slot, now) \in Nat
    BY Skipping DEF TgTypeOK
  <2>2. /\ slot' = slot + PeriodsLate(slot, now)
        /\ missed' = missed + PeriodsLate(slot, now)
        /\ tgPc' \in Points /\ behind' \in BOOLEAN
        /\ UNCHANGED <<now, sent, sleepErrors, tgExit, sends, broken>>
    BY <1>4 DEF Pace, Reads, Points
  <2>3. slot' = sent' + missed' + sleepErrors'
    BY <2>1, <2>2 DEF TgTypeOK
  <2>4. /\ slot + PeriodsLate(slot, now) \in Nat
        /\ missed + PeriodsLate(slot, now) \in Nat
    BY <2>1 DEF TgTypeOK
  <2>5. /\ now' \in Nat /\ sent' \in Nat /\ sleepErrors' \in Nat
        /\ tgExit' \in {Running, 0, 1} /\ sends' \in Seq(Sending)
        /\ broken' \in BOOLEAN /\ sent' = Len(sends')
    BY <2>2, Zenon DEF TgTypeOK
  <2>6. slot' \in Nat /\ missed' \in Nat
    BY <2>2, <2>4, Zenon
  <2> QED  BY <2>2, <2>3, <2>5, <2>6, Zenon DEF TgTypeOK
<1>5. CASE Wake
  BY <1>5 DEF Wake, TgTypeOK, Points
<1>6. CASE SleepFails
  BY <1>6 DEF SleepFails, TgTypeOK, Points
<1>7. CASE Recheck
  BY <1>7 DEF Recheck, Reads, TgTypeOK, Points
<1>8. CASE Report
  BY <1>8, ExitsType DEF Report
<1>9. ASSUME NEW ok \in SendResults, Transmit(ok)
      PROVE  TgTypeOK'
  <2>1. CASE ok
    <3>1. [slot |-> slot, at |-> now] \in Sending
      BY DEF TgTypeOK, Sending
    <3>2. /\ sends' = Append(sends, [slot |-> slot, at |-> now])
          /\ sent' = sent + 1 /\ slot' = slot + 1 /\ tgPc' = "check"
          /\ UNCHANGED <<now, missed, sleepErrors, tgExit, behind, broken>>
      BY <1>9, <2>1 DEF Transmit
    <3>3. sends \in Seq(Sending)
      BY DEF TgTypeOK
    <3>4. sends' \in Seq(Sending) /\ Len(sends') = Len(sends) + 1
      BY <3>1, <3>2, <3>3, Appended
    <3>5. /\ sent' \in Nat /\ slot' \in Nat /\ sent' = Len(sends')
          /\ slot' = sent' + missed' + sleepErrors'
      BY <3>2, <3>4 DEF TgTypeOK
    <3>6. /\ now' \in Nat /\ tgPc' \in Points /\ tgExit' \in {Running, 0, 1}
          /\ missed' \in Nat /\ sleepErrors' \in Nat
          /\ behind' \in BOOLEAN /\ broken' \in BOOLEAN
      BY <3>2 DEF TgTypeOK, Points
    <3> QED  BY <3>4, <3>5, <3>6 DEF TgTypeOK
  <2>2. CASE ~ok
    BY <1>9, <2>2 DEF Transmit, TgTypeOK, Points
  <2> QED  BY <2>1, <2>2
<1>10. CASE Tick
  BY <1>10 DEF Tick, TgTypeOK, Points
<1>11. CASE UNCHANGED tgVars
  BY <1>11 DEF tgVars, TgTypeOK, Points
<1> QED
  BY <1>1, <1>2, <1>3, <1>4, <1>5, <1>6, <1>7, <1>8, <1>9, <1>10, <1>11
  DEF TgNext, Quiet

\* Every slot up to the next one was sent, skipped or given up, and the
\* counters say which.
THEOREM TgTypeSafe == TgSpec => []TgTypeOK
  BY TgTypeInit, TgTypeStep, PTL DEF TgSpec
-----------------------------------------------------------------------------
(* Pacing.  A datagram leaves at or after the time of its slot, and the    *)
(* next slot is chosen after it has left, as the slot then current: so it  *)
(* left before the end of the slot that follows it.                        *)

Ordered ==
  /\ \A i \in 1 .. Len(sends) :
       /\ sends[i].slot < slot
       /\ Deadline(sends[i].slot) <= sends[i].at /\ sends[i].at <= now
  /\ \A i \in 1 .. Len(sends) - 1 :
       /\ sends[i].slot < sends[i + 1].slot
       /\ sends[i].at < Deadline(sends[i + 1].slot + 1)

Chosen ==
  /\ tgPc \in {"sleep", "recheck", "send"} /\ Len(sends) > 0
       => sends[Len(sends)].at < Deadline(slot + 1)
  /\ tgPc \in {"recheck", "send"} => Deadline(slot) <= now

Paced == Ordered /\ Chosen

LEMMA PacedInit == TgInit => Paced
  BY DEF TgInit, Paced, Ordered, Chosen

LEMMA PacedExit ==
  ASSUME NEW status, Exits(status)
  PROVE  Paced'
  BY DEF Exits, Paced, Ordered, Chosen

LEMMA PacedStep == TgTypeOK /\ Paced /\ [TgNext]_tgVars => Paced'
<1> SUFFICES ASSUME TgTypeOK, Paced, [TgNext]_tgVars
             PROVE  Paced'
  OBVIOUS
<1> USE DEF Paced
<1>1. CASE RefuseOptions \/ AcquireFails
  BY <1>1, PacedExit DEF RefuseOptions, AcquireFails
<1>2. CASE Start
  BY <1>2 DEF Start, Ordered, Chosen
<1>3. CASE Check
  BY <1>3 DEF Check, Ordered, Chosen
<1>4. CASE Pace
  <2>1. /\ PeriodsLate(slot, now) \in Nat
        /\ now < Deadline(slot + PeriodsLate(slot, now) + 1)
    BY Skipping DEF TgTypeOK
  <2>2. slot' = slot + PeriodsLate(slot, now)
    BY <1>4 DEF Pace
  <2>3. Ordered'
    <3>1. \A i \in 1 .. Len(sends) :
            sends[i].slot \in Nat /\ sends[i].slot < slot
      BY SendsType DEF Ordered
    <3>2. \A i \in 1 .. Len(sends) :
            sends[i].slot < slot + PeriodsLate(slot, now)
      BY <2>1, <3>1 DEF TgTypeOK
    <3>3. sends' = sends /\ now' = now
      BY <1>4 DEF Pace
    <3> QED  BY <2>2, <3>2, <3>3 DEF Ordered
  <2>4. /\ Deadline(slot + PeriodsLate(slot, now) + 1) \in Nat
        /\ now < Deadline(slot + PeriodsLate(slot, now) + 1)
    <3>1. slot + PeriodsLate(slot, now) + 1 \in Nat
      BY <2>1 DEF TgTypeOK
    <3> QED  BY <2>1, <3>1, Deadlines
  <2>5. Len(sends) > 0 => sends[Len(sends)].at <= now
                          /\ sends[Len(sends)].at \in Nat
    BY SendsType DEF Ordered
  <2>6. Chosen'
    <3>1. Len(sends) > 0 =>
            sends[Len(sends)].at < Deadline(slot + PeriodsLate(slot, now) + 1)
      BY <2>4, <2>5 DEF TgTypeOK
    <3>2. /\ tgPc' \in {"report", "sleep"} /\ sends' = sends
          /\ slot' = slot + PeriodsLate(slot, now)
      BY <1>4 DEF Pace
    <3> QED  BY <3>1, <3>2 DEF Chosen
  <2> QED  BY <2>3, <2>6
<1>5. CASE Wake
  BY <1>5 DEF Wake, Ordered, Chosen
<1>6. CASE SleepFails
  <2>1. \A i \in 1 .. Len(sends) : sends[i].slot \in Nat
    BY SendsType
  <2>2. slot \in Nat /\ slot' = slot + 1 /\ tgPc' = "check"
        /\ sends' = sends /\ now' = now
    BY <1>6 DEF SleepFails, TgTypeOK
  <2>3. Ordered'
    BY <2>1, <2>2 DEF Ordered
  <2> QED  BY <2>2, <2>3 DEF Chosen
<1>7. CASE Recheck
  BY <1>7 DEF Recheck, Ordered, Chosen
<1>8. CASE Report
  BY <1>8, PacedExit DEF Report
<1>9. ASSUME NEW ok \in SendResults, Transmit(ok)
      PROVE  Paced'
  <2>1. CASE ok
    <3>1. /\ Len(sends') = Len(sends) + 1
          /\ \A i \in 1 .. Len(sends) : sends'[i] = sends[i]
          /\ sends'[Len(sends) + 1] = [slot |-> slot, at |-> now]
      <4> DEFINE this == [slot |-> slot, at |-> now]
      <4>1. this \in Sending /\ sends \in Seq(Sending)
        BY DEF TgTypeOK, Sending
      <4>2. sends' = Append(sends, this)
        BY <1>9, <2>1 DEF Transmit
      <4> HIDE DEF this
      <4>3. /\ Len(sends') = Len(sends) + 1
            /\ \A i \in 1 .. Len(sends) : sends'[i] = sends[i]
            /\ sends'[Len(sends) + 1] = this
        BY <4>1, <4>2, Appended
      <4> QED  BY <4>3 DEF this
    <3>2. slot' = slot + 1 /\ now' = now /\ tgPc = "send" /\ tgPc' = "check"
      BY <1>9, <2>1 DEF Transmit
    <3>3. ASSUME NEW i \in 1 .. Len(sends')
          PROVE  /\ sends'[i].slot < slot'
                 /\ Deadline(sends'[i].slot) <= sends'[i].at
                 /\ sends'[i].at <= now'
      <4>1. CASE i \in 1 .. Len(sends)
        <5>1. /\ sends[i].slot \in Nat /\ sends[i].slot < slot
              /\ Deadline(sends[i].slot) <= sends[i].at /\ sends[i].at <= now
          BY <4>1, SendsType DEF Ordered
        <5> QED  BY <3>1, <3>2, <4>1, <5>1 DEF TgTypeOK
      <4>2. CASE i = Len(sends) + 1
        BY <3>1, <3>2, <4>2 DEF Chosen, TgTypeOK
      <4> QED  BY <3>1, <4>1, <4>2 DEF TgTypeOK
    <3>4. ASSUME NEW i \in 1 .. Len(sends') - 1
          PROVE  /\ sends'[i].slot < sends'[i + 1].slot
                 /\ sends'[i].at < Deadline(sends'[i + 1].slot + 1)
      <4>1. CASE i \in 1 .. Len(sends) - 1
        <5>1. i \in 1 .. Len(sends) /\ i + 1 \in 1 .. Len(sends)
          BY <4>1 DEF TgTypeOK
        <5> QED  BY <3>1, <4>1, <5>1 DEF Ordered
      <4>2. CASE i = Len(sends)
        <5>1. i \in 1 .. Len(sends) /\ Len(sends) > 0
          BY <3>4, <4>2 DEF TgTypeOK
        <5>2. sends[i].slot < slot /\ sends[i].at < Deadline(slot + 1)
          BY <3>2, <4>2, <5>1 DEF Ordered, Chosen
        <5> QED  BY <3>1, <4>2, <5>1, <5>2
      <4> QED  BY <3>1, <3>4, <4>1, <4>2 DEF TgTypeOK
    <3> QED  BY <3>2, <3>3, <3>4 DEF Ordered, Chosen
  <2>2. CASE ~ok
    BY <1>9, <2>2 DEF Transmit, Ordered, Chosen
  <2> QED  BY <2>1, <2>2
<1>10. CASE Tick
  <2>1. now' = now + 1 /\ UNCHANGED <<tgPc, slot, sends>>
    BY <1>10 DEF Tick
  <2>2. Ordered'
    <3>1. \A i \in 1 .. Len(sends) : sends[i].at \in Nat
      BY SendsType
    <3> QED  BY <2>1, <3>1 DEF Ordered, TgTypeOK
  <2>3. Deadline(slot) \in Nat
    BY Deadlines DEF TgTypeOK
  <2>4. Chosen'
    BY <2>1, <2>3 DEF Chosen, TgTypeOK
  <2> QED  BY <2>2, <2>4
<1>11. CASE UNCHANGED tgVars
  BY <1>11 DEF tgVars, Ordered, Chosen
<1> QED
  BY <1>1, <1>2, <1>3, <1>4, <1>5, <1>6, <1>7, <1>8, <1>9, <1>10, <1>11
  DEF TgNext, Quiet

LEMMA PacedNoBurst == TgTypeOK /\ Paced => NoCatchUpBurst
<1> SUFFICES ASSUME TgTypeOK, Paced, NEW i \in 1 .. Len(sends) - 3
             PROVE  sends[i + 3].at - sends[i].at > Period
  BY DEF NoCatchUpBurst
<1>1. /\ i \in 1 .. Len(sends) - 1 /\ i + 1 \in 1 .. Len(sends) - 1
      /\ i + 2 \in 1 .. Len(sends) - 1
      /\ i \in 1 .. Len(sends) /\ i + 1 \in 1 .. Len(sends)
      /\ i + 2 \in 1 .. Len(sends) /\ i + 3 \in 1 .. Len(sends)
      /\ i + 1 + 1 = i + 2 /\ i + 2 + 1 = i + 3
  BY DEF TgTypeOK
<1> DEFINE r == sends[i + 1].slot
           t == sends[i + 3].slot
<1>2. /\ r \in Nat /\ t \in Nat /\ sends[i + 2].slot \in Nat
      /\ sends[i].at \in Nat /\ sends[i + 3].at \in Nat
  BY <1>1, SendsType
<1>0. Ordered
  BY DEF Paced
<1>3. r + 2 <= t
  <2>1. r < sends[i + 2].slot
    <3>1. sends[i + 1].slot < sends[i + 1 + 1].slot
      BY <1>0, <1>1, Zenon DEF Ordered
    <3> QED  BY <1>1, <3>1
  <2>2. sends[i + 2].slot < t
    <3>1. sends[i + 2].slot < sends[i + 2 + 1].slot
      BY <1>0, <1>1, Zenon DEF Ordered
    <3> QED  BY <1>1, <3>1
  <2> HIDE DEF r, t
  <2> QED  BY <1>2, <2>1, <2>2
<1>4. sends[i].at < Deadline(r + 1)
  BY <1>0, <1>1, Zenon DEF Ordered
<1>5. Deadline(t) <= sends[i + 3].at
  BY <1>0, <1>1, Zenon DEF Ordered
<1>6. /\ Deadline(r + 1) \in Nat /\ Deadline(r + 2) = Deadline(r + 1) + Period
      /\ Deadline(r + 2) <= Deadline(t) /\ Deadline(t) \in Nat
  <2>1. r + 1 \in Nat /\ r + 2 \in Nat /\ r + 1 + 1 = r + 2
    BY <1>2, TwoLater, Zenon
  <2>2. Deadline(r + 1) \in Nat /\ Deadline(r + 1 + 1) = Deadline(r + 1) + Period
    BY <2>1, Deadlines
  <2>3. Deadline(r + 2) <= Deadline(t) /\ Deadline(t) \in Nat
    BY <1>2, <1>3, <2>1, Deadlines
  <2> QED  BY <2>1, <2>2, <2>3
<1>7. Period \in Nat
  BY PeriodType
<1> HIDE DEF r, t
<1>8. /\ Deadline(r + 1) + Period <= Deadline(t)
      /\ sends[i].at \in Nat /\ sends[i + 3].at \in Nat
  BY <1>2, <1>6
<1> QED  BY <1>4, <1>5, <1>6, <1>7, <1>8, FurtherApart, Zenon

\* Four datagrams in a row always leave over more than one period, however
\* long the generator is held up and wherever.
THEOREM PacedSafe == TgSpec => []NoCatchUpBurst
<1>1. TgInit => TgTypeOK /\ Paced
  BY TgTypeInit, PacedInit
<1>2. (TgTypeOK /\ Paced) /\ [TgNext]_tgVars => (TgTypeOK /\ Paced)'
  BY TgTypeStep, PacedStep
<1> QED  BY <1>1, <1>2, PacedNoBurst, PTL DEF TgSpec
-----------------------------------------------------------------------------
(* The window.                                                             *)

InLoop == {"pace", "sleep", "recheck", "send"}

Windowed ==
  /\ \A i \in 1 .. Len(sends) - 1 : sends[i].at < Window
  /\ tgPc \in InLoop =>
       /\ \A i \in 1 .. Len(sends) : sends[i].at < Window
       /\ Deadline(slot) < Window

LEMMA WindowedInit == TgInit => Windowed
  BY DEF TgInit, Windowed, InLoop

LEMMA WindowedExit ==
  ASSUME NEW status, Exits(status)
  PROVE  Windowed'
  BY DEF Exits, Windowed, InLoop

LEMMA WindowedStep == TgTypeOK /\ Paced /\ Windowed /\ [TgNext]_tgVars => Windowed'
<1> SUFFICES ASSUME TgTypeOK, Paced, Windowed, [TgNext]_tgVars
             PROVE  Windowed'
  OBVIOUS
<1>1. CASE RefuseOptions \/ AcquireFails
  BY <1>1, WindowedExit DEF RefuseOptions, AcquireFails
<1>2. CASE Start
  BY <1>2 DEF Start, Windowed, InLoop
<1>3. CASE Check
  <2>1. /\ UNCHANGED <<sends, slot>> /\ tgPc' \in {"report", "pace"}
        /\ tgPc' = "pace" => ~(now >= Window) /\ ~(Deadline(slot) >= Window)
    BY <1>3 DEF Check
  <2>2. \A i \in 1 .. Len(sends) : sends[i].at <= now /\ sends[i].at \in Nat
    BY SendsType DEF Paced, Ordered
  <2>3. now \in Nat /\ Window \in Nat /\ Deadline(slot) \in Nat
    BY WindowType, Deadlines DEF TgTypeOK
  <2>4. tgPc' = "pace" => /\ \A i \in 1 .. Len(sends) : sends[i].at < Window
                          /\ Deadline(slot) < Window
    BY <2>1, <2>2, <2>3
  <2> QED  BY <2>1, <2>4 DEF Windowed, InLoop
<1>4. CASE Pace
  <2> DEFINE late == PeriodsLate(slot, now)
  <2>1. late \in Nat
    BY Skipping DEF TgTypeOK
  <2>2. /\ tgPc = "pace" /\ slot' = slot + late /\ sends' = sends
        /\ tgPc' \in {"report", "sleep"}
        /\ tgPc' = "sleep" => ~(late > 0) \/ ~(Deadline(slot + late) >= Window)
    BY <1>4 DEF Pace
  <2>3. slot + late \in Nat
    BY <2>1 DEF TgTypeOK
  <2>4. Deadline(slot + late) \in Nat /\ Window \in Nat
    BY <2>3, Deadlines, WindowType
  <2>5. tgPc' = "sleep" => Deadline(slot + late) < Window
    <3>1. CASE late = 0
      <4>1. slot + late = slot
        BY <3>1 DEF TgTypeOK
      <4> QED  BY <2>2, <4>1 DEF Windowed, InLoop
    <3>2. CASE late # 0
      BY <2>1, <2>2, <2>4, <3>2
    <3> QED  BY <3>1, <3>2
  <2> QED  BY <2>2, <2>5 DEF Windowed, InLoop
<1>5. CASE Wake
  BY <1>5 DEF Wake, Windowed, InLoop
<1>6. CASE SleepFails
  BY <1>6 DEF SleepFails, Windowed, InLoop
<1>7. CASE Recheck
  BY <1>7 DEF Recheck, Windowed, InLoop
<1>8. CASE Report
  BY <1>8, WindowedExit DEF Report
<1>9. ASSUME NEW ok \in SendResults, Transmit(ok)
      PROVE  Windowed'
  <2>1. CASE ok
    <3>1. /\ Len(sends') = Len(sends) + 1 /\ Len(sends) \in Nat
          /\ \A i \in 1 .. Len(sends) : sends'[i] = sends[i]
      BY <1>9, <2>1 DEF Transmit, TgTypeOK
    <3>2. tgPc = "send" /\ tgPc' = "check"
      BY <1>9, <2>1 DEF Transmit
    <3>3. \A i \in 1 .. Len(sends') - 1 : sends'[i].at < Window
      BY <3>1, <3>2 DEF Windowed, InLoop
    <3> QED  BY <3>2, <3>3 DEF Windowed, InLoop
  <2>2. CASE ~ok
    BY <1>9, <2>2 DEF Transmit, Windowed, InLoop
  <2> QED  BY <2>1, <2>2
<1>10. CASE Tick
  BY <1>10 DEF Tick, Windowed, InLoop
<1>11. CASE UNCHANGED tgVars
  BY <1>11 DEF tgVars, Windowed, InLoop
<1> QED
  BY <1>1, <1>2, <1>3, <1>4, <1>5, <1>6, <1>7, <1>8, <1>9, <1>10, <1>11
  DEF TgNext, Quiet

\* Whatever the delays, only one datagram can leave after the window, and
\* the generator never sleeps beyond it.
THEOREM WindowSafe == TgSpec => []StrictWindow
<1>1. TgInit => TgTypeOK /\ Paced /\ Windowed
  BY TgTypeInit, PacedInit, WindowedInit
<1>2. (TgTypeOK /\ Paced /\ Windowed) /\ [TgNext]_tgVars
        => (TgTypeOK /\ Paced /\ Windowed)'
  BY TgTypeStep, PacedStep, WindowedStep
<1>3. Windowed => StrictWindow
  BY DEF Windowed, StrictWindow, InLoop
<1> QED  BY <1>1, <1>2, <1>3, PTL DEF TgSpec
-----------------------------------------------------------------------------
(* The target.                                                             *)

\* The rounded-down period leaves room for every slot of the target.
LEMMA TargetFits == Deadline(Target) <= Window /\ Target <= RawTarget
<1> DEFINE kept == RawTarget - (RawTarget % Batch)
<1>1. kept \in Nat /\ kept <= RawTarget
  BY WindowType, RateAssumption, SMT DEF RateAssumption
<1>2. Target \in Nat /\ Target <= kept
  <2>1. Target = kept % CountSpace
    BY DEF Target
  <2> HIDE DEF kept
  <2> QED  BY <1>1, <2>1, RateAssumption, SMT DEF RateAssumption
<1>3. Target * Period <= RawTarget * Period
  <2>1. Target <= RawTarget
    BY <1>1, <1>2, WindowType
  <2> QED  BY <1>2, <2>1, WindowType, PeriodType, Product
<1>4. RawTarget * Period = Seconds * (Pps * Period)
  BY RateAssumption, PeriodType, SMT DEF RateAssumption, RawTarget
<1>5. Seconds * (Pps * Period) <= Seconds * TicksPerSecond
  <2>1. Pps * Period \in Int
    BY RateAssumption, PeriodType DEF RateAssumption
  <2>2. (Pps * Period) * Seconds <= TicksPerSecond * Seconds
    BY <2>1, PeriodType, RateAssumption, Product DEF RateAssumption
  <2> QED  BY <2>1, <2>2, RateAssumption, SMT DEF RateAssumption
<1>6. /\ Target * Period \in Int /\ RawTarget * Period \in Int
      /\ Seconds * (Pps * Period) \in Int /\ Seconds * TicksPerSecond \in Int
  BY <1>2, WindowType, RateAssumption, PeriodType, SMT DEF RateAssumption
<1> QED
  BY <1>1, <1>2, <1>3, <1>4, <1>5, <1>6, WindowType DEF Deadline, Window

Smooth == ~behind /\ ~broken /\ sleepErrors = 0

InTime ==
  Smooth =>
    /\ missed = 0 /\ sent <= Target
    /\ tgPc \in InLoop => sent < Target
    /\ tgPc = "report" => sent = Target

LEMMA InTimeInit == TgInit => InTime
<1> SUFFICES ASSUME TgInit
             PROVE  InTime
  OBVIOUS
<1>1. missed = 0 /\ sent = 0 /\ tgPc = "start"
  BY DEF TgInit
<1> QED  BY <1>1, WindowType DEF InTime, InLoop

LEMMA InTimeExit ==
  ASSUME NEW status, Exits(status)
  PROVE  InTime'
<1>1. missed' = 0 /\ sent' = 0 /\ tgPc' = "done"
  BY DEF Exits
<1>2. Target \in Nat /\ sent' <= Target
  BY <1>1, WindowType
<1> QED  BY <1>1, <1>2 DEF InTime, InLoop

\* A reading less than a period late, before slot r of the target, is inside
\* the window.
LEMMA ReadingInside ==
  ASSUME NEW r \in Nat, NEW t \in Nat, r < Target, t < Deadline(r + 1)
  PROVE  t < Window
<1>1. /\ r + 1 \in Nat /\ Target \in Nat /\ r + 1 <= Target
      /\ Window \in Nat
  BY WindowType
<1>2. /\ Deadline(r + 1) \in Nat /\ Deadline(Target) \in Nat
      /\ Deadline(r + 1) <= Deadline(Target)
  BY <1>1, Deadlines
<1>3. Deadline(Target) <= Window
  BY TargetFits
<1> QED  BY <1>1, <1>2, <1>3

LEMMA InTimeStep == TgTypeOK /\ InTime /\ [TgNext]_tgVars => InTime'
<1> SUFFICES ASSUME TgTypeOK, InTime, [TgNext]_tgVars
             PROVE  InTime'
  OBVIOUS
<1>0. /\ slot \in Nat /\ now \in Nat /\ sent \in Nat /\ Target \in Nat
      /\ Smooth => slot = sent
  <2>1. slot \in Nat /\ now \in Nat /\ sent \in Nat /\ Target \in Nat
    BY WindowType DEF TgTypeOK
  <2>2. Smooth => slot = sent
    BY DEF TgTypeOK, InTime, Smooth
  <2> QED  BY <2>1, <2>2
\* A reading that leaves the run smooth was less than a period late.
<1>r. ASSUME Reads(slot), Smooth'
      PROVE  ~behind /\ now < Deadline(slot + 1)
  <2>1. ~behind /\ ~(now >= Deadline(slot + 1))
    BY <1>r DEF Reads, Smooth
  <2>2. slot + 1 \in Nat
    BY <1>0
  <2>3. Deadline(slot + 1) \in Nat
    BY <2>2, Deadlines
  <2> QED  BY <1>0, <2>1, <2>3
<1>1. CASE RefuseOptions \/ AcquireFails
  BY <1>1, InTimeExit DEF RefuseOptions, AcquireFails
<1>2. CASE Start
  BY <1>2 DEF Start, InTime, Smooth, InLoop
<1>3. CASE Check
  <2> SUFFICES ASSUME Smooth'
               PROVE  /\ missed' = 0 /\ sent' <= Target
                      /\ tgPc' \in InLoop => sent' < Target
                      /\ tgPc' = "report" => sent' = Target
    BY DEF InTime
  <2>1. /\ tgPc = "check" /\ UNCHANGED <<slot, sent, missed, sleepErrors, broken>>
        /\ tgPc' \in {"report", "pace"}
        /\ tgPc' = "pace" => ~(sent >= Target)
        /\ tgPc' = "report" =>
             now >= Window \/ sent >= Target \/ Deadline(slot) >= Window
    BY <1>3 DEF Check
  <2>2. ~behind /\ now < Deadline(slot + 1)
    BY <1>3, <1>r DEF Check
  <2>3. Smooth
    BY <2>1, <2>2 DEF Smooth
  <2>4. missed = 0 /\ sent <= Target /\ slot = sent
    BY <1>0, <2>3 DEF InTime
  <2>5. sent < Target => now < Window /\ Deadline(slot) < Window
    <3>1. ASSUME sent < Target
          PROVE  now < Window /\ Deadline(slot) < Window
      <4>1. now < Window
        BY <1>0, <2>2, <2>4, <3>1, ReadingInside
      <4>2. /\ Deadline(slot) \in Nat /\ Deadline(slot) < Deadline(slot + 1)
        <5>1. /\ Deadline(slot) \in Nat
              /\ Deadline(slot + 1) = Deadline(slot) + Period
          BY <1>0, Deadlines, Zenon
        <5> QED  BY <5>1, PeriodType
      <4>3. Deadline(slot) < Window
        BY <1>0, <2>4, <3>1, <4>2, ReadingInside
      <4> QED  BY <4>1, <4>3
    <3> QED  BY <3>1
  <2>6. tgPc' = "report" => sent = Target
    <3>1. Window \in Nat /\ Deadline(slot) \in Nat
      BY <1>0, WindowType, Deadlines
    <3>2. now \in Nat /\ sent \in Nat /\ Target \in Nat
      BY <1>0, WindowType DEF TgTypeOK
    <3>3. tgPc' = "report" => sent >= Target
      BY <2>1, <2>5, <3>1, <3>2
    <3> QED  BY <2>4, <3>2, <3>3
  <2>7. tgPc' = "pace" => sent < Target
    BY <1>0, <2>1
  <2> QED  BY <2>1, <2>4, <2>6, <2>7 DEF InLoop
<1>4. CASE Pace
  <2> DEFINE late == PeriodsLate(slot, now)
  <2> SUFFICES ASSUME Smooth'
               PROVE  /\ missed' = 0 /\ sent' <= Target
                      /\ tgPc' \in InLoop => sent' < Target
                      /\ tgPc' = "report" => sent' = Target
    BY DEF InTime
  <2>1. /\ tgPc = "pace" /\ UNCHANGED <<sent, sleepErrors, broken>>
        /\ missed' = missed + late
        /\ tgPc' \in {"report", "sleep"}
        /\ tgPc' = "report" => late > 0
    BY <1>4 DEF Pace
  <2>2. ~behind /\ now < Deadline(slot + 1)
    BY <1>4, <1>r DEF Pace
  <2>3. late = 0
    BY <1>0, <2>2, Skipping
  <2>4. Smooth
    BY <2>1, <2>2 DEF Smooth
  <2>5. missed = 0 /\ sent <= Target /\ sent < Target
    BY <2>1, <2>4 DEF InTime, InLoop
  <2>6. missed' = 0
    BY <2>1, <2>3, <2>5
  <2> HIDE DEF late
  <2> QED  BY <2>1, <2>3, <2>5, <2>6 DEF InLoop
<1>5. CASE Wake
  BY <1>5 DEF Wake, InTime, Smooth, InLoop
<1>6. CASE SleepFails
  <2>1. sleepErrors' # 0
    BY <1>6 DEF SleepFails, TgTypeOK
  <2> QED  BY <2>1 DEF InTime, Smooth
<1>7. CASE Recheck
  <2> SUFFICES ASSUME Smooth'
               PROVE  /\ missed' = 0 /\ sent' <= Target
                      /\ tgPc' \in InLoop => sent' < Target
                      /\ tgPc' = "report" => sent' = Target
    BY DEF InTime
  <2>1. /\ tgPc = "recheck" /\ UNCHANGED <<sent, missed, sleepErrors, broken>>
        /\ tgPc' \in {"report", "send"}
        /\ tgPc' = "report" => now >= Window
    BY <1>7 DEF Recheck
  <2>2. ~behind /\ now < Deadline(slot + 1)
    BY <1>7, <1>r DEF Recheck
  <2>3. Smooth
    BY <2>1, <2>2 DEF Smooth
  <2>4. missed = 0 /\ sent < Target /\ sent <= Target /\ slot = sent
    BY <1>0, <2>1, <2>3 DEF InTime, InLoop
  <2>5. now < Window /\ Window \in Nat
    BY <1>0, <2>2, <2>4, ReadingInside, WindowType
  <2>6. tgPc' # "report"
    BY <1>0, <2>1, <2>5
  <2> QED  BY <2>1, <2>4, <2>6 DEF InLoop
<1>8. CASE Report
  BY <1>8, InTimeExit DEF Report
<1>9. ASSUME NEW ok \in SendResults, Transmit(ok)
      PROVE  InTime'
  <2>1. CASE ok
    <3>1. /\ tgPc = "send" /\ tgPc' = "check" /\ sent' = sent + 1
          /\ UNCHANGED <<missed, sleepErrors, behind, broken>>
      BY <1>9, <2>1 DEF Transmit
    <3>2. Smooth' = Smooth
      BY <3>1 DEF Smooth
    <3>3. Smooth => missed = 0 /\ sent + 1 <= Target
      BY <1>0, <3>1 DEF InTime, InLoop
    <3> QED  BY <3>1, <3>2, <3>3 DEF InTime, InLoop
  <2>2. CASE ~ok
    <3>1. broken'
      BY <1>9, <2>2 DEF Transmit
    <3> QED  BY <3>1 DEF InTime, Smooth
  <2> QED  BY <2>1, <2>2
<1>10. CASE Tick
  BY <1>10 DEF Tick, InTime, Smooth, InLoop
<1>11. CASE UNCHANGED tgVars
  BY <1>11 DEF tgVars, InTime, Smooth, InLoop
<1> QED
  BY <1>1, <1>2, <1>3, <1>4, <1>5, <1>6, <1>7, <1>8, <1>9, <1>10, <1>11
  DEF TgNext, Quiet

\* A generator that is never a whole period late and meets no failing call
\* sends its whole target, for every rate and duration.
THEOREM TargetSafe == TgSpec => []TargetReached
<1>1. TgInit => TgTypeOK /\ InTime
  BY TgTypeInit, InTimeInit
<1>2. (TgTypeOK /\ InTime) /\ [TgNext]_tgVars => (TgTypeOK /\ InTime)'
  BY TgTypeStep, InTimeStep
<1>3. InTime => TargetReached
  BY DEF InTime, Smooth, TargetReached
<1> QED  BY <1>1, <1>2, <1>3, PTL DEF TgSpec
=============================================================================
