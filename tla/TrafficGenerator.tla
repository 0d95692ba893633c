-------------------------- MODULE TrafficGenerator --------------------------
(***************************************************************************)
(* The traffic generator (src/applications/traffic_generator.c): a paced   *)
(* loop that sends numbered datagrams, one per nominal slot, inside a      *)
(* strict window of time.                                                  *)
(*                                                                         *)
(* Time is counted in ticks from experiment_start_ns and may pass between  *)
(* any two clock readings and calls: Tick is the only action that moves    *)
(* it.  Sums and maxima of durations, which are only printed, are left     *)
(* out.                                                                    *)
(***************************************************************************)
EXTENDS Integers, Sequences

CONSTANTS
  TicksPerSecond,    \* NS_PER_S, 10^9 in the code
  Pps,               \* -r
  Seconds,           \* -t
  Batch,             \* 8 in the code: the target is a multiple of it
  CountSpace,        \* 2^32 in the code: target and sent are uint32_t
  MaxTime,           \* bound: the clock stops there
  PayloadSizes,      \* -s
  Readable,          \* which sources a scheduler snapshot may find readable
  SendResults        \* what sendto can do: TRUE sends the whole datagram

\* The code demands pps > 0 and duracion > 0 only; with more than 10^9
\* packets per second the period is zero and is divided by.
ASSUME RateAssumption ==
  /\ TicksPerSecond \in Nat /\ Pps \in Nat \ {0} /\ Pps <= TicksPerSecond
  /\ Seconds \in Nat \ {0}
  /\ Batch \in Nat \ {0} /\ CountSpace \in Nat \ {0}

VARIABLES
  now,          \* the clock
  tgPc,         \* the point of main at which the generator is
  slot,         \* nominal_slot
  sent,         \* sent, and seq: they are always equal
  missed,       \* missed_nominal_slots
  sleepErrors,  \* sleep_error_count
  sched,        \* figures valid in the snapshot at the start
  report,       \* datagrams and scheduler figures printed at the end
  tgExit,       \* the exit status
  sends,        \* history: slot and time of every datagram sent
  behind,       \* history: a clock reading was a whole period late
  broken        \* history: sendto did not send a datagram

tgVars == <<now, tgPc, slot, sent, missed, sleepErrors, sched,
            report, tgExit, sends, behind, broken>>

Points == {"start", "check", "pace", "sleep", "recheck", "send", "report",
           "done"}
Sending == [slot : Nat, at : Nat]
NoReport == [sent |-> 0, figures |-> {}]
Running == -1

\* Mutant: the period rounded up.
Period_up == (TicksPerSecond + Pps - 1) \div Pps

Period == TicksPerSecond \div Pps
Window == Seconds * TicksPerSecond
RawTarget == Pps * Seconds
Target == (RawTarget - (RawTarget % Batch)) % CountSpace

\* The time of a slot, from the fixed origin of the pacing.
Deadline(s) == s * Period

TgInit ==
  /\ now = 0 /\ tgPc = "start"
  /\ slot = 0 /\ sent = 0 /\ missed = 0 /\ sleepErrors = 0
  /\ sched = {} /\ report = NoReport /\ tgExit = Running
  /\ sends = <<>> /\ behind = FALSE /\ broken = FALSE

\* A reading of the clock while slot s is the next one.
Reads(s) == behind' = (behind \/ now >= Deadline(s + 1))

\* The process is gone, and its variables with it.
Exits(status) ==
  /\ tgPc' = "done" /\ tgExit' = status
  /\ now' = 0 /\ slot' = 0 /\ sent' = 0 /\ missed' = 0 /\ sleepErrors' = 0
  /\ sched' = {} /\ sends' = <<>> /\ behind' = FALSE /\ broken' = FALSE

\* The tests of the options; the maximum is the payload of one Ethernet frame.
Accepted(len) == len \in 8 .. 1472 /\ Pps > 0 /\ Seconds > 0

RefuseOptions ==
  /\ tgPc = "start"
  /\ \E len \in PayloadSizes : ~Accepted(len)
  /\ Exits(1)
  /\ UNCHANGED report

\* No socket, a destination that is no address, or no memory; a send buffer
\* that cannot be enlarged is only a warning.
AcquireFails ==
  /\ tgPc = "start"
  /\ \E len \in PayloadSizes : Accepted(len)
  /\ Exits(1)
  /\ UNCHANGED report

\* The figures of a snapshot: those whose sources can be read, both lines of
\* /proc/self/status for the context switches.
Sources == {"schedstat", "voluntary", "nonvoluntary", "cpu clock"}
Snapshot(readable) ==
  {f \in {"schedstat", "switches", "process_cpu"} :
     CASE f = "schedstat"   -> "schedstat" \in readable
       [] f = "switches"    -> {"voluntary", "nonvoluntary"} \subseteq readable
       [] f = "process_cpu" -> "cpu clock" \in readable}

\* The baseline snapshot, whose failures change nothing, then the origin.
Start ==
  /\ tgPc = "start"
  /\ \E len \in PayloadSizes : Accepted(len)
  /\ tgPc' = "check"
  /\ \E readable \in Readable : sched' = Snapshot(readable)
  /\ UNCHANGED <<now, slot, sent, missed, sleepErrors, report,
                 tgExit, sends, behind, broken>>

\* The three ways out at the top of the loop.
Check ==
  /\ tgPc = "check"
  /\ tgPc' = IF now >= Window \/ sent >= Target \/ Deadline(slot) >= Window
             THEN "report" ELSE "pace"
  /\ Reads(slot)
  /\ UNCHANGED <<now, slot, sent, missed, sleepErrors, sched,
                 report, tgExit, sends, broken>>

\* Mutant: expired slots are not skipped.
PeriodsLate_none(s, t) == 0

\* How many whole slots the time t is past slot s.
PeriodsLate(s, t) ==
  IF t > Deadline(s) THEN (t - Deadline(s)) \div Period ELSE 0

\* Mutant: no test of the slot chosen against the window.
Pace_anySlot ==
  /\ tgPc = "pace"
  /\ slot' = slot + PeriodsLate(slot, now)
  /\ missed' = missed + PeriodsLate(slot, now)
  /\ tgPc' = "sleep"
  /\ Reads(slot)
  /\ UNCHANGED <<now, sent, sleepErrors, sched, report, tgExit, sends,
                 broken>>

\* Slots that have expired are skipped, never sent late in a row.
Pace ==
  /\ tgPc = "pace"
  /\ LET late == PeriodsLate(slot, now)
     IN  /\ slot' = slot + late
         /\ missed' = missed + late
         /\ tgPc' = IF late > 0 /\ Deadline(slot + late) >= Window
                    THEN "report" ELSE "sleep"
  /\ Reads(slot)
  /\ UNCHANGED <<now, sent, sleepErrors, sched, report, tgExit, sends,
                 broken>>

\* clock_nanosleep to the absolute time of the slot.
Wake ==
  /\ tgPc = "sleep" /\ now >= Deadline(slot)
  /\ tgPc' = "recheck"
  /\ UNCHANGED <<now, slot, sent, missed, sleepErrors, sched,
                 report, tgExit, sends, behind, broken>>

\* Mutant: a failed sleep is counted but keeps its slot.
SleepFails_keepsSlot ==
  /\ tgPc = "sleep"
  /\ tgPc' = "check"
  /\ sleepErrors' = sleepErrors + 1
  /\ UNCHANGED <<now, slot, sent, missed, sched, report, tgExit, sends,
                 behind, broken>>

\* An interrupted or failed sleep gives its slot up.
SleepFails ==
  /\ tgPc = "sleep"
  /\ tgPc' = "check"
  /\ sleepErrors' = sleepErrors + 1 /\ slot' = slot + 1
  /\ UNCHANGED <<now, sent, missed, sched, report, tgExit, sends,
                 behind, broken>>

\* The window may have ended during the sleep.
Recheck ==
  /\ tgPc = "recheck"
  /\ tgPc' = IF now >= Window THEN "report" ELSE "send"
  /\ Reads(slot)
  /\ UNCHANGED <<now, slot, sent, missed, sleepErrors, sched,
                 report, tgExit, sends, broken>>

\* sendto; a short or failed one ends the loop.
Transmit(ok) ==
  /\ tgPc = "send"
  /\ IF ok
     THEN /\ tgPc' = "check"
          /\ sent' = sent + 1 /\ slot' = slot + 1
          /\ sends' = Append(sends, [slot |-> slot, at |-> now])
          /\ UNCHANGED broken
     ELSE /\ tgPc' = "report"
          /\ broken' = TRUE
          /\ UNCHANGED <<sent, slot, sends>>
  /\ UNCHANGED <<now, missed, sleepErrors, sched, report, tgExit,
                 behind>>

\* A scheduler figure is printed if both snapshots hold it.
Deltas(end) == sched \cap end

\* The figures are printed; the status is zero whatever ended the loop.
Report ==
  /\ tgPc = "report"
  /\ \E readable \in Readable :
       report' = [sent |-> sent, figures |-> Deltas(Snapshot(readable))]
  /\ Exits(0)

\* Time passes, also between two readings of one round of the loop.
Tick ==
  /\ tgPc \notin {"start", "done"} /\ now < MaxTime
  /\ now' = now + 1
  /\ UNCHANGED <<tgPc, slot, sent, missed, sleepErrors, sched,
                 report, tgExit, sends, behind, broken>>

\* Every step of the generator but the datagram itself.
Quiet ==
  RefuseOptions \/ AcquireFails \/ Start \/ Check \/ Pace \/ Wake \/ SleepFails \/ Recheck
    \/ Report

TgNext == Quiet \/ (\E ok \in SendResults : Transmit(ok)) \/ Tick

TgSpec == TgInit /\ [][TgNext]_tgVars
-----------------------------------------------------------------------------
\* What every variable may hold; slots add up: each one was sent, skipped
\* or given up to a failed sleep (the counters of lines 752-812 and their
\* updates all over the loop).
TgTypeOK ==
  /\ now \in Nat /\ tgPc \in Points /\ tgExit \in {Running, 0, 1}
  /\ slot \in Nat /\ sent \in Nat /\ missed \in Nat
  /\ sleepErrors \in Nat
  /\ sends \in Seq(Sending)
  /\ behind \in BOOLEAN /\ broken \in BOOLEAN
  /\ sent = Len(sends)
  /\ slot = sent + missed + sleepErrors

\* No catch-up burst (header comment, lines 20-26): however long the
\* generator was held up and wherever, four datagrams in a row leave over
\* more than one period.
NoCatchUpBurst ==
  \A i \in 1 .. Len(sends) - 3 : sends[i + 3].at - sends[i].at > Period

\* The window is strict (lines 5, 863-874, 944-957, 1019-1031): only the one
\* datagram whose last check preceded the end of the window may leave after
\* it, and the generator never goes to sleep for a slot that lies outside.
StrictWindow ==
  /\ \A i \in 1 .. Len(sends) - 1 : sends[i].at < Window
  /\ tgPc \in {"sleep", "recheck", "send"} => Deadline(slot) < Window

\* A generator that is never a whole period late and meets no failing call
\* sends its nominal target (lines 666-689, 719-733): the rounding of the
\* period never makes the window too short.
TargetReached ==
  tgPc = "report" /\ ~behind /\ ~broken /\ sleepErrors = 0
    => sent = Target
=============================================================================
