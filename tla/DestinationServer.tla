------------------------- MODULE DestinationServer -------------------------
(***************************************************************************)
(* The destination server (src/applications/destination_server.c): counts  *)
(* the numbered datagrams of one run at a time and prints a summary, once  *)
(* all are there or when it is stopped.                                    *)
(*                                                                         *)
(* A datagram is a run id and a number; one too short for the header is    *)
(* Runt.                                                                   *)
(***************************************************************************)
EXTENDS Integers, Sequences, FiniteSets, Functions

CONSTANTS
  Runs,      \* run ids
  NoRun,     \* current_run_id before any run
  Numbers,   \* the sequence numbers that occur
  Runt,      \* a datagram of fewer than eight bytes
  Expected,  \* -n, 0 if not given
  SeenCap,   \* SEEN_CAP_DEFAULT, 2^20 in the code
  BlockLen   \* 8 in the code: the summary also counts blocks of that many

ASSUME NumbersAssumption ==
  /\ NoRun \notin Runs
  /\ Numbers \subseteq Nat /\ IsFiniteSet(Numbers)
  /\ Expected \in Nat /\ SeenCap \in Nat \ {0} /\ BlockLen \in Nat \ {0}

VARIABLES
  dsPc,            \* "start", "top" and "receive" of the loop, "exited"
  haveRun, current, matched, uniques, dups,
  seen,            \* the numbers set in the table
  minSeq, maxSeq,
  summaryEmitted,
  stopRequested,
  summaries,       \* what has been printed
  heard,           \* history: deliveries of each datagram while listening
  ignored          \* history: heard when the current run was taken up

dsVars == <<dsPc, haveRun, current, matched, uniques, dups, seen, minSeq,
            maxSeq, summaryEmitted, stopRequested, summaries, heard, ignored>>

Datagrams == [run : Runs, seq : Numbers]
NoSeq == -1           \* min_seq before any number: UINT32_MAX

\* The size of the table: one entry per expected datagram.
Capacity == IF Expected > 0 THEN Expected ELSE SeenCap

DsInit ==
  /\ dsPc = "start"
  /\ haveRun = FALSE /\ current = NoRun /\ matched = 0
  /\ uniques = 0 /\ dups = 0 /\ seen = {} /\ minSeq = NoSeq /\ maxSeq = 0
  /\ summaryEmitted = FALSE /\ stopRequested = FALSE /\ summaries = <<>>
  /\ heard = [d \in Datagrams |-> 0] /\ ignored = heard

\* A refused option or a failing call before the loop.
ServerFails ==
  /\ dsPc = "start"
  /\ dsPc' = "exited"
  /\ UNCHANGED <<haveRun, current, matched, uniques, dups, seen, minSeq,
                 maxSeq, summaryEmitted, stopRequested, summaries, heard,
                 ignored>>

Listen ==
  /\ dsPc = "start"
  /\ dsPc' = "top"
  /\ UNCHANGED <<haveRun, current, matched, uniques, dups, seen, minSeq,
                 maxSeq, summaryEmitted, stopRequested, summaries, heard,
                 ignored>>

\* The numbers below a limit that have not come, and the whole blocks that
\* have: print_missing_sample and print_block_stats.
Unseen(S, limit) == {q \in 0 .. limit - 1 : q \notin S}
FullBlocks(S) ==
  {b \in 0 .. (Expected \div BlockLen) - 1 :
     \A i \in 0 .. BlockLen - 1 : b * BlockLen + i \in S}

\* print_run_summary, from the counters as they are when it is called.
Summary(run, m, u, d, S, top) ==
  LET space == IF Expected > 0 THEN Expected ELSE top + 1
  IN  [run |-> run, matched |-> m, uniques |-> u, dups |-> d,
       missing |-> space - u,
       sample |-> IF space - u > 0 THEN Unseen(S, space) ELSE {},
       full |-> Cardinality(FullBlocks(S))]

\* Mutant: a run is only taken up with its number zero.
TakesUp_zeroOnly(d) == (~haveRun \/ d.run # current) /\ d.seq = 0

\* Whether datagram d makes the server take up its run: the first one with
\* a header does, then number zero of any other run (the auto-reset).
TakesUp(d) == ~haveRun \/ (d.run # current /\ d.seq = 0)

\* A new run starts from an empty table (run_reset).
Fresh == [matched |-> 0, uniques |-> 0, dups |-> 0, seen |-> {},
          min |-> NoSeq, max |-> 0, emitted |-> FALSE]
Kept == [matched |-> matched, uniques |-> uniques, dups |-> dups,
         seen |-> seen, min |-> minSeq, max |-> maxSeq,
         emitted |-> summaryEmitted]

\* note_seq: a number beyond the table is not entered.
Noted(c, q) ==
  IF q >= Capacity THEN c
  ELSE IF q \in c.seen THEN [c EXCEPT !.dups = @ + 1]
  ELSE [c EXCEPT !.seen = @ \cup {q}, !.uniques = @ + 1,
                 !.min = IF @ = NoSeq \/ q < @ THEN q ELSE @,
                 !.max = IF q > @ THEN q ELSE @]

\* A datagram of the run being measured is counted, and the last one that
\* was expected brings the summary, once.
Measured(c, d) ==
  LET n == Noted([c EXCEPT !.matched = @ + 1], d.seq)
      whole == Expected > 0 /\ n.uniques >= Expected /\ ~n.emitted
  IN  /\ matched' = n.matched /\ uniques' = n.uniques /\ dups' = n.dups
      /\ seen' = n.seen /\ minSeq' = n.min /\ maxSeq' = n.max
      /\ summaryEmitted' = (n.emitted \/ whole)
      /\ summaries' = IF whole
                      THEN Append(summaries, Summary(d.run, n.matched,
                                    n.uniques, n.dups, n.seen, n.max))
                      ELSE summaries

\* One datagram received and handled.
Receive(d) ==
  /\ dsPc = "receive"
  /\ dsPc' = "top"
  /\ IF d = Runt
     THEN UNCHANGED <<haveRun, current, matched, uniques, dups, seen, minSeq,
                      maxSeq, summaryEmitted, summaries, heard, ignored>>
     ELSE /\ heard' = [heard EXCEPT ![d] = @ + 1]
          /\ IF TakesUp(d)
             THEN /\ haveRun' = TRUE /\ current' = d.run /\ ignored' = heard
                  /\ Measured(Fresh, d)
             ELSE /\ UNCHANGED <<haveRun, current, ignored>>
                  /\ IF d.run = current
                     THEN Measured(Kept, d)
                     ELSE UNCHANGED <<matched, uniques, dups, seen, minSeq,
                                      maxSeq, summaryEmitted, summaries>>
  /\ UNCHANGED stopRequested

\* The receive timeout of 1.5 s, or a signal: back to the test of the loop.
NothingReceived ==
  /\ dsPc = "receive"
  /\ dsPc' = "top"
  /\ UNCHANGED <<haveRun, current, matched, uniques, dups, seen, minSeq,
                 maxSeq, summaryEmitted, stopRequested, summaries, heard,
                 ignored>>

\* while (!stop_requested)
LoopTest ==
  /\ dsPc = "top" /\ ~stopRequested
  /\ dsPc' = "receive"
  /\ UNCHANGED <<haveRun, current, matched, uniques, dups, seen, minSeq,
                 maxSeq, summaryEmitted, stopRequested, summaries, heard,
                 ignored>>

\* Mutant: a summary at the end whether or not there has been one.
Finish_always ==
  /\ dsPc' = "exited"
  /\ summaries' = IF haveRun
                  THEN Append(summaries, Summary(current, matched, uniques,
                                dups, seen, maxSeq))
                  ELSE summaries
  /\ UNCHANGED <<haveRun, current, matched, uniques, dups, seen, minSeq,
                 maxSeq, summaryEmitted, stopRequested, heard, ignored>>

\* After the loop: a summary of a run that has had none.
Finish ==
  /\ dsPc' = "exited"
  /\ summaries' = IF haveRun /\ ~summaryEmitted
                  THEN Append(summaries, Summary(current, matched, uniques,
                                dups, seen, maxSeq))
                  ELSE summaries
  /\ UNCHANGED <<haveRun, current, matched, uniques, dups, seen, minSeq,
                 maxSeq, summaryEmitted, stopRequested, heard, ignored>>

Stopped == dsPc = "top" /\ stopRequested /\ Finish

\* recvfrom fails with anything but a timeout or an interruption.
ReceiveFails == dsPc = "receive" /\ Finish

\* SIGINT or SIGTERM; the handler is installed before the socket exists.
StopSignal ==
  /\ dsPc \notin {"start", "exited"} /\ ~stopRequested
  /\ stopRequested' = TRUE
  /\ UNCHANGED <<dsPc, haveRun, current, matched, uniques, dups, seen,
                 minSeq, maxSeq, summaryEmitted, summaries, heard, ignored>>

\* Mutant: a receive that has no time-out.
OwnStep_blocking == ServerFails \/ Listen \/ LoopTest \/ Stopped

\* The steps the server takes by itself.
OwnStep == ServerFails \/ Listen \/ LoopTest \/ NothingReceived \/ Stopped

\* The server on a network that may deliver anything.
DsNext ==
  \/ OwnStep \/ ReceiveFails \/ StopSignal
  \/ \E d \in Datagrams \cup {Runt} : Receive(d)

DsSpec == DsInit /\ [][DsNext]_dsVars
-----------------------------------------------------------------------------
\* The deliveries of numbers in S of the current run since it was taken up.
Since(S) ==
  FoldFunctionOnSet(+, 0,
    [q \in Numbers |->
       heard[[run |-> current, seq |-> q]]
         - ignored[[run |-> current, seq |-> q]]], S)
Below == {q \in Numbers : q < Capacity}
Came(q) == heard[[run |-> current, seq |-> q]]
             > ignored[[run |-> current, seq |-> q]]

DsTypeOK ==
  /\ dsPc \in {"start", "top", "receive", "exited"}
  /\ haveRun \in BOOLEAN /\ current \in Runs \cup {NoRun}
  /\ haveRun = (current # NoRun)
  /\ matched \in Nat /\ uniques \in Nat /\ dups \in Nat
  /\ seen \subseteq Below /\ minSeq \in Below \cup {NoSeq}
  /\ maxSeq \in Below \cup {0}
  /\ summaryEmitted \in BOOLEAN /\ stopRequested \in BOOLEAN
  /\ heard \in [Datagrams -> Nat] /\ ignored \in [Datagrams -> Nat]

\* The table holds the numbers that came since the run was taken up.
TableExact ==
  haveRun =>
    /\ seen = {q \in Below : Came(q)}
    /\ uniques = Cardinality(seen)
    /\ seen # {} => /\ minSeq \in seen /\ maxSeq \in seen
                    /\ \A q \in seen : minSeq <= q /\ q <= maxSeq

\* Only numbers beyond the table are neither unique nor duplicate.
TotalsExact ==
  haveRun => matched = Since(Numbers) /\ dups = Since(Below) - uniques

\* A run loses what came before it was taken up only if another was being
\* measured then.
FirstRunWhole ==
  \A d \in Datagrams :
    haveRun /\ d.run = current /\ ignored[d] > 0
      => \E e \in Datagrams : e.run # current /\ ignored[e] > 0

\* The counters say what came (lines 50-60, 201-218): everything of the run
\* since it was taken up, each number once as unique and every further time
\* as duplicate; and the first run is taken up with its first datagram,
\* whichever that is, so that no reordering costs it any.
CountsExact == TableExact /\ TotalsExact /\ FirstRunWhole

\* A summary names exactly what is missing, asks for nothing only after all
\* that was expected has come, and counts no datagram in two blocks.
Truthful(s) ==
  /\ s.missing >= 0 /\ s.missing = Cardinality(s.sample)
  /\ s.full * BlockLen <= s.uniques
  /\ Expected > 0 =>
       \A q \in 0 .. Expected - 1 :
         q \notin s.sample => heard[[run |-> s.run, seq |-> q]] > 0

\* Every summary is truthful, and a run has one (lines 62-109, 223-238):
\* for a second one another run was taken up in between.
SummaryTruthful ==
  /\ \A i \in 1 .. Len(summaries) : Truthful(summaries[i])
  /\ \A i, j \in 1 .. Len(summaries) :
       i < j /\ summaries[i].run = summaries[j].run
         => \E e \in Datagrams :
              e.run # summaries[i].run /\ e.seq = 0 /\ heard[e] > 0

\* A server told to stop prints what it has and exits.
StopReports ==
  stopRequested ~>
    /\ dsPc = "exited"
    /\ haveRun => \E i \in 1 .. Len(summaries) : summaries[i].run = current
=============================================================================
