----------------------------- MODULE Experiment -----------------------------
(***************************************************************************)
(* One experiment after another (scripts/run_experiment.py): the runner,   *)
(* the programs it starts in the containers, and the packets they pass on. *)
(*                                                                         *)
(* Every attempt has the same run id, so it uses the same pid files and    *)
(* output files: a later attempt is one with --force.  What is abstracted: *)
(* a packet is counted, not followed; a block is one packet, so a block is *)
(* complete when its packet is forwarded; the resource collectors, whose   *)
(* figures nothing depends on, are left out.                               *)
(***************************************************************************)
EXTENDS Programs, PathMonitor

CONSTANTS
  Plans,        \* the experiments that are tried: the command line, and the
                \* bounds on what happens: attempts, faults (see the uses of
                \* MayFail), kills of the runner
  MaxAttempts   \* bound: attempts of any experiment

ASSUME ExperimentAssumption ==
  /\ MaxAttempts \in Nat \ {0} /\ Monitors = 1 .. MaxAttempts
  /\ \A p \in Plans : /\ p.backend \in {"rq", "rs"}
                      /\ p.attempts \in 1 .. MaxAttempts
                      /\ p.packets \in Nat \ {0} /\ p.kills \in Nat

VARIABLES
  plan,       \* the options of the experiment
  attempt,    \* the current or last attempt
  runner,     \* where the runner stands: [in, at], a place in a script
  status,     \* in the manifest
  prog,       \* the program started for each role by each attempt
  pidFile,    \* for each role the attempt whose process it names, 0 if none
  csv,        \* the summary of each program: [by, count], by 0 if no file
  generator,  \* "off", "on", "done" or "failed"; "timed" when it is done and
              \* its start and end are in the manifest
  sent, inWindow,
  queue,      \* packets in the NFQUEUE
  wire,       \* packets at the receiver's ports
  out,        \* packets at the destination's port
  kills

expVars == <<plan, attempt, runner, status, prog, pidFile, csv, generator,
             sent, inWindow, queue, wire, out, kills, pmVars>>

Attempts == 1 .. MaxAttempts
Roles == {"gateway", "receiver", "server"}
Idle == [in |-> "idle", at |-> 1]
NoProgram == [at |-> "none", stop |-> FALSE, count |-> 0, logged |-> FALSE,
              attached |-> FALSE, figures |-> NoFigures]
NoSummary == [by |-> 0, count |-> 0]
Target == plan.packets
Fixed == plan.campaign # "rate"
MayFail(f) == f \in plan.faults

ExpInit ==
  /\ plan \in Plans
  /\ attempt = 0 /\ runner = Idle /\ status = "none"
  /\ prog = [r \in Roles |-> [a \in Attempts |-> NoProgram]]
  /\ pidFile = [r \in {"gateway", "receiver", "monitor"} |-> 0]
  /\ csv = [r \in {"gateway", "receiver"} |-> NoSummary]
  /\ generator = "off" /\ sent = 0 /\ inWindow = TRUE
  /\ queue = 0 /\ wire = 0 /\ out = 0 /\ kills = 0
  /\ PmInit /\ (metricsFile = 0 => plan.monitored)

-----------------------------------------------------------------------------
(* The programs.                                                           *)
\* The options the runner gives them.
Given(p) == [block |-> p.block, repairs |-> p.repairs, policy |-> p.policy,
             wellFormed |-> TRUE, addressed |-> TRUE,
             output |-> p.mode = "full", named |-> p.mode = "full",
             found |-> TRUE]
Refused(r) == ~Takes(plan.backend, r, Given(plan))

\* Stages nobody else can see the end of are passed together with the one
\* before them.
Silent == {"engine", "codec", "sockets", "open", "mode", "blocks", "raw"}
StagesIn ==
  [p \in Plans |-> [r \in Roles |-> Life(p.backend, r, Given(p))]]
Stages(r) == StagesIn[plan][r]

PlaceOf(r, s) ==
  LET st == Stages(r) IN CHOOSE i \in DOMAIN st : st[i] = s
\* The stage after s, "gone" after the last.
After(r, s) ==
  LET st    == Stages(r)
      here  == PlaceOf(r, s)
      later == {i \in DOMAIN st : i > here /\ st[i] \notin Silent}
  IN  IF later = {} THEN "gone"
      ELSE st[CHOOSE i \in later : \A j \in later : i <= j]

At(r, a) == prog[r][a].at
Alive(r, a) == At(r, a) \notin {"none", "gone"}
InLoop(r, a) == At(r, a) \in {"test", "about", "wait"}
Ending(r, a) == At(r, a) \in {"statistics", "summary", "release"}
StartingUp(r, a) == Alive(r, a) /\ ~InLoop(r, a) /\ ~Ending(r, a)

\* The stage at which a program claims the queue or port only one can have,
\* and whether it has it.
ClaimOf(r) == CASE r = "gateway" -> "queue" [] r = "receiver" -> "ports"
                [] r = "server" -> "bind"
Holds(r, a) == Alive(r, a) /\ PlaceOf(r, At(r, a)) > PlaceOf(r, ClaimOf(r))

\* Mutant: several sockets may share the port (SO_REUSEADDR).
CanClaim_shared(r, a) == TRUE
CanClaim(r, a) == \A b \in Attempts \ {a} : ~Holds(r, b)

Set(r, a, p) == prog' = [prog EXCEPT ![r][a] = p]
GoTo(r, a, s) == Set(r, a, [prog[r][a] EXCEPT !.at = s])

\* The shell writes its pid, which becomes the program's, and executes it.
ShellStep(r, a) ==
  /\ At(r, a) = "shell"
  /\ GoTo(r, a, After(r, "shell"))
  /\ pidFile' = [pidFile EXCEPT ![r] = a]
  /\ UNCHANGED <<csv, queue, wire, out>>

StartUpStep(r, a) ==
  /\ StartingUp(r, a) /\ At(r, a) # "shell"
  /\ At(r, a) = "options" => ~Refused(r)
  /\ At(r, a) = ClaimOf(r) => CanClaim(r, a)
  /\ GoTo(r, a, After(r, At(r, a)))
  /\ UNCHANGED <<pidFile, csv, queue, wire, out>>

\* A stage fails: always when the options are refused or the claim is
\* taken, otherwise when the system refuses a call.  The gateways do not
\* look at what sigaction returns.
StartUpFails(r, a) ==
  /\ StartingUp(r, a) /\ At(r, a) # "shell"
  /\ \/ At(r, a) = "options" /\ Refused(r)
     \/ At(r, a) = ClaimOf(r) /\ ~CanClaim(r, a)
     \/ MayFail("startup") /\ ~(r = "gateway" /\ At(r, a) = "signals")
  /\ GoTo(r, a, "gone")
  /\ queue' = IF r = "gateway" /\ Holds(r, a) THEN 0 ELSE queue
  /\ UNCHANGED <<pidFile, csv, wire, out>>

\* The test of the stop flag, and the entry into the blocking call: a stop
\* signal between the two is not noticed before the next wake-up.
TestStop(r, a) ==
  /\ At(r, a) = "test"
  /\ GoTo(r, a, IF prog[r][a].stop THEN "statistics" ELSE "about")
  /\ UNCHANGED <<pidFile, csv, queue, wire, out>>
ServerStops(a) ==
  /\ At("server", a) = "wait" /\ prog["server"][a].stop
  /\ GoTo("server", a, "statistics")
  /\ UNCHANGED <<pidFile, csv, queue, wire, out>>
Block(r, a) ==
  /\ At(r, a) = "about"
  /\ GoTo(r, a, "wait")
  /\ UNCHANGED <<pidFile, csv, queue, wire, out>>

\* A packet is taken in the loop and handled, or lost on its way further.
Handled(r, a) == [prog[r][a] EXCEPT
  !.at = IF r = "server" THEN "wait" ELSE "test", !.count = @ + 1,
  !.figures = IF r = "gateway" /\ plan.backend = "rq" THEN Fetch(@) ELSE @]
Onward(n, m) == n' = n + m
Intercept(a, lost) ==
  /\ At("gateway", a) = "wait" /\ queue > 0
  /\ Set("gateway", a, Handled("gateway", a))
  /\ queue' = queue - 1 /\ Onward(wire, IF lost THEN 0 ELSE 1)
  /\ UNCHANGED <<pidFile, csv, out>>
Forward(a, lost) ==
  /\ At("receiver", a) = "wait" /\ wire > 0
  /\ Set("receiver", a, Handled("receiver", a))
  /\ wire' = wire - 1 /\ Onward(out, IF lost THEN 0 ELSE 1)
  /\ UNCHANGED <<pidFile, csv, queue>>
\* With -n the server prints its summary as soon as all have come.
Measured(a) ==
  /\ At("server", a) = "wait" /\ out > 0
  /\ Set("server", a,
         LET p == Handled("server", a)
         IN  [p EXCEPT !.logged = @ \/ (Fixed /\ p.count = Target
                                              /\ p.attached)])
  /\ out' = out - 1
  /\ UNCHANGED <<pidFile, csv, queue, wire>>

\* The blocking call fails (ENOBUFS and others): the loop is left.
ReceiveFails(r, a) ==
  /\ MayFail("receive")
  /\ At(r, a) = "wait" /\ GoTo(r, a, "statistics")
  /\ UNCHANGED <<pidFile, csv, queue, wire, out>>

\* Statistics reach the log as long as the docker exec that carries them is
\* there.  The server has a summary to print only if it met a run.
Statistics(r, a) ==
  /\ At(r, a) = "statistics"
  /\ Set(r, a, [prog[r][a] EXCEPT
       !.at = After(r, "statistics"),
       !.logged = @ \/ (prog[r][a].attached
                          /\ (r = "server" => prog[r][a].count > 0))])
  /\ UNCHANGED <<pidFile, csv, queue, wire, out>>

\* write_summary_csv; that it fails is only a warning, whether it leaves the
\* file that was there or one that was truncated.
WriteSummary(r, a, ok) ==
  /\ At(r, a) = "summary"
  /\ ok \/ MayFail("summary")
  /\ GoTo(r, a, "release")
  /\ IF plan.mode = "full"
     THEN \E left \in {csv[r], NoSummary} :
            csv' = [csv EXCEPT ![r] =
                      IF ok THEN [by |-> a, count |-> prog[r][a].count]
                            ELSE left]
     ELSE UNCHANGED csv
  /\ UNCHANGED <<pidFile, queue, wire, out>>

Release(r, a) ==
  /\ At(r, a) = "release" /\ GoTo(r, a, "gone")
  /\ queue' = IF r = "gateway" THEN 0 ELSE queue
  /\ wire' = IF r = "receiver" THEN 0 ELSE wire
  /\ out' = IF r = "server" THEN 0 ELSE out
  /\ UNCHANGED <<pidFile, csv>>

OwnSteps(r, a) ==
  \/ ShellStep(r, a) \/ StartUpStep(r, a) \/ TestStop(r, a) \/ Block(r, a)
  \/ StartUpFails(r, a) \/ Statistics(r, a) \/ Release(r, a)
  \/ r = "gateway" /\ \E lost \in BOOLEAN : Intercept(a, lost)
  \/ r = "receiver" /\ \E lost \in BOOLEAN : Forward(a, lost)
  \/ r = "server" /\ (Measured(a) \/ ServerStops(a))
  \/ \E ok \in BOOLEAN : WriteSummary(r, a, ok)

ProgramStep(r, a) ==
  /\ Alive(r, a)
  /\ OwnSteps(r, a) \/ ReceiveFails(r, a)
  /\ UNCHANGED <<plan, attempt, runner, status, generator, sent, inWindow,
                 kills, pmVars>>
-----------------------------------------------------------------------------
(* The traffic generator: it may send less than its target and says so by  *)
(* nothing but its count.                                                  *)
\* The packet waits in the queue if a gateway holds it, or is gone.
SendPacket ==
  /\ generator = "on" /\ sent < Target
  /\ sent' = sent + 1
  /\ Onward(queue, IF \E a \in Attempts : Holds("gateway", a) THEN 1 ELSE 0)
  /\ UNCHANGED <<generator, inWindow>>

GeneratorEnds ==
  /\ generator = "on"
  /\ \/ generator' = "done" /\ (sent < Target => MayFail("short"))
     \/ generator' = "failed" /\ sent = 0 /\ MayFail("generator")
  /\ inWindow' \in IF MayFail("window") THEN BOOLEAN ELSE {TRUE}
  /\ UNCHANGED <<sent, queue>>

GeneratorStep ==
  /\ SendPacket \/ GeneratorEnds
  /\ UNCHANGED <<plan, attempt, runner, status, prog, pidFile, csv, wire,
                 out, kills, pmVars>>

\* The monitor's process; its shell writes a pid file too.
MonitorStep(m) ==
  /\ \/ /\ monitorAt[m] = "shell"
        /\ monitorAt' = [monitorAt EXCEPT ![m] = "measure"]
        /\ pidFile' = [pidFile EXCEPT !["monitor"] = m]
        /\ UNCHANGED metricsFile
     \/ \E answered \in BOOLEAN :
          Measure(m, answered) /\ UNCHANGED pidFile
     \/ Publish(m) /\ UNCHANGED pidFile
  /\ UNCHANGED <<plan, attempt, runner, status, prog, csv, generator, sent,
                 inWindow, queue, wire, out, kills>>
-----------------------------------------------------------------------------
(* The runner.                                                             *)
Op(o, r) == [op |-> o, role |-> r]
MonitorOnly(m, o) == IF m THEN <<Op(o, "monitor")>> ELSE <<>>

\* The body of the try, and of the finally that always follows it, with a
\* monitor or without.  What can raise an exception is in the operations.
ScriptOf(m) ==
  <<Op("clean", ""), Op("rest", ""), Op("remove", ""),
    Op("start", "server"), Op("start", "receiver")>>
  \o MonitorOnly(m, "start") \o
  <<Op("start", "gateway"), Op("rest", ""),
    Op("await", "gateway"), Op("await", "receiver"), Op("traffic", ""),
    Op("rest", ""), Op("signal", "gateway"), Op("signal", "receiver")>>
  \o MonitorOnly(m, "signal") \o
  <<Op("collect", "gateway"), Op("collect", "receiver")>>
  \o MonitorOnly(m, "collect") \o
  <<Op("pkill", "server"), Op("collect", "server"), Op("judge", "")>>

\* Mutant: the finally only waits.
FinallyOf_noSignals(m) ==
  <<Op("pkill", "server"), Op("collect", "server"),
    Op("collect", "receiver")>>
  \o MonitorOnly(m, "collect") \o <<Op("collect", "gateway")>>
FinallyOf(m) ==
  <<Op("signal", "gateway"), Op("signal", "receiver")>>
  \o MonitorOnly(m, "signal") \o
  <<Op("pkill", "server"), Op("collect", "server"),
    Op("collect", "receiver")>>
  \o MonitorOnly(m, "collect") \o <<Op("collect", "gateway")>>

\* Both are written out once for each kind of plan.
ScriptMonitored == ScriptOf(TRUE)
ScriptPlain == ScriptOf(FALSE)
Script == IF plan.monitored THEN ScriptMonitored ELSE ScriptPlain
FinallyMonitored == FinallyOf(TRUE)
FinallyPlain == FinallyOf(FALSE)
Finally == IF plan.monitored THEN FinallyMonitored ELSE FinallyPlain

Doing(o, r) ==
  \/ runner.in = "try" /\ Script[runner.at] = Op(o, r)
  \/ runner.in = "finally" /\ Finally[runner.at] = Op(o, r)

\* On to the next operation, or out through the finally.
Advance ==
  runner' = CASE runner.in = "try" /\ runner.at < Len(Script) ->
                   [runner EXCEPT !.at = @ + 1]
              [] runner.in = "try" /\ runner.at = Len(Script) ->
                   [in |-> "finally", at |-> 1]
              [] runner.in = "finally" /\ runner.at < Len(Finally) ->
                   [runner EXCEPT !.at = @ + 1]
              [] OTHER -> Idle
\* An exception.
Fail == status' = "failed" /\ runner' = [in |-> "finally", at |-> 1]

\* What TERM does: end a program that has not installed its handler, wake
\* one in its blocking call, and otherwise only set the flag.
Signalled(r, p) ==
  IF p.at \in {"none", "gone"} THEN p
  ELSE IF p.at \in {"statistics", "summary", "release", "test", "about"}
          \/ (r = "server" /\ p.at = "bind")
       THEN [p EXCEPT !.stop = TRUE]
       ELSE IF p.at = "wait"
            THEN [p EXCEPT !.stop = TRUE, !.at = "statistics"]
            ELSE [p EXCEPT !.at = "gone"]
\* The kernel drops the queue of a gateway that is killed.
QueueAfter(p) ==
  IF \E a \in Attempts :
       Holds("gateway", a) /\ p["gateway"][a].at = "gone"
  THEN 0 ELSE queue

Kill(r, As) ==
  /\ prog' = [prog EXCEPT ![r] = [a \in Attempts |->
                IF a \in As THEN Signalled(r, @[a]) ELSE @[a]]]
  /\ queue' = QueueAfter(prog')
KillMonitors(Ms) ==
  monitorAt' = [m \in Monitors |->
    IF m \in Ms /\ monitorAt[m] # "none" THEN "gone" ELSE monitorAt[m]]

\* Runs a new attempt: the first, or one with --force in place of the last,
\* whose logs are removed and whose processes are forgotten here if they
\* are gone.  Packets do not stay on their way from one attempt to the next.
Invoke ==
  /\ runner = Idle /\ attempt < plan.attempts
  /\ attempt' = attempt + 1
  /\ runner' = [in |-> "try", at |-> 1] /\ status' = "running"
  /\ prog' = [r \in Roles |-> [a \in Attempts |->
                IF At(r, a) = "gone" THEN NoProgram
                ELSE [prog[r][a] EXCEPT !.logged = FALSE,
                                        !.attached = FALSE]]]
  /\ generator' = "off" /\ sent' = 0 /\ inWindow' = TRUE
  /\ queue' = 0 /\ wire' = 0 /\ out' = 0
  /\ UNCHANGED <<plan, pidFile, csv, kills, pmVars>>

\* clean_previous_processes: TERM to every process with one of the names.
Clean ==
  /\ Doing("clean", "")
  /\ prog' = [r \in Roles |-> [a \in Attempts |-> Signalled(r, prog[r][a])]]
  /\ queue' = QueueAfter(prog')
  /\ KillMonitors(Monitors)
  /\ Advance
  /\ UNCHANGED <<status, pidFile, csv, generator, sent, metricsFile>>

\* No step of the program is left but one it may wait for for ever.
Stalled(r, a) ==
  /\ InLoop(r, a)
  /\ prog[r][a].stop => /\ At(r, a) = "wait" /\ r # "server"
                        /\ r = "gateway" => queue = 0
                        /\ r = "receiver" => wire = 0

\* Nothing more happens to the program: it is gone or stalled, or the docker
\* exec that is to run it has not come that far.
AtRest(r, a) == ~Alive(r, a) \/ Stalled(r, a) \/ At(r, a) = "shell"

\* The runner sleeps: after the clean-up, after the start and after the
\* traffic.  That is taken to be long enough for the programs to come to
\* rest, though not for packets under way to arrive.
Rest ==
  /\ Doing("rest", "")
  /\ \A r \in Roles, a \in Attempts : AtRest(r, a)
  /\ Advance
  /\ UNCHANGED <<status, prog, pidFile, csv, generator, sent, queue, pmVars>>

\* Mutant: the output files of an earlier attempt are left.
RemoveFiles_pidOnly ==
  /\ Doing("remove", "")
  /\ pidFile' = [r \in DOMAIN pidFile |-> 0]
  /\ Advance
  /\ UNCHANGED <<status, prog, csv, generator, sent, queue, pmVars>>

\* rm -f of the pid files and output files, but not of the metrics file.
RemoveFiles ==
  /\ Doing("remove", "")
  /\ pidFile' = [r \in DOMAIN pidFile |-> 0]
  /\ csv' = [r \in DOMAIN csv |-> NoSummary]
  /\ Advance
  /\ UNCHANGED <<status, prog, generator, sent, queue, pmVars>>

StartProgram(r) ==
  /\ Doing("start", r)
  /\ Set(r, attempt, [NoProgram EXCEPT !.at = Stages(r)[1],
                                       !.attached = TRUE])
  /\ Advance
  /\ UNCHANGED <<status, pidFile, csv, generator, sent, queue, pmVars>>
StartMonitor ==
  /\ Doing("start", "monitor")
  /\ monitorAt' = [monitorAt EXCEPT ![attempt] = "shell"]
  /\ Advance
  /\ UNCHANGED <<status, prog, pidFile, csv, generator, sent, queue,
                 metricsFile>>

\* wait_container_pid looks for the file, not for the process; after ten
\* seconds without it the attempt fails.  Once its shell has run the program
\* is taken to come to rest before the traffic, several docker exec later.
AwaitPid(r) ==
  /\ Doing("await", r)
  /\ \/ pidFile[r] # 0 /\ AtRest(r, attempt) /\ Advance /\ UNCHANGED status
     \/ pidFile[r] = 0 /\ Fail
  /\ UNCHANGED <<prog, pidFile, csv, generator, sent, queue, pmVars>>

\* The generator is run to its end.  The attempt fails if its exit status is
\* not 0, and also if the file with its start and end cannot be read or has
\* them in the wrong order.
Traffic ==
  /\ Doing("traffic", "")
  /\ \/ generator = "off" /\ generator' = "on" /\ UNCHANGED <<runner, status>>
     \/ generator = "done" /\ generator' = "timed" /\ Advance
                           /\ UNCHANGED status
     \/ /\ generator = "failed" \/ (generator = "done" /\ MayFail("timing"))
        /\ Fail /\ UNCHANGED generator
  /\ UNCHANGED <<prog, pidFile, csv, sent, queue, pmVars>>

\* signal_container_pid: nothing without a pid file.
SignalProgram(r) ==
  /\ Doing("signal", r)
  /\ Kill(r, {pidFile[r]})
  /\ Advance
  /\ UNCHANGED <<status, pidFile, csv, generator, sent, pmVars>>
SignalMonitor ==
  /\ Doing("signal", "monitor")
  /\ KillMonitors({pidFile["monitor"]})
  /\ Advance
  /\ UNCHANGED <<status, prog, pidFile, csv, generator, sent, queue,
                 metricsFile>>
KillServers ==
  /\ Doing("pkill", "server")
  /\ Kill("server", Attempts)
  /\ Advance
  /\ UNCHANGED <<status, pidFile, csv, generator, sent, pmVars>>

\* Mutant: waits for the process without a timeout.
Collect_noTimeout(r) ==
  /\ Doing("collect", r)
  /\ ~Alive(r, attempt)
  /\ Advance
  /\ UNCHANGED <<status, prog, pidFile, csv, generator, sent, queue, pmVars>>

\* terminate_host_process: wait for the program to end; if it does not, end
\* the docker exec, and with it the log, but not the program.  The timeouts
\* too are taken to be long enough for the program to come to rest.
Collect(r) ==
  /\ Doing("collect", r)
  /\ \/ ~Alive(r, attempt) /\ UNCHANGED prog
     \/ /\ Alive(r, attempt) /\ AtRest(r, attempt)
        /\ Set(r, attempt, [prog[r][attempt] EXCEPT !.attached = FALSE])
  /\ Advance
  /\ UNCHANGED <<status, pidFile, csv, generator, sent, queue, pmVars>>
CollectMonitor ==
  /\ Doing("collect", "monitor")
  /\ Advance
  /\ UNCHANGED <<status, prog, pidFile, csv, generator, sent, queue, pmVars>>

\* The figures the run is judged by: the summaries in full mode, the logs
\* otherwise; what was generated always from the generator's log.
Intercepted == IF plan.mode = "full" THEN csv["gateway"].count
               ELSE prog["gateway"][attempt].count
Delivered == IF plan.mode = "full" THEN csv["receiver"].count
             ELSE prog["server"][attempt].count
Completed == IF plan.mode = "full" THEN csv["receiver"].count
             ELSE prog["receiver"][attempt].count

\* What must be there to be judged: every program's line in its log, and in
\* full mode every file.
Reported ==
  /\ \A r \in Roles : prog[r][attempt].logged
  /\ plan.mode = "full" => \A r \in DOMAIN csv : csv[r].by # 0

Accepted ==
  IF Fixed
  THEN sent = Target /\ Intercepted = Target /\ Delivered = Target
       /\ Completed = sent
  ELSE inWindow /\ sent <= Target /\ Intercepted <= sent
       /\ Delivered <= sent /\ Completed <= sent

Judge ==
  /\ Doing("judge", "")
  /\ IF Reported /\ Accepted THEN status' = "valid" /\ Advance ELSE Fail
  /\ UNCHANGED <<prog, pidFile, csv, generator, sent, queue, pmVars>>

\* Something else the runner needs is missing: before the rm -f the delays or
\* the copies of the resource collector, before a start the profile of the
\* program's arguments, before the verdict the collectors' files.
RunnerFails ==
  /\ MayFail("host")
  /\ runner.in = "try"
  /\ Script[runner.at].op \in {"remove", "start", "judge"}
  /\ Fail
  /\ UNCHANGED <<prog, pidFile, csv, generator, sent, queue, pmVars>>

RunnerStep ==
  /\ \/ Clean \/ Rest \/ RemoveFiles \/ StartMonitor \/ Traffic
     \/ RunnerFails \/ SignalMonitor \/ KillServers \/ CollectMonitor \/ Judge
     \/ \E r \in Roles : StartProgram(r) \/ Collect(r)
     \/ \E r \in {"gateway", "receiver"} : AwaitPid(r) \/ SignalProgram(r)
  /\ UNCHANGED <<plan, attempt, inWindow, wire, out, kills>>

\* The runner is killed, or its host goes down: no finally.  Not while the
\* generator is running, which would be left sending.  Bound: only when
\* another attempt follows, and in the body of the try: later it would leave
\* no more behind.
RunnerKilled ==
  /\ kills < plan.kills /\ attempt < plan.attempts
  /\ runner.in = "try" /\ generator # "on"
  /\ kills' = kills + 1 /\ runner' = Idle
  /\ UNCHANGED <<plan, attempt, status, prog, pidFile, csv, generator, sent,
                 inWindow, queue, wire, out, pmVars>>

ExpNext ==
  \/ Invoke \/ RunnerStep \/ RunnerKilled \/ GeneratorStep
  \/ \E r \in Roles, a \in Attempts : ProgramStep(r, a)
  \/ \E m \in Monitors : MonitorStep(m)

ExpSpec == ExpInit /\ [][ExpNext]_expVars

\* The steps nobody has to ask for: those of the runner, the generator and
\* the programs that do not wait for a packet.
Working ==
  RunnerStep \/ GeneratorStep
             \/ \E r \in Roles, a \in Attempts : ProgramStep(r, a)

\* Something that can run does.  No packet need ever come, nobody need start
\* an attempt, and what the monitor does counts for nothing.
FairExpSpec == ExpSpec /\ WF_expVars(Working)
-----------------------------------------------------------------------------
\* Each value has its type; of the programs of one role only one has the
\* queue or port; no program has counted more than was sent.
ExpTypeOK ==
  /\ plan \in Plans /\ attempt \in 0 .. MaxAttempts
  /\ status \in {"none", "running", "valid", "failed"}
  /\ runner = Idle \/ runner.in \in {"try", "finally"}
  /\ generator \in {"off", "on", "done", "timed", "failed"}
  /\ sent \in 0 .. Target
  /\ metricsFile \in NoFile .. MaxAttempts
  /\ \A r \in Roles :
       \A a, b \in Attempts : Holds(r, a) /\ Holds(r, b) => a = b
  /\ queue + wire + out \in 0 .. sent

\* The one way an earlier attempt's file can be taken for this one's: its
\* program missed the stop signal between its test of the flag and the
\* blocking call, fails that call only after the rm -f and then writes its
\* summary, and this attempt's program fails to write its own.
Mistakable == /\ plan.mode = "full" /\ attempt > 1
              /\ MayFail("receive") /\ MayFail("summary")

\* A run marked valid was judged by what its own programs counted and
\* reported, not by what an earlier attempt left behind, and every one of
\* them had left its loop (or, for the server, had all packets).  In a
\* fixed campaign nothing was lost up to the place where delivery is
\* counted: the receiver in full mode, the destination otherwise.
\* (functional_validation_from_logs, the rm -f and the final criteria)
ValidIsHonest ==
  status = "valid" =>
    /\ \A r \in {"gateway", "receiver"} :
         /\ ~Alive(r, attempt) \/ Ending(r, attempt)
         /\ plan.mode = "full" /\ ~Mistakable =>
              csv[r] = [by |-> attempt, count |-> prog[r][attempt].count]
    /\ prog["gateway"][attempt].count <= sent
    /\ prog["receiver"][attempt].count <= prog["gateway"][attempt].count
    /\ prog["server"][attempt].count <= prog["receiver"][attempt].count
    /\ Fixed /\ ~Mistakable =>
         /\ prog["receiver"][attempt].count = Target
         /\ plan.mode = "functional" =>
              prog["server"][attempt].count = Target

\* When the runner is done with an attempt whose traffic was sent and timed,
\* whatever verdict it came to, no program of it is left with the queue or a
\* port, even if the first TERM fell between the test of the stop flag and
\* the blocking call: the finally sends another.  (An attempt that fails
\* before goes to the finally at once and sends only one.)
NothingLeftRunning ==
  runner = Idle /\ generator = "timed" /\ kills = 0 =>
    \A r \in Roles : ~Holds(r, attempt)

\* The gateway never exchanges figures of a path monitor for those of a
\* file that is being written or was left empty by a monitor killed while
\* writing: it only ever goes over to a complete set.
MetricsNotTorn ==
  [][\A a \in Attempts :
       LET old == prog["gateway"][a].figures
           new == prog'["gateway"][a].figures
       IN  new # old /\ prog'["gateway"][a].at # "none" =>
             new \in 0 .. MaxAttempts]_expVars

\* Whatever program does not start, stop or answer, the runner comes to the
\* end of every attempt.
RunnerFinishes == runner # Idle ~> runner = Idle
=============================================================================
