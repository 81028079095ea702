------------------------------- MODULE Trials -------------------------------
(***************************************************************************)
(* run_matrix.sh, run_scenario.sh and run_correctness.sh on one machine:    *)
(* two API containers, one database, its statement counters, the results    *)
(* directory and one lock file.                                             *)
(*                                                                          *)
(* A matrix starts its trials one after another as child processes.  The    *)
(* lock belongs to the open file, which children inherit: it is free only   *)
(* when the script, its trial, the trial's current command and its sampler  *)
(* have all ended, whoever of them was killed.  run_correctness takes no    *)
(* lock, and any number of its runs may overlap trials and each other.  A   *)
(* trial of the worker differs in starting no API.                          *)
(*                                                                          *)
(* A script that is killed leaves the command it was waiting for            *)
(* ("orphan"), which may still take effect.  A terminated trial runs its    *)
(* trap between two commands and goes on, as bash does when the trap does   *)
(* not exit; a terminated run_correctness, which traps EXIT alone, runs its *)
(* trap at once, dies, and leaves the command too.                          *)
(***************************************************************************)
EXTENDS Correctness, Sequences

CONSTANTS
  None,
  Matrices, Solo,        \* runs of run_matrix, and of run_scenario by hand
  RunIdOf,               \* their run-id argument
  Leftover,              \* result directories earlier matrices may have left
  Overwrites,            \* values of BENCH_OVERWRITE: TRUE is 1
  Drivers,               \* runs of run_correctness
  Cases,                 \* its cases in order: 13 in the code
  WARMUP_RUNS, MIN_MEASURED_RUNS, MAX_MEASURED_RUNS,   \* 2, 5 and 10
  LoadCalls,             \* statements of a load
  MaxSignals             \* kills and terminations of the three scripts

VARIABLES
  matrix,      \* [at, done]: done trials have passed
  trial,       \* of each matrix or solo: [at, runtime, phase, ordinal, orphan, ok] and
               \* beside, whether a run_correctness or its orphan ran beside it (history)
  sampler,     \* trials whose sampler loops
  driver,      \* of each run: [at, runtime, case, orphan] and, history, whether a trial or
               \* another run, or what is left of one, ran beside it (beside) and, if none
               \* did, its cases were sound so far (sound)
  apis,        \* running API containers
  dataset,     \* who wrote the rows last
  faults,      \* rows the gate's queries find
  stats,       \* pg_stat_statements: calls of application and of other queries
  pre, counted, issued,   \* of each trial: pre snapshot, derived and real calls
  dirs, summaries,        \* result directories, those with a k6-summary.json
  summary,     \* matrix-summary.json of each matrix
  reports,     \* correctness.json of each runtime
  overwrite,   \* BENCH_OVERWRITE=1
  broken,      \* trials that lost their API during the load
  signals      \* signals sent so far

machine == << apis, dataset, faults, stats, issued, broken >>
outcome == << dirs, summaries, summary, reports >>
vars == << matrix, trial, sampler, driver, machine, pre, counted, outcome, overwrite,
           signals >>

Trials_ == Matrices \cup Solo
Runtimes == {"python", "go"}
Other(runtime) == IF runtime = "python" THEN "go" ELSE "python"
Ended == {"idle", "passed", "failed", "gone"}
Live(t) == trial[t].at \notin Ended
DriverRuns(d) == driver[d].at \notin Ended
AnyDriver == \E d \in Drivers : DriverRuns(d)

ASSUME TrialsAssumption ==
  /\ Matrices \cap Solo = {} /\ Drivers \cap Trials_ = {} /\ None \notin Trials_ \cup Drivers
  /\ {WARMUP_RUNS, MIN_MEASURED_RUNS, MAX_MEASURED_RUNS, LoadCalls} \subseteq Nat \ {0}
  /\ MaxSignals \in Nat /\ Overwrites \subseteq BOOLEAN
  /\ MIN_MEASURED_RUNS <= MAX_MEASURED_RUNS
  /\ Cases \in Seq(DOMAIN Outcomes) /\ Cases # << >>

\* Of the run-ids that are used again: a matrix makes the directory of its
\* first warm-up before any other, and no script removes one for good.  The
\* directory of a later round, made by hand, would be judged with the matrix.
ASSUME LeftoverAssumption ==
  /\ IsFiniteSet(Leftover)
  /\ \A d \in Leftover : d[3] = "measured" => << d[1], "python", "warmup", 1 >> \in Leftover
-----------------------------------------------------------------------------
(* The order of a matrix.                                                   *)

\* BLOCK_ORDERS and EXTRA_ORDER: A B, B A, and so on.
Order(round) == IF round % 2 = 0 THEN << "go", "python" >> ELSE << "python", "go" >>

Warmups == 2 * WARMUP_RUNS

\* The trial of a matrix after n others.
Scheduled(n) ==
  IF n < Warmups
  THEN [runtime |-> IF n < WARMUP_RUNS THEN "python" ELSE "go", phase |-> "warmup",
        ordinal |-> (n % WARMUP_RUNS) + 1]
  ELSE LET round == ((n - Warmups) \div 2) + 1
       IN  [runtime |-> Order(round)[((n - Warmups) % 2) + 1], phase |-> "measured",
            ordinal |-> round]

Rounds(n) == IF n < Warmups THEN 0 ELSE (n - Warmups) \div 2

\* Between the rounds, when the coefficient of variation is looked at.
AtVarianceCheck(n) ==
  n >= Warmups /\ (n - Warmups) % 2 = 0 /\ Rounds(n) >= MIN_MEASURED_RUNS

DirOf(t) == << RunIdOf[t], trial[t].runtime, trial[t].phase, trial[t].ordinal >>

\* What cv_json globs.
MeasuredFiles(id, runtime) == {d \in summaries : d[1] = id /\ d[2] = runtime /\ d[3] = "measured"}
-----------------------------------------------------------------------------
(* The lock and the machine.                                                *)

\* Mutation: children do not inherit the lock.
HoldsAlone(t) == IF t \in Matrices THEN matrix[t].at \in {"ready", "trial"}
                 ELSE Live(t) /\ ~trial[t].orphan

\* The lock file is open in a process of this run.
Holds(t) ==
  \/ t \in Matrices /\ matrix[t].at \in {"ready", "trial"}
  \/ Live(t)
  \/ t \in sampler

Free == \A t \in Trials_ : ~Holds(t)

\* Containers start or stop; a load whose API stops is broken.
SetApis(running) ==
  /\ apis' = running
  /\ broken' = broken \cup {t \in Trials_ : trial[t].at = "load" /\ trial[t].runtime \notin running}

\* docker compose stop under "|| true": it may fail to stop some of them.
StopApis(services) ==
  \E left \in SUBSET (apis \cap services) : SetApis((apis \ services) \cup left)

\* n statements more, counted for every trial between its snapshots.
Issue(kind, n) ==
  /\ stats' = [stats EXCEPT ![kind] = @ + n]
  /\ issued' = [t \in Trials_ |-> IF trial[t].at \in {"load", "post"} THEN issued[t] + n
                                  ELSE issued[t]]

\* pg_stat_statements_reset(), then n calls of the application.
ResetAndIssue(n) ==
  /\ stats' = [app |-> n, other |-> 0]
  /\ issued' = [t \in Trials_ |-> IF trial[t].at \in {"load", "post"} THEN issued[t] + n
                                  ELSE issued[t]]

\* reset_dataset.sh: every table is truncated and seeded.
Reseed(who) ==
  /\ dataset' = who
  /\ faults' = {}
  /\ Issue("other", 1)

NoStats == [app |-> 0, other |-> 0]

Min2(a, b) == IF a < b THEN a ELSE b

\* derive_run: what each query's counter rose by, and 0 if it fell.
Derived(before, after) ==
  (after.app - Min2(before.app, after.app)) + (after.other - Min2(before.other, after.other))
-----------------------------------------------------------------------------
(* run_scenario.sh.                                                         *)

Steps == {"dir", "stop", "reset", "fixture", "other", "up", "pre", "load", "post", "finish"}
Trapped == Steps \ {"dir"}      \* the trap is set

IdleTrial ==
  [at |-> "idle", runtime |-> "python", phase |-> "warmup", ordinal |-> 1, orphan |-> FALSE,
   ok |-> TRUE, beside |-> FALSE]

\* A trial ends; whoever started one by hand takes note of how.
Over(t, how) == IF t \in Solo THEN IdleTrial ELSE [IdleTrial EXCEPT !.at = how]

Forget(t) ==
  /\ counted' = [counted EXCEPT ![t] = 0]
  /\ issued' = [issued EXCEPT ![t] = 0]
  /\ pre' = [pre EXCEPT ![t] = NoStats]

\* The trial's next command; what an orphan waited for is its last.
Step(t, from, to) ==
  /\ trial[t].at = from
  /\ trial' = [trial EXCEPT ![t] = IF trial[t].orphan THEN Over(t, "gone")
                                   ELSE IF to \in Ended THEN Over(t, to) ELSE [@ EXCEPT !.at = to]]
  /\ UNCHANGED << matrix, driver, overwrite, signals >>

\* The runs of run_correctness that go on are no longer alone.
Disturbed ==
  [d \in Drivers |-> IF DriverRuns(d) THEN [driver[d] EXCEPT !.beside = TRUE, !.sound = TRUE]
                     ELSE driver[d]]

Begin(t, what) ==
  /\ trial' = [trial EXCEPT ![t] =
                 [at |-> "dir", runtime |-> what.runtime, phase |-> what.phase,
                  ordinal |-> what.ordinal, orphan |-> FALSE, ok |-> TRUE, beside |-> AnyDriver]]
  /\ driver' = Disturbed

\* When the lock is taken: exit 10, before the trap, and nothing has changed.
\* Bound of the instance: each trial by hand makes its directory once.
StartSolo(t) ==
  /\ trial[t].at = "idle"
  /\ Free
  /\ \A d \in dirs : d[1] # RunIdOf[t]
  /\ Begin(t, [runtime |-> "python", phase |-> "measured", ordinal |-> 1])
  /\ UNCHANGED << matrix, sampler, machine, pre, counted, outcome, overwrite, signals >>

\* Mutation: a directory that is overwritten is removed and not made again.
RemoveDir(t) ==
  /\ IF DirOf(t) \in dirs
     THEN Step(t, "dir", IF overwrite THEN "stop" ELSE "failed")
     ELSE Step(t, "dir", "stop")
  /\ dirs' = IF overwrite /\ DirOf(t) \in dirs THEN dirs \ {DirOf(t)} ELSE dirs \cup {DirOf(t)}
  /\ summaries' = summaries \cap dirs'
  /\ UNCHANGED << sampler, machine, pre, counted, summary, reports >>

\* An existing directory ends the trial before the trap is set.
MakeDir(t) ==
  /\ IF DirOf(t) \in dirs /\ ~overwrite
     THEN Step(t, "dir", "failed") /\ UNCHANGED << dirs, summaries >>
     ELSE /\ Step(t, "dir", "stop")
          /\ dirs' = dirs \cup {DirOf(t)}
          /\ summaries' = summaries \ {DirOf(t)}
  /\ UNCHANGED << sampler, machine, pre, counted, summary, reports >>

StopAll(t) ==
  /\ Step(t, "stop", "reset")
  /\ SetApis({})
  /\ UNCHANGED << sampler, dataset, faults, stats, issued, pre, counted, outcome >>

ResetDataset(t) ==
  /\ Step(t, "reset", "fixture")
  /\ Reseed(t)
  /\ UNCHANGED << sampler, apis, broken, pre, counted, outcome >>

\* prepare_scenario_fixture, and the reset of the counters.
PrepareFixture(t) ==
  /\ Step(t, "fixture", "other")
  /\ dataset' = IF dataset = t THEN t ELSE None
  /\ ResetAndIssue(0)
  /\ UNCHANGED << sampler, apis, faults, broken, pre, counted, outcome >>

\* start_stack.sh stops the other API and looks before and after its own start.
StopOther(t) ==
  /\ Step(t, "other", "up")
  /\ SetApis(apis \ {Other(trial[t].runtime)})
  /\ UNCHANGED << sampler, dataset, faults, stats, issued, pre, counted, outcome >>

StartApi(t) ==
  /\ Other(trial[t].runtime) \notin apis
  /\ Step(t, "up", "pre")
  /\ SetApis(apis \cup {trial[t].runtime})
  /\ UNCHANGED << sampler, dataset, faults, stats, issued, pre, counted, outcome >>

\* collect.sh pre, then the sampler, then k6.
StartLoad(t) ==
  /\ Step(t, "pre", "load")
  /\ pre' = [pre EXCEPT ![t] = stats]
  /\ issued' = [issued EXCEPT ![t] = 0]
  /\ sampler' = IF trial[t].orphan THEN sampler ELSE sampler \cup {t}
  /\ broken' = IF trial[t].runtime \in apis THEN broken \ {t} ELSE broken \cup {t}
  /\ UNCHANGED << apis, dataset, faults, stats, counted, outcome >>

\* k6 fails if its thresholds do, and writes its summary either way.
EndLoad(t) ==
  /\ trial[t].at = "load"
  /\ \E ok \in IF t \in broken THEN {FALSE} ELSE BOOLEAN :
       trial' = [trial EXCEPT ![t] = IF trial[t].orphan THEN Over(t, "gone")
                                     ELSE [@ EXCEPT !.at = "post", !.ok = ok]]
  /\ Issue("app", IF t \in broken THEN 0 ELSE LoadCalls)
  /\ summaries' = summaries \cup {DirOf(t)}
  /\ sampler' = IF trial[t].orphan THEN sampler ELSE sampler \ {t}
  /\ UNCHANGED << matrix, driver, apis, dataset, faults, broken, pre, counted, dirs, summary,
                  reports, overwrite, signals >>

\* The trial's exit code is settled when the invariants are queried.  They are
\* queried under ||, which turns set -e off: a query that fails finds nothing.
Checked(t) ==
  /\ trial[t].at = "post"
  /\ \E found \in {faults, {}} :
       trial' = [trial EXCEPT ![t] = IF trial[t].orphan THEN Over(t, "gone")
                                     ELSE [@ EXCEPT !.at = "finish",
                                                   !.ok = trial[t].ok /\ found = {}]]
  /\ stats' = [stats EXCEPT !.other = @ + 1]
  /\ UNCHANGED << matrix, sampler, driver, apis, dataset, faults, issued, broken, pre, outcome,
                  overwrite, signals >>

\* Mutation: the invariants are captured before the counters.
PostAfterInvariants(t) ==
  Checked(t) /\ counted' = [counted EXCEPT ![t] = Derived(pre[t], stats')]

\* collect.sh post, then the queries of invariants.sql.
Post(t) ==
  Checked(t) /\ counted' = [counted EXCEPT ![t] = Derived(pre[t], stats)]

\* stop_stack.sh, trial.json, and the trap.
Finish(t) ==
  /\ Step(t, "finish", IF trial[t].ok THEN "passed" ELSE "failed")
  /\ SetApis({})
  /\ Forget(t)
  /\ UNCHANGED << sampler, dataset, faults, stats, outcome >>

\* A command fails: set -e, and the trap.
Fail(t) ==
  /\ trial[t].at \in Trapped \ {"load"} /\ ~trial[t].orphan
  /\ trial' = [trial EXCEPT ![t] = Over(t, "failed")]
  /\ sampler' = sampler \ {t}
  /\ StopApis(Runtimes)
  /\ Forget(t)
  /\ UNCHANGED << matrix, driver, dataset, faults, stats, outcome, overwrite, signals >>

\* SIGTERM: the trap runs when the current command has ended.
Terminate(t) ==
  /\ trial[t].at \in Trapped \ {"load"} /\ ~trial[t].orphan
  /\ signals < MaxSignals
  /\ signals' = signals + 1
  /\ sampler' = sampler \ {t}
  /\ StopApis(Runtimes)
  /\ UNCHANGED << matrix, trial, driver, dataset, faults, stats, issued, pre, counted, outcome,
                  overwrite >>

\* SIGKILL.
KillTrial(t) ==
  /\ Live(t) /\ ~trial[t].orphan
  /\ signals < MaxSignals
  /\ signals' = signals + 1
  /\ trial' = [trial EXCEPT ![t].orphan = TRUE]
  /\ UNCHANGED << matrix, sampler, driver, machine, pre, counted, outcome, overwrite >>

\* What the orphan waited for had taken effect already.
OrphanEnds(t) ==
  /\ Live(t) /\ trial[t].orphan
  /\ trial' = [trial EXCEPT ![t] = Over(t, "gone")]
  /\ UNCHANGED << matrix, sampler, driver, machine, pre, counted, outcome, overwrite,
                  signals >>
-----------------------------------------------------------------------------
(* run_matrix.sh.                                                           *)

LockMatrix(m) ==
  /\ matrix[m].at = "idle"
  /\ Free
  /\ matrix' = [matrix EXCEPT ![m].at = "ready"]
  /\ UNCHANGED << trial, sampler, driver, machine, pre, counted, outcome, overwrite,
                  signals >>

RunTrial(m) ==
  /\ matrix[m].at = "ready"
  /\ matrix' = [matrix EXCEPT ![m].at = "trial"]
  /\ Begin(m, Scheduled(matrix[m].done))
  /\ UNCHANGED << sampler, machine, pre, counted, outcome, overwrite, signals >>

\* Mutation: a matrix goes on after a trial that failed.
TrialPassedAnyway(m) == trial[m].at \in {"passed", "failed"}

TrialPassed(m) == trial[m].at = "passed"

\* set -e: the matrix ends with a trial that failed or was killed.
MatrixFails(m) ==
  /\ matrix[m].at = "trial"
  /\ ~TrialPassed(m)
  /\ ~Live(m) \/ trial[m].orphan
  /\ matrix' = [matrix EXCEPT ![m] = [at |-> "failed", done |-> 0]]
  /\ UNCHANGED << trial, sampler, driver, machine, pre, counted, outcome, overwrite,
                  signals >>

\* The next trial, or the end: after the last round, or when neither
\* runtime's files vary too much.
TrialDone(m) ==
  /\ matrix[m].at = "trial"
  /\ TrialPassed(m)
  /\ trial' = [trial EXCEPT ![m] = IdleTrial]
  /\ LET n == matrix[m].done + 1
     IN  IF ~AtVarianceCheck(n)
         THEN matrix' = [matrix EXCEPT ![m] = [at |-> "ready", done |-> n]] /\ UNCHANGED summary
         ELSE \E exceeds \in BOOLEAN :
                IF exceeds /\ Rounds(n) < MAX_MEASURED_RUNS
                THEN /\ matrix' = [matrix EXCEPT ![m] = [at |-> "ready", done |-> n]]
                     /\ UNCHANGED summary
                ELSE /\ matrix' = [matrix EXCEPT ![m] = [at |-> "passed", done |-> n]]
                     /\ summary' = [summary EXCEPT ![m] =
                          [status |-> IF exceeds THEN "UNSTABLE" ELSE "STABLE",
                           measured |-> Rounds(n),
                           count |-> [r \in Runtimes |->
                                        Cardinality(MeasuredFiles(RunIdOf[m], r))]]]
  /\ UNCHANGED << sampler, driver, machine, pre, counted, dirs, summaries, reports, overwrite, signals >>

KillMatrix(m) ==
  /\ matrix[m].at \in {"ready", "trial"}
  /\ signals < MaxSignals
  /\ signals' = signals + 1
  /\ matrix' = [matrix EXCEPT ![m] = [at |-> "gone", done |-> 0]]
  /\ UNCHANGED << trial, sampler, driver, machine, pre, counted, outcome, overwrite >>
-----------------------------------------------------------------------------
(* run_correctness.sh.                                                      *)

DriverSteps ==
  {"reset", "stop", "up", "counters", "case", "gate", "verify", "passing", "failing"}

\* The trap is set after the APIs were stopped, and runs in the last two.
DriverTrapped == DriverSteps \ {"reset", "stop"}

IdleDriver ==
  [at |-> "idle", runtime |-> "python", case |-> 1, orphan |-> FALSE, sound |-> TRUE,
   beside |-> FALSE]

\* The next command; what an orphan waited for is its last.
Advance(d, at) ==
  driver' = [driver EXCEPT ![d] = IF @.orphan THEN [IdleDriver EXCEPT !.at = "gone"]
                                  ELSE [@ EXCEPT !.at = at]]

\* A failure leads to the trap, if it is set.  Neither has an orphan.
GivesUp(d) ==
  driver' = [driver EXCEPT ![d] =
    IF @.orphan THEN [IdleDriver EXCEPT !.at = "gone"]
    ELSE IF @.at \notin DriverTrapped THEN [IdleDriver EXCEPT !.at = "failed"]
    ELSE [IdleDriver EXCEPT !.at = "failing", !.runtime = driver[d].runtime,
                            !.beside = driver[d].beside]]

DriverUnchanged ==
  UNCHANGED << matrix, trial, sampler, pre, counted, dirs, summaries, summary, overwrite, signals >>

StartDriver(d) ==
  /\ driver[d].at = "idle"
  /\ \E runtime \in Runtimes :
       driver' = [Disturbed EXCEPT ![d] =
                    [IdleDriver EXCEPT !.at = "reset", !.runtime = runtime,
                       !.beside = AnyDriver \/ \E t \in Trials_ : Live(t)]]
  /\ trial' = [t \in Trials_ |-> [trial[t] EXCEPT !.beside = @ \/ Live(t)]]
  /\ UNCHANGED << matrix, sampler, machine, pre, counted, outcome, overwrite, signals >>

\* Mutation: a reset that fails is ignored.
DriverResetsOrNot(d) ==
  /\ driver[d].at = "reset"
  /\ Advance(d, "stop")
  /\ Reseed(d) \/ UNCHANGED << dataset, faults, stats, issued >>
  /\ DriverUnchanged /\ UNCHANGED << apis, broken, reports >>

DriverResets(d) ==
  /\ driver[d].at = "reset"
  /\ Advance(d, "stop")
  /\ Reseed(d)
  /\ DriverUnchanged /\ UNCHANGED << apis, broken, reports >>

\* Unlike stop_stack.sh it does not look whether they have stopped.
DriverStops(d) ==
  /\ driver[d].at = "stop"
  /\ Advance(d, "up")
  /\ StopApis(Runtimes)
  /\ DriverUnchanged /\ UNCHANGED << dataset, faults, stats, issued, reports >>

\* Up and healthy.
DriverStarts(d) ==
  /\ driver[d].at = "up"
  /\ Advance(d, "counters")
  /\ SetApis(apis \cup {driver[d].runtime})
  /\ DriverUnchanged /\ UNCHANGED << dataset, faults, stats, issued, reports >>

DriverClears(d) ==
  /\ driver[d].at = "counters"
  /\ Advance(d, "case")
  /\ ResetAndIssue(0)
  /\ DriverUnchanged /\ UNCHANGED << apis, dataset, faults, broken, reports >>

\* The preparation, then capture: reset, the requests, the assertions.  The
\* case of the worker sends none.  The Python program of a dead shell goes on
\* to the next case.
RunCase(d) ==
  /\ driver[d].at = "case"
  /\ driver[d].runtime \in apis \/ Cases[driver[d].case] = "plain"
  /\ \E o \in TellingsOf[Cases[driver[d].case]] :
       /\ o[1]
       /\ faults' = faults \cup o[2]
       /\ driver' = [driver EXCEPT ![d] = [@ EXCEPT
            !.sound = driver[d].beside \/ (driver[d].sound /\ o[3]),
            !.at = IF driver[d].case = Len(Cases) THEN "gate" ELSE "case",
            !.case = IF driver[d].case = Len(Cases) THEN 1 ELSE driver[d].case + 1]]
  /\ dataset' = d
  /\ ResetAndIssue(1)
  /\ DriverUnchanged /\ UNCHANGED << apis, broken, reports >>

\* An assertion or a command fails; what was written stays.  An orphan that
\* has taken effect before its shell died ends here too.
DriverFails(d) ==
  /\ driver[d].at \in DriverSteps \ {"passing", "failing"}
  /\ driver[d].at = "stop" => driver[d].orphan
  /\ GivesUp(d)
  /\ IF driver[d].at = "case"
     THEN /\ \E o \in TellingsOf[Cases[driver[d].case]] : faults' = faults \cup o[2]
          /\ dataset' = d
     ELSE UNCHANGED << faults, dataset >>
  /\ DriverUnchanged /\ UNCHANGED << apis, broken, stats, issued, reports >>

\* The gate once, and the file; the driver fails if a count is positive.
Gate(d) ==
  /\ driver[d].at = "gate"
  /\ reports' = [reports EXCEPT ![driver[d].runtime] =
                   [gate |-> hard_gate(faults), profile |-> "D1", sound |-> driver[d].sound]]
  /\ IF faults = {} THEN Advance(d, "verify") ELSE GivesUp(d)
  /\ DriverUnchanged /\ UNCHANGED << apis, broken, dataset, faults, stats, issued >>

\* verify_result.sh reads the file again.
Verify(d) ==
  /\ driver[d].at = "verify"
  /\ IF Clean(reports[driver[d].runtime].gate) THEN Advance(d, "passing") ELSE GivesUp(d)
  /\ DriverUnchanged /\ UNCHANGED << apis, broken, dataset, faults, stats, issued, reports >>

\* The trap stops the API of the run's runtime.
DriverTrap(d) ==
  /\ driver[d].at \in {"passing", "failing"}
  /\ Advance(d, IF driver[d].at = "passing" THEN "passed" ELSE "failed")
  /\ StopApis({driver[d].runtime})
  /\ DriverUnchanged /\ UNCHANGED << dataset, faults, stats, issued, reports >>

Orphaned(d) ==
  /\ DriverRuns(d) /\ ~driver[d].orphan
  /\ signals < MaxSignals
  /\ signals' = signals + 1
  /\ driver' = [driver EXCEPT ![d].orphan = TRUE]
  /\ UNCHANGED << matrix, trial, sampler, dataset, faults, stats, issued, pre, counted, outcome,
                  overwrite >>

\* SIGKILL, or SIGTERM before the trap is set.
KillDriver(d) == Orphaned(d) /\ UNCHANGED << apis, broken >>

\* SIGTERM: the trap runs while the command goes on.
TerminateDriver(d) ==
  /\ driver[d].at \in DriverTrapped
  /\ Orphaned(d)
  /\ StopApis({driver[d].runtime})
-----------------------------------------------------------------------------
\* The report of an earlier run.
Accepted == [gate |-> hard_gate({}), profile |-> "D1", sound |-> TRUE]

Init ==
  /\ matrix = [m \in Matrices |-> [at |-> "idle", done |-> 0]]
  /\ trial = [t \in Trials_ |-> IdleTrial]
  /\ sampler = {}
  /\ driver = [d \in Drivers |-> IdleDriver]
  /\ apis \in SUBSET Runtimes
  /\ dataset = None /\ faults = {} /\ stats = NoStats
  /\ pre = [t \in Trials_ |-> NoStats]
  /\ counted = [t \in Trials_ |-> 0] /\ issued = [t \in Trials_ |-> 0]
  /\ dirs \in {{}, Leftover} /\ summaries = dirs
  /\ summary = [m \in Matrices |-> None]
  /\ reports = [r \in Runtimes |-> Accepted]
  /\ overwrite \in Overwrites
  /\ broken = {} /\ signals = 0

RunScenario(t) ==
  \/ MakeDir(t) \/ StopAll(t) \/ ResetDataset(t) \/ PrepareFixture(t) \/ StopOther(t)
  \/ StartApi(t) \/ StartLoad(t) \/ EndLoad(t) \/ Post(t) \/ Finish(t)
  \/ Fail(t) \/ Terminate(t) \/ KillTrial(t) \/ OrphanEnds(t)

RunMatrix(m) ==
  LockMatrix(m) \/ RunTrial(m) \/ TrialDone(m) \/ MatrixFails(m) \/ KillMatrix(m)

RunCorrectness(d) ==
  \/ StartDriver(d) \/ DriverResets(d) \/ DriverStops(d) \/ DriverStarts(d) \/ DriverClears(d)
  \/ RunCase(d) \/ DriverFails(d) \/ Gate(d) \/ Verify(d) \/ DriverTrap(d)
  \/ KillDriver(d) \/ TerminateDriver(d)

Next ==
  \/ \E t \in Trials_ : RunScenario(t)
  \/ \E t \in Solo : StartSolo(t)
  \/ \E m \in Matrices : RunMatrix(m)
  \/ \E d \in Drivers : RunCorrectness(d)

Spec == Init /\ [][Next]_vars
-----------------------------------------------------------------------------
(* Properties.                                                              *)

TypeOK ==
  /\ matrix \in [Matrices -> [at : {"idle", "ready", "trial", "passed", "failed", "gone"},
                              done : 0 .. Warmups + 2 * MAX_MEASURED_RUNS]]
  /\ trial \in [Trials_ -> [at : Steps \cup Ended, runtime : Runtimes,
                            phase : {"warmup", "measured"}, ordinal : Nat \ {0},
                            orphan : BOOLEAN, ok : BOOLEAN, beside : BOOLEAN]]
  /\ sampler \subseteq Trials_ /\ broken \subseteq Trials_
  /\ driver \in [Drivers -> [at : DriverSteps \cup Ended, runtime : Runtimes,
                              case : DOMAIN Cases, orphan : BOOLEAN, sound : BOOLEAN,
                              beside : BOOLEAN]]
  /\ apis \subseteq Runtimes
  /\ dataset \in Trials_ \cup Drivers \cup {None}
  /\ faults \subseteq {"partial", "mismatch"}
  /\ stats \in [app : Nat, other : Nat] /\ pre \in [Trials_ -> [app : Nat, other : Nat]]
  /\ counted \in [Trials_ -> Nat] /\ issued \in [Trials_ -> Nat]
  /\ summaries \subseteq dirs

(***************************************************************************)
(* What the lock keeps of contracts/common.yaml's one API runtime per       *)
(* measured trial.  Two loads never overlap, though scripts, trials and     *)
(* loads are killed, terminated and restarted.  A load runs beside no other *)
(* API and over the rows its own trial seeded as long as no run_correctness *)
(* is under way, nor a command that a dead one left; and an assertion of    *)
(* run_correctness is about the rows of its own run unless a trial, another *)
(* run or what is left of one is there.                                     *)
(***************************************************************************)
MeasuredAlone ==
  /\ \A t, u \in Trials_ : trial[t].at = "load" /\ trial[u].at = "load" => t = u
  /\ \A t \in Trials_ :
       trial[t].at = "load" /\ ~trial[t].beside =>
         apis \subseteq {trial[t].runtime} /\ dataset = t
  /\ \A d \in Drivers :
       driver[d].at = "case" /\ ~driver[d].beside => dataset = d

(***************************************************************************)
(* A matrix that reports its end measured both runtimes equally often, each *)
(* the first of its round as often as the other up to one, judged by as     *)
(* many files of each, and gave up on the variance only after the last      *)
(* round.  With BENCH_OVERWRITE the files may be more: those a killed run   *)
(* left behind are judged with them.                                        *)
(***************************************************************************)
BalancedMatrix ==
  \A m \in Matrices :
    matrix[m].at = "passed" =>
      LET s == summary[m]
          first(r) == Cardinality({i \in 1 .. s.measured : Order(i)[1] = r})
      IN  /\ s.measured \in MIN_MEASURED_RUNS .. MAX_MEASURED_RUNS
          /\ \A r \in Runtimes :
               /\ s.count[r] >= s.measured
               /\ ~overwrite => s.count[r] = s.measured
               /\ first(r) <= first(Other(r)) + 1
          /\ s.status = "UNSTABLE" => s.measured = MAX_MEASURED_RUNS

(***************************************************************************)
(* The statements derive_run attributes to a trial were issued between its  *)
(* snapshots, whoever issued them and whoever reset the counters meanwhile; *)
(* without a run_correctness or its orphan beside it they are those of its  *)
(* load, and none of the seed, of the fixture or of the invariant queries.  *)
(***************************************************************************)
CountedCallsAreTheTrials ==
  \A t \in Trials_ :
    trial[t].at = "finish" =>
      /\ counted[t] <= issued[t]
      /\ ~trial[t].beside => counted[t] = IF t \in broken THEN 0 ELSE LoadCalls

(***************************************************************************)
(* The gate looks once, at the end, after the preparations of every case:   *)
(* a run that passes has had only sound cases (Sound), and two reports that *)
(* compare_correctness accepts, perhaps of an earlier run, are of such      *)
(* runs, unless a trial, another run or what is left of one was there, who  *)
(* may have reset the dataset meanwhile.                                    *)
(***************************************************************************)
PassMeansEveryCaseWasClean ==
  /\ \A d \in Drivers : driver[d].at = "passed" /\ ~driver[d].beside => driver[d].sound
  /\ Parity(reports["python"], reports["go"]) =>
       \A r \in Runtimes : reports[r].sound
=============================================================================
