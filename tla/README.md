# Verification of the POS benchmark backend

The repository compares two implementations of one backend for point-of-sale
devices: a Python stack (FastAPI, SQLAlchemy; `src/python/app/`) and a Go stack
(`net/http`, pgx; `src/go/internal/`). Both run over one PostgreSQL schema
(`src/db/001_schema.sql`), and the repository calls them correctness-equivalent.
This directory holds TLA+ models of that backend, TLC runs on small instances
and TLAPS proofs for every instance.

Most of the program's difficulty is in its transactions. All of them are READ
COMMITTED: every statement has a snapshot of its own, a row is protected only
from the moment it is locked, and an UPDATE writes the row as it is by then.

## Inventory

| Component | State | Operations | Hard behaviours | What makes it correct |
|---|---|---|---|---|
| Payments (`payments.py`, `payments/service.go`) | payments and their child rows, QR codes, wallets, ledger | one handler: lock the key, look it up, guards, pay by CARD, QR or RF_CARD, insert, commit | concurrent requests with one key, contention for a code or a wallet, crash or deadline at any statement, retries | one payment per key, replays tell the truth, no double redemption, no overdraft, no partial money |
| Admission guards (part of both payment services) | none (reads other components' tables) | an ordered chain of checks | order of two dozen checks, boundaries, parity of two implementations | admits exactly the operational; same code in both stacks |
| Commands (`commands.py`, `commands/service.go`) | commands, executions, results, completion events | poll, acknowledge, result | the poll's unlocked read, deadlines that pass during a wait, duplicate results | one final result, in time, after an acknowledge; command and execution agree |
| Device authentication (`auth.py`, `auth/device.go`) | credentials, devices (read) | authenticate | none | a refused request has no effect |
| Heartbeat | heartbeats, current states | record | first heartbeats racing, out-of-order commits | last_seen_at never goes back |
| Worker sweep (`worker.py`) | maintenance windows, alarms | sweep | overlapping sweeps, stale reads, one transaction for all devices | one open alarm per key; a recovered device's alarm is resolved |
| Configuration | published configuration (read) | get | none | the version the guards compare |
| Dashboard (`dashboard.py`, `dashboard/service.go`) | reads everything | overview | a snapshot per statement | totals that agree up to what committed between them |
| Sessions and pool (`db.py`, `db/db.go`) | 40 connections | open, commit, roll back | waiters of one lock occupy the pool | every exit releases its locks; whoever waits for a connection holds nothing |
| Schema and invariant checks (`db/`) | constraints; queries run after each trial | none | none | the queries return nothing |
| Dataset (`db/seed/seed.py`, `load/common.js`) | the seeded rows | seed, reset; pick a request | ids computed three times, in SQL, in JavaScript and as constants | every request of a load names rows that go together |
| Orchestration (`scripts/run_*.sh`, `start_stack.sh`, `stop_stack.sh`) | lock file, containers, database, result directories | matrix, trial, correctness run | runs outside the lock, kills and orphans, a trap that does not exit | one runtime active during a measured trial (as far as the lock reaches); a balanced matrix |
| Correctness driver (`correctness_driver.py`, `run_correctness.sh`) | one report per stack | thirteen cases, the gate, the comparison | one gate for all cases, at the end | a run that passes had only sound cases |
| Results and metrics (`verify_result.sh`, `metrics/normalize.py`) | result files, statement counters | verify, derive | counters reset and shared | a failed trial is never counted; a trial is charged with its own calls |
| Isolation checks, source freeze, publication | files | check, render | none | out of scope |

How they interact: payments, commands, heartbeats and sweeps meet only in the
database. A payment's guards read what heartbeats (`last_seen_at`), sweeps
(maintenance windows), the configuration and commands (executions of the bay)
write, without locking it. The payment tables are written by payments alone, the
command tables by the three command handlers alone, so each can be modelled by
itself with the others' rows as inputs that may change at any moment. Overviews read
what payments commit, and both draw on one pool of connections, so `Dashboard` composes
them; it takes its rows from `Dataset`. The scripts meet in the lock file, the
containers, the database and the result directories, and `Trials` composes matrix,
trial and correctness runs, with the driver's judgement taken from `Correctness`.

`PROJECT.json` lists the same components with their status, and under "hazards"
every place in the code that a test would hardly reach, with the properties that
watch it.

## Modules

| Module | Models |
|---|---|
| `PaymentGuards` | the guard chains of both stacks, the method's own refusals, a card scenario's outcome, the answer of a row. No state |
| `Payments` | the payment endpoint as concurrent transactions, with properties and the inductive invariant |
| `PaymentContract` | the abstract specification: each request is decided in one atomic step |
| `PaymentsProofs` | theorems about `Payments`, checked by TLAPS |
| `PaymentContractProofs` | the proof that `Payments` implements `PaymentContract`, what it needs of money and drafts, and the wallets' books |
| `StackEquivalence` | the two chains side by side on every input of an instance |
| `StackEquivalenceProofs` | the same for every input |
| `Commands` | poll, acknowledge and result as concurrent transactions over commands with deadlines |
| `CommandsProofs` | theorems about `Commands`, checked by TLAPS |
| `Monitoring` | heartbeats and worker sweeps as concurrent transactions over current states, maintenance windows and alarms |
| `MonitoringProofs` | theorems about `Monitoring`, those that look back at what was committed when a sweep began included |
| `Dataset` | the seeded rows as functions of a profile's sizes, the requests of the loads and of the driver, and that the latter fit the former. No state |
| `Dashboard` | overviews, payments, heartbeats and failing programs over one pool of connections |
| `DashboardProofs` | theorems about `Dataset` and `Dashboard`: the fixtures, the pool, the blocks of an overview |
| `Correctness` | what a program may answer and write in each case of the driver, what the driver sees of it, and what it should have seen. No state |
| `Trials` | matrices, trials by hand and correctness runs on one machine, with kills, terminations and orphans of each |
| `TrialsProofs` | theorems about `Correctness` and `Trials` |
| `FiniteSums` | lemmas about sums and counts over finite sets. Models nothing |
| `MC*` | the constants of the runs |

### Payments

A slot is one HTTP request. Its `pc` walks through the handler:

    idle -> locking -> lookup -> guards -> method -> insert -> commit -> replying -> answered
                                                                              \-> lost

`LockKey` is `pg_advisory_xact_lock`; `Replay`, `Conflict` and `Fresh` are the
three outcomes of the lookup; `Refuse` and `Admit` run the guard chain;
`PayByCard`, `PayByQr`, `PayByRfCard`, `PayByInvalidRfCard` and `RefuseMethod`
are the method branch; `InsertRows` and `LedgerCheckFails` the INSERTs; `Commit`
publishes everything. What a transaction has written and not committed is its
`draft`; no other transaction sees it, and `Abort` (crash, dropped connection, SQL
error, the Go handler's 5 s deadline) forgets it. `owner` is the lock table:
advisory locks and row locks differ only in when they are taken. `LoseReply` is the
answer lost after the transaction ended; a retry is another slot with the same
key and body.

A QR code's UPDATE stores the count that was read, plus one, so it is right only
because the row was locked when it was read. A wallet's UPDATE is relative, and the
lock protects the comparison of balance and price.

The guards read tables payments do not write. What they see is a record of
`Facts`, any record at any time: the model does not assume the statements of one
chain see one state.

### Commands

`PollSelect` reads the oldest open commands without a lock; `PollSend` locks and
updates them one at a time, oldest first; `PollCommit` publishes. `AckStart` and
`ResultApply` are the granted SELECT ... FOR UPDATE with the decision made from the
locked row and the clock; `AckCommit` and `ResultCommit` publish. The remaining
actions are the refusals and the replay. Execution rows are written only under the
lock of their command, so there is one lock per command. `clock` advances at any
moment, so a deadline may pass while a request waits.

The result's hash is modelled by the text it hashes: result, code and message
joined by colons, an absent member written as the word None.

### Monitoring

A sweep is one run of the worker and walks through the statements of
`sweep_target_runtime`:

    idle -> activate -> complete -> maintenance -> devices -> lookup <-> evaluate
         -> failures -> lookup <-> evaluate -> commit -> done

A heartbeat walks `idle -> find -> insert -> update -> commit -> done`, past `insert`
when it finds a current state. Either may end as `failed`, and then nothing it wrote
is there.

The two UPDATEs of the maintenance windows lock their rows one by one in any order
(`Activate`, `Complete`) and end when no row is left (`EndActivate`, `EndComplete`).
`ReadDevices` is the single read of all `last_seen_at`, which the loop uses to its end.
Offline keys are visited in the order of the ids, failure keys in any order, since
the GROUP BY has none. `OpenAlarm`, `AlarmCollides`, `ResolveAlarm` and
`LeaveAlarm` are the outcomes of the loop body. An INSERT of an alarm locks its key in
the unique index of open alarms; it fails, and the whole sweep with it, when it finds
the key committed. `DeadlockVictim` is PostgreSQL's detector: it ends one sweep of
a ring of sweeps that wait for each other.

Nothing stops a second sweep, or a second heartbeat of a device, while one is under way,
so the model overlaps them freely. Where a property depends on how they overlapped, it
says so in terms of what was committed when each of them began; `since` is the
history variable that remembers it. `InTurn(d)` is a device that waits for its answers,
as the load script does.

`AlarmsFollowEachOther` names one exception. A sweep that reads a device before its
first heartbeat may resolve much later an alarm that other sweeps have raised
meanwhile, and a third sweep may raise the next at once. It takes three sweeps, one
more than the run has; the proof met it.

### Dashboard and Dataset

`Dataset` translates the SELECTs with `generate_series` of `seed.py` into functions: row
`i` of a table, computed with the same modulus and divisions. `DatasetServes` says that
the requests of `load/*.js` and of the driver, which compute ids of their own, name
devices, programs, codes, wallets and commands that belong together and that the guards
admit. The dates of the seed are left out: a code is valid from 2026-08-31 and codes and
cards to the end of 2027, so this speaks of requests sent in between.
`PublishedProfilesAreUsable` checks the sizes of the published profiles.

An overview is the chain of its statements, `auth -> company -> organization -> devices ->
financial -> methods -> failures -> done`, a payment `begin -> lock -> write -> commit
(-> payload) -> done`. `Checkout` takes a connection from the pool. The Python session
keeps it to the end of the request; Go takes one per statement of an overview. Python
reads a payment's payload back on a new connection after its commit, Go before the
commit on the old one. Python refuses an invalid period (422) before it authenticates,
Go after. `Abort` stands for refusals, errors and waiters that give up.

`contracts/dashboard.yaml:22` asks for values derived from one dataset snapshot. Rows
of the seed do not change, so the values are of one dataset; the statements are of
different moments, and `BlocksAgreeUpToCommits` states exactly by what the blocks may
differ: the payments that committed between two statements (`moment` remembers which
were there). `Organization` to `Failures` use the two different paths from a payment to a
company, by its station and by its program, which agree only because of the guards and
the seed (`FixturesServeTheRuns`).

### Trials and Correctness

A trial walks through the commands of `run_scenario.sh`,

    dir -> stop -> reset -> fixture -> other -> up -> pre -> load -> post -> finish

as a child of a matrix or by hand. `Holds` is the lock: bash opens the file once and its
children inherit it, so it is free only when matrix, trial, current command and sampler
have ended. `KillTrial` leaves the command that was running (`orphan`), which may still
take effect (`Step` of an orphan) or have done so (`OrphanEnds`); the sampler of a
killed trial loops on and keeps the lock. `Terminate` runs the trap, which stops the
APIs but does not exit, so the trial goes on with its next command. `Fail` is `set -e`.
`TrialDone` looks at the variance between rounds and either goes on or writes the
matrix's summary from the files it finds.

`run_correctness` walks through

    reset -> stop -> up -> counters -> case -> gate -> verify -> passing | failing

takes no lock and looks for no other run, so any number of them (`Drivers`) overlap
trials and each other: it reseeds, stops and starts APIs at any moment. Each of its
commands may outlive it. `KillDriver` leaves the command as an `orphan`, which takes effect
later (`Advance` of an orphan) or has done so (`DriverFails`); at "case" it is the Python
program, which goes on to the last case and writes its report. `TerminateDriver` is
SIGTERM: a shell that traps EXIT alone runs the trap at once and dies, and the command goes
on, unlike in a trial, which traps TERM too and waits. `DriverTrap` is the trap of a run
that ends by itself.

`beside` (history) marks the trials and correctness runs that overlapped a correctness run
or its orphan (and, for a correctness run, also a trial or its orphan), and the properties
claim isolation only for the others.

Two places where an error is ignored are in the model. `docker compose stop` under
`|| true` may leave containers running (`StopApis`); `stop_stack.sh` and `start_stack.sh`
look afterwards, the traps and `run_correctness` do not, so nothing is claimed of the APIs
beside a correctness case. `capture_invariants` runs under `||`, where `set -e` is off: a query
that fails counts as a clean one (`Checked`). The statement counters are one per
database; `derive_run` takes the rise of each between two snapshots and 0 where it fell.
Queries of the sampler and of the snapshot itself match the filter on `pg_stat_` and are
not counted.

`Correctness` puts no trust in the program under test: in each case it may answer
and write whatever the schema's constraints accept. Those constraints make six of the
eight counts of the gate impossible, the other two are `Evidence`. The driver does
not count the successful payments of a wallet and does not read the status of the
command; `Sound` claims only what follows without them.

## Runs

| Run | Instance | Shows |
|---|---|---|
| `payments_money` | 3 requests, 2 keys, 1 single-use code, 1 wallet that pays once, QR and RF bodies | all safety properties, at the edge of every resource |
| `payments_live` | 2 requests, 1 key, every card outcome, refusal and price 0 | every request ends; the transactions implement `PaymentContract` |
| `guards_agree` | 12 bodies, 9216 combinations of facts | the chain admits exactly the operational device; both stacks answer alike, but for a QR body without a token and a free program asked for without a price |
| `guards_divergence` | the same inputs | violation: a QR body without a token gets different codes from the stacks |
| `commands_race` | 4 overlapping requests on 1 command, clock 0..3 around deadlines of 2 and 2 | result once, final, in time, after an acknowledge; only a reopened command can disagree or run again |
| `commands_live` | 2 requests, 2 commands, 2 devices | every request ends; polls never deadlock |
| `commands_reopened` | 2 requests | violation: an overlapping poll writes SENT over ACKNOWLEDGED |
| `monitoring_race` | 2 sweeps, 2 heartbeats of 1 device, 1 window, with and without an open alarm and a current state, clock 3..6 | one open alarm per key, truthful alarms, no flapping, maintenance respected, last_seen_at goes back only among overlapping heartbeats |
| `monitoring_live` | 2 sweeps, 2 devices with failures, 1 first heartbeat | each ends although the sweeps insert in opposite orders |
| `dashboard` | 1 overview, 2 payments with one key, a pool of 2, a device without and with heartbeats, a failing program, the midnight that ends a month and a week | blocks agree up to commits, nobody queues while holding, every request ends, the dataset fits its requests |
| `trials` | 1 matrix, 1 trial by hand, 2 kills or terminations anywhere, leftovers of an earlier matrix (56,380 states) | loads are alone over their own rows, matrices are balanced |
| `trials_beside` | 1 trial by hand, 2 correctness runs of two cases that may overlap, 1 kill or termination anywhere (5,440,781 states) | what the runs and their orphans leave alone is measured alone and charged right, an undisturbed run asserts about its own rows, a pass means sound cases |

### Bounds

Three payment requests are the smallest number with a contender, a retry and a
bystander: two with one key race or replay, a third holds another key and the same
code or wallet. A limit of one use and a balance for one payment put both resources at
their edge at once; `payments_live` uses a limit of two so that a code is also
redeemed twice in turn. Prices are 2 and, in `payments_live`, also 0, the one value the
ledger's CHECK refuses. In `guards_*` each fact takes every value on both sides
of its boundary (120 and 121 seconds, absent, equal and different versions, a free program asked for with
no price, with 0 and with another).

Four requests on a command are what its longest hazard takes: poll, acknowledge,
result, and the acknowledge again after the poll reopened it. Deadlines of two ticks
have an inside, an edge and an outside. `MaxTime` bounds the clock, and nothing
depends on the clock beyond the deadlines.

An alarm's life takes three sweeps: one raises it, one resolves it, one raises it
again or works from a read that is older than both. The first of them may be over
before the instance starts, so two run, with and without the alarm of the first.
Limits of one and two ticks (120 s and 5 min) keep online, offline and due apart, and one window has a before, a
within and an after. A failure limit of one makes two executions two alarms.

`dashboard` has the smallest pool in which two requests can wait for each other, a
waiter for a key and a third that needs a connection; the pool of the code has 40
in both stacks, and `DashboardProofs` covers every size of pool and dataset. Its dataset is a small one
with two companies in which no table is empty (2 companies, 4 stations, 40 devices, 20
payments), its clock has one tick before and one after a midnight.

`trials` keeps the shape of a matrix with one warm-up, a minimum of two and a maximum of
three rounds (2, 5 and 10 in the code), so each exit of the variance check happens. The
two signals of `trials` fall at any step of a matrix, its trials and the trial by hand
that starts after one of them was killed. The one of `trials_beside` falls at any step
of a trial or of either correctness run, and the trial or a run may begin before or
after it: what it leaves behind meets both. Two correctness runs are enough for one to
reset what the other has left for its gate. Leftover directories and BENCH_OVERWRITE
concern matrices alone, so `trials_beside` begins without them. The two cases of a run
are of a code, as qr_2 and qr_10, so that evidence of the first must survive the second;
the assertion of each of the other cases differs in data only, and `TrialsProofs` covers
every list of cases. Deadlock checking is off there because the scripts end.

Symmetry is declared for slots, sweeps and heartbeats in the runs `commands_race` and
`monitoring_race`, and for the correctness runs in `trials_beside`, where no
constant distinguishes them and no liveness is checked.

Deadlock checking is on in every other run: when all slots are used up the instance
stutters by the explicit action `Over`.

### Fairness

`WF_vars(Serve(s))` for each request: the event loop or the goroutine scheduler
runs a handler that can run, and PostgreSQL grants a free lock to a waiter. In
`Monitoring` the same holds for `RunSweep(s)`, which includes the deadlock detector,
and for `Serve(b)`; in `Dashboard` for `Serve(r)`, which includes `Checkout`: both pools
hand a connection that is given back to a waiter. `Trials` states no fairness, since an
operator may kill or leave anything. There is no fairness on arrivals, on aborts or on losses.
No lock can be taken for ever by others, because the requests of an instance are finitely many; whether an endless
stream of requests starves one waiter is not shown.

## Findings

1. **A poll reopens a command** (`commands_reopened`). The poll selects open
   commands without `FOR UPDATE` and later updates them by id alone. An
   acknowledge that commits in between is overwritten by SENT
   (`contracts/command.yaml:34` promises `execution_state_matches_command_state`).
   `ExecutionAgreesUnlessReopened` shows how far the damage goes: the status is wrong
   only while it is the poll's SENT; `OnlyReopenedRunsAgain` that nothing else
   starts a program twice; `TerminalHasItsResult` and `ResultsAreFinal` that no
   result is lost or changed.
2. **The stacks are not answer-equivalent** (`guards_divergence`): a QR payment
   without a token is 404 QR_NOT_FOUND in Python and 422 QR_TOKEN_REQUIRED in
   Go. An absent displayed price with a free program also differs. `guards_agree`
   shows that the chains differ nowhere else, a free program whose price is shown
   included, and `StackEquivalenceProofs` proves it.

Two narrower disagreements have no run of their own. A result without a code and one
whose code reads None share a hash, so the second is answered as a replay where
`contracts/command.yaml:31` has it rejected; the outcome is always the one that was sent
(`AnswersMatchResults`). And `contracts/common.yaml:10` states
`one_api_runtime_per_measured_trial`, but `run_correctness.sh` takes no lock, so its
`docker compose up` (26), or the one a killed run left behind, may come after both checks of
`start_stack.sh` (17 and 24) and start an API beside a load. `MeasuredAlone` states what the
lock does keep.

## Proofs

`PaymentsProofs` proves, for every set of requests, keys, codes, wallets, bodies
and facts that satisfies the named assumptions of `Payments`:

- `TypeCorrect`: `Spec => []TypeOK`;
- `Invariance`: `Spec => []IInv`, the inductive invariant (no run checks it; it holds of
  `payments_money` by the theorem);
- `PaymentPerKeyIsUnique`, `InsertsNeverCollide`, `WalletsAreNeverOverdrawn`,
  `QrCodesAreNeverOverused`, `AnswersAreDurable`: the safety properties of the
  same names in `Payments`.

The assumptions say that requests are finitely many, that the three kinds of lock
are disjoint, that limits are positive and amounts natural numbers, and that
bodies and facts have the fields the code reads; TLC checks them for each
instance. None of them bounds a set.

The properties are not inductive by themselves: that two payments never share a
key follows only from what an open transaction holds and knows. `IInv` says it: a
transaction owns the lock of its key from the grant on (`KeyIsHeld`); since its
lookup no payment has that key (`KeyIsNew`); while its draft spends a code or a
wallet it owns that row, and the draft was computed from the row's current version
(`QrIsHeld`, `WalletIsHeld`). No other transaction can break this, because commits
change only rows whose lock they own. Each action preserves each part; replies and the
count of redemptions then follow with invariants of their own on top of `IInv`.

`PaymentContractProofs` proves `TransactionsImplementTheContract`, that `Payments`
refines `PaymentContract`. `IInv` knows what a draft spends; the refinement must know
that the draft is still the one the request would make now. That is `DraftInv`: what the
guards saw admits the body (`WasAdmitted`), the draft is the one the method makes of
the body, of what was seen and of the row the request holds (`Decided`), and past the
INSERTs the ledger's CHECK holds. It is inductive because a code or a wallet changes only
under its lock (`OthersKeepDraft`). With it, each action is one of the contract or changes
nothing the contract sees: `Commit` is `Pay`, the three refusals are `TurnAway`, the lookup
is `Repeat`. A code that is refused as not ACTIVE is used up for the contract, which
needs the count of redemptions (`QrInv`). The same invariant gives `PaymentsAreWhole`
(`FinancialStateIsWhole`) and `MoneyAlwaysMovesWithItsLedger` (`MoneyMovesWithItsLedger`, which no
run checks: a wallet changes only in the step that commits its ledger row).
`WalletsMatchTheirLedger` (`WalletMatchesLedger`) is about a sum: a commit adds one payment
to the sum of a wallet's ledger and takes its amount from the balance, and leaves the
sums of the other wallets as they are.

Sums and counts over sets need an induction, and the provers cannot instantiate a
theorem that takes an operator. `FiniteSums` does it by a smallest counterexample: a
set of counterexamples is an ordinary set, and a finite set has smallest subsets.
`PaymentContractProofs` and `DashboardProofs` cite its lemmas (a sum over a union, a sum
grouped by a key, a sum of ones).

`StackEquivalenceProofs` proves `AdmitsExactly` and `StacksAgreeOnUsual`: what
`guards_agree` checks on an instance, for every age, version, price and body. The first
refusal of a chain of twelve or thirteen checks is determined by the first that refuses,
and the two chains differ in two places, the token and the absent price, that usual requests
do not reach.

`MonitoringProofs` proves, for any number of sweeps, heartbeats, devices, windows and
limits, `TypeCorrect`, `MaintenanceMovesForwardHolds` and `OneOpenAlarmPerKeyHolds`.
A sweep that updates a window holds its row and has looked at the status it then has; a
sweep that inserts an alarm holds the key in the unique index, and a committed open alarm
excludes another. The invariants say who holds what between the statement and the
commit. Five more properties look back at what was committed when a sweep began, and
each part of the history has its invariant:

- `HistoryInv`: `last_seen_at` is a committed heartbeat's, and every later one either is
  not later or overlapped it. It gives `OnlyOverlapMovesBackHolds`.
- `WindowsInv`: a sweep that has read the maintenance windows has activated those that
  cover its `now`, or found them completed by a sweep with a later one. It gives
  `NoAlarmInMaintenanceHolds`.
- `LoopsInv`: what a sweep's loop has heard of a device, what it has raised with it, and
  that each device it has passed and found online has none of the earlier alarms
  left. It gives `RecoveredDeviceIsResolvedHolds` and `AlarmMeansSilenceHolds`.
- `ClosedInv`: a resolved offline alarm was resolved within `OfflineAfter` of a
  heartbeat that whoever sees the resolution sees too, or by a sweep that had read
  none. With `AlarmMeansSilence` it gives `AlarmsFollowEachOtherHolds`.

`CommandsProofs` proves, for every set of requests, commands and devices, and for
every deadline:

- `Invariance`: `Spec => []IInv`, and `TypeCorrect`;
- `TerminalCarriesResult`, `DisagreeOnlyWhenReopened`, `ResultsInTime`,
  `InsertsNeverCollide`: the invariants `TerminalHasItsResult`,
  `ExecutionAgreesUnlessReopened`, `FinishesInTime` and `ResultInsertsNeverCollide`;
- `ResultsStayFinal`, `RunsAgainOnlyWhenReopened`: the action properties
  `ResultsAreFinal` and `OnlyReopenedRunsAgain`;
- `AnswersStayTrue`: `AnswersMatchResults`.

Here `IInv` says what makes FOR UPDATE work: a request that has decided to write
(`AckStands`, `ResultStands`) owns the row it decided on, so what it saw is still so
when it commits; a poll owns the rows it marks (`PollOwnsSent`) and knows nothing of
them, which is why SENT is the one status that may be wrong. A deadline that was met
at the decision stays met in the row (`AcknowledgedInTime`). The proof shows for each
quiet step that nobody loses a lock, and for each commit that it writes only rows its
request owns. `AnswersStayTrue` needs one more invariant, that an answered OK has its
row with the hash of its body, and that the hash determines the outcome even
though it does not determine the body.

`TrialsProofs` proves, for any number of matrices, trials by hand, correctness runs (which
may overlap), signals, clients and cases:

- `AcceptedIsSound`: for each case, assertions that hold and no evidence make it sound;
  with it `PassMeansEveryCaseWasCleanHolds` (`PassMeansEveryCaseWasClean`): evidence stays
  in the tables until the gate unless a trial, another run or an orphan resets them, so
  `PassInv` says that a case that was not sound has left evidence or was disturbed, and that
  whoever is there while a run goes on has marked it;
- `TypeCorrect`, of `TypeInv`: `TypeOK` holds only because a trial past its first command
  has its directory and a matrix that goes on has trials left;
- `MeasuredAloneHolds` (`MeasuredAlone`), of `AloneInv`: the lock makes at most one trial
  live at a time, orphan or not, what a trial has stopped, reset and started so far is as it
  left it unless a correctness run or its orphan overlaps, and an undisturbed run's reset is
  the last one;
- `CountedCallsAreTheTrialsHolds` (`CountedCallsAreTheTrials`), of `CountInv`: between its
  snapshots the counters rise by what is issued, or are reset and rise by less;
- `BalancedMatrixHolds` (`BalancedMatrix`), of `BalanceInv`: while a matrix can still come to
  its end, each of its directories past the load has its summary, and a measured directory
  of its run-id is its own or one it fails at before the end (`Expected`): a former matrix of
  the same run-id left its first warm-up too, a trial by hand the first round's directory.
  This takes `LeftoverAssumption`, that the directories that are there at first come from
  matrices. Without it the property is false: after `run_scenario.sh` by hand with the
  matrix's run-id and a later ordinal, a matrix that ends before that round judges the
  foreign file with its own.

`DashboardProofs` proves, for a pool of any size, any requests and keys, and every dataset
whose sizes satisfy `SizeAssumption` (each published profile does, and TLC checks it):

- `FixturesAlwaysServe` (`FixturesServeTheRuns`): the arithmetic of `seed.py`, `load/common.js`
  and the driver agrees. Round robin over devices is round robin over stations is round
  robin over companies, because each size divides the next;
- `WaitersHoldNothing` (`HoldersNeverQueue`), of `PoolInv`: the owner of a key is in its
  transaction and has its connection;
- `DashboardTypes` (`TypeOK`), of `DashboardInv`: besides the types, that every payment that
  was seeded or committed has a device, a station and a program of one company, which both
  paths of an overview need;
- `BlocksAlwaysAgree` (`BlocksAgreeUpToCommits`), of `OverviewInv`: a block stays what its
  statement computes from the payments that were committed when it ran (`moment`),
  and those sets only grow. What two blocks differ by is then a sum over the difference
  of two sets.

Assumptions on constants beyond types: the sizes of a dataset, the finiteness of what
is summed or counted, that a payment gets an id no seeded payment has, that NULL is neither
a number nor a card's UID (`NullIsNoValue`), and `LeftoverAssumption`.

Only model-checked, and why: liveness (`EveryRequestEnds`, `EveryTransactionEnds`) is out
of the prover's reach. Every safety property of a passing run is a theorem.

## Not modelled

- Text: messages, JSON layout, timestamps that no guard reads. Hashes are injective
  functions of what they hash; where the hashed text loses information (results of
  commands) the text is modelled.
- Failures of PostgreSQL itself. A commit is atomic and durable, and its deadlock
  detector is modelled where it is needed, for sweeps (`DeadlockVictim`).
- A Go handler that fails while it answers a committed request: it is `LoseReply`.
- The trial of the worker, which starts no API, and the options of the scripts that
  only print a plan.
- Latencies, CPU, memory and lock samples: arithmetic over measurements. The comparison
  of two reports also compares hashes of contracts and queries; leaving it out accepts
  more pairs of reports, so `PassMeansEveryCaseWasClean` claims more.
- Preflight, isolation checks, source freeze and publication: each reads files or
  containers once and prints or refuses; nothing they keep is changed by another.
- Authentication reads one row and has no state. The one effect it may have, that a
  refused request changes nothing, is the action `Unauthorized` of `Payments`.

## What is left

1. The hazards without a property in `PROJECT.json`: the clock read before the wait for
   a code, guards that are stale at the commit, expired commands that fill a poll, the
   miscounted resolved alarms and the errors the scripts ignore. The code makes no
   promise about them that a property could state.
2. The worker's variant of a trial.
3. Abstract specifications of `Monitoring` and `Commands`, as `PaymentContract` is of
   `Payments`; their properties are stated and proved of the transactions directly.
