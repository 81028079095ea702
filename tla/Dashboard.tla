----------------------------- MODULE Dashboard -----------------------------
(***************************************************************************)
(* GET /api/v1/dashboard/overview beside payments that commit, heartbeats   *)
(* and programs that fail, all through one pool of connections.             *)
(*                                                                          *)
(* An overview is a chain of statements, each with a READ COMMITTED         *)
(* snapshot of its own.  The Python session keeps its connection from the   *)
(* first statement to the end of the request, or to the commit of a payment *)
(* (what follows takes another); Go takes one per statement of an overview  *)
(* and one for the whole transaction of a payment.  When the pool is empty  *)
(* a request waits, until it gives up: 30 s in SQLAlchemy, the 5 s deadline *)
(* in Go.  Connections are handed to the waiters in any order.              *)
(*                                                                          *)
(* Time is counted in ticks, DayLength to the day; day 0 is the day of the  *)
(* seeded rows.                                                             *)
(***************************************************************************)
EXTENDS Dataset, FiniteSetsExt

CONSTANTS
  Overviews, Payers,   \* the requests of the instance
  KeyOf, OutcomeOf,    \* the Idempotency-Key of each payer, what its body leads to
  PayDevices,          \* devices of the payments, of the heartbeats
  Failing,             \* executions that may fail
  PoolSize,            \* 40 in both stacks
  OnlineFor,           \* 120 s in ticks
  DayLength,           \* ticks of a day
  MonthStarts,         \* the days that begin a month
  StartTime, MaxTime   \* first and last tick of the instance

VARIABLES
  stack,      \* the stack under test
  clock,
  paid,       \* payments committed since the seed, by their requests
  seen,       \* last_seen_at of PayDevices, none at first; the others' is 0
  failed,     \* executions that ended FAILED
  pc,         \* the next step of each request
  conns,      \* connections each request holds
  owner,      \* the request that holds the advisory lock of each key
  draft,      \* rows inserted and not committed
  ask,        \* company and bounds of an overview
  answer,     \* the blocks of an overview
  moment      \* history: the payments committed when the two blocks were read

vars == << stack, clock, paid, seen, failed, pc, conns, owner, draft, ask, answer, moment >>

Requests == Overviews \cup Payers
Keys == {KeyOf[r] : r \in Payers}
Periods == {"TODAY", "LAST_7_DAYS", "THIS_MONTH"}
Invalid == "invalid"      \* a period outside the pattern, a token nobody has
Statuses == {"SUCCESS", "FAILED", "CANCELLED", "PENDING"}

ASSUME DashboardAssumption ==
  /\ IsFiniteSet(Requests) /\ Overviews \cap Payers = {} /\ None \notin Requests
  /\ PoolSize \in Nat \ {0} /\ DayLength \in Nat \ {0}
  /\ PayDevices \subseteq DOMAIN devices /\ Failing \subseteq DOMAIN seedExecutions
  /\ Payers \cap DOMAIN seedPayments = {}    \* a payment has an id of its own (NextIdsAreFree)
  /\ OutcomeOf \in [Payers -> Statuses]
  /\ StartTime \in Nat /\ OnlineFor \in Nat
-----------------------------------------------------------------------------
(* What the statements read.                                                *)

Day(t) == t \div DayLength

\* First day and the day after the last.
period_bounds(period, now) ==
  LET today == Day(now)
  IN  CASE period = "TODAY"       -> << today, today + 1 >>
        [] period = "LAST_7_DAYS" -> << today - 6, today + 1 >>
        [] period = "THIS_MONTH"  -> << Max({m \in MonthStarts : m <= today}),
                                        Min({m \in MonthStarts : m > today}) >>

Within(created, bounds) == bounds[1] <= Day(created) /\ Day(created) < bounds[2]

StationsOf(company) == {s \in DOMAIN stations : stations[s].company = company}

organization(company) ==
  [stations |-> Cardinality(StationsOf(company)),
   bays |-> Cardinality({w \in DOMAIN wash_bays : wash_bays[w].station \in StationsOf(company)})]

DevicesOf ==
  [c \in 1 .. Companies |-> {d \in DOMAIN devices : devices[d].station \in StationsOf(c)}]

LastSeen(d) == IF d \in PayDevices THEN seen[d] ELSE 0

\* Mutation: a device last seen at the cutoff is offline as well as online.
OfflineAtCutoff(d, cutoff) == LastSeen(d) # None /\ LastSeen(d) <= cutoff

\* A comparison with NULL is not true.
Online(d, cutoff)  == LastSeen(d) # None /\ LastSeen(d) >= cutoff
Offline(d, cutoff) == LastSeen(d) # None /\ LastSeen(d) < cutoff

deviceCounts(company, now) ==
  LET rows == DevicesOf[company]
  IN  [total   |-> Cardinality(rows),
       online  |-> Cardinality({d \in rows : Online(d, now - OnlineFor)}),
       offline |-> Cardinality({d \in rows : Offline(d, now - OnlineFor)}),
       unknown |-> Cardinality({d \in rows : LastSeen(d) = None}),
       active  |-> Cardinality({d \in rows : devices[d].status = "ACTIVE"})]

Payment(p) == IF p \in DOMAIN paid THEN paid[p] ELSE seedPayments[p]

SeedOf ==
  [c \in 1 .. Companies |->
     {p \in DOMAIN seedPayments : seedPayments[p].station \in StationsOf(c)}]

\* The payments at the company's stations created within the period; the
\* seeded ones are all of day 0.
InScope(a) ==
  (IF Within(0, a.bounds) THEN SeedOf[a.company] ELSE {})
  \cup {p \in DOMAIN paid : /\ paid[p].station \in StationsOf(a.company)
                            /\ Within(paid[p].created, a.bounds)}

OfStatus(rows, status) == {p \in rows : Payment(p).status = status}

\* SQL's sum over a set of rows, 0 for none.
Total(amounts, rows) == MapThenSumSet(LAMBDA x : amounts[x], rows)

Gross(rows) ==
  LET ok == OfStatus(rows, "SUCCESS") IN Total([p \in ok |-> Payment(p).amount], ok)

financial(a) ==
  LET rows == InScope(a)
      count(status) == Cardinality(OfStatus(rows, status))
  IN  [total |-> Cardinality(rows), success |-> count("SUCCESS"),
       failed |-> count("FAILED"), pending |-> count("PENDING"),
       cancelled |-> count("CANCELLED"), gross |-> Gross(rows)]

\* GROUP BY: one row per method that occurs.
payment_methods(a) ==
  LET scope == InScope(a)
  IN  [m \in {Payment(p).method : p \in scope} |->
         LET rows == {p \in scope : Payment(p).method = m}
         IN  [total |-> Cardinality(rows), success |-> Cardinality(OfStatus(rows, "SUCCESS")),
              amount |-> Gross(rows)]]

failed_execution_count(a) ==
  Cardinality({e \in failed : /\ seedPayments[seedExecutions[e].payment].station \in StationsOf(a.company)
                              /\ Within(0, a.bounds)})
-----------------------------------------------------------------------------
(* The pool.                                                                *)

\* The steps that send statements.
Statements ==
  {"auth", "company", "organization", "devices", "financial", "methods", "failures",
   "begin", "lock", "write", "commit", "payload"}

\* Mutation: Go authenticates a payment's device on a connection of its own
\* inside the transaction.
NeededNested(r) ==
  IF pc[r] \notin Statements THEN 0 ELSE IF stack = "go" /\ pc[r] = "lock" THEN 2 ELSE 1

\* How many connections the next step of a request uses.
Needed(r) == IF pc[r] \in Statements THEN 1 ELSE 0

Waiting(r) == conns[r] < Needed(r)

InUse == Total(conns, Requests)

Go(r, step) == pc' = [pc EXCEPT ![r] = step]

\* Mutation: a waiter gets a connection beyond the size of the pool.
CheckoutOverflowing(r) ==
  /\ Waiting(r)
  /\ conns' = [conns EXCEPT ![r] = @ + 1]
  /\ UNCHANGED << stack, clock, paid, seen, failed, pc, owner, draft, ask, answer, moment >>

Checkout(r) ==
  /\ Waiting(r)
  /\ InUse < PoolSize
  /\ conns' = [conns EXCEPT ![r] = @ + 1]
  /\ UNCHANGED << stack, clock, paid, seen, failed, pc, owner, draft, ask, answer, moment >>

\* Mutation: a session that ends with an exception keeps its connection.
CheckinNever(r) == UNCHANGED conns

\* Closing the session, or the end of the transaction, in whatever way.
Checkin(r) == conns' = [conns EXCEPT ![r] = 0]

Unlock(r) == owner' = [k \in Keys |-> IF owner[k] = r THEN None ELSE owner[k]]

\* A refusal, an error, a lost client, or a waiter that gives up: roll back
\* and close.
Abort(r) ==
  /\ pc[r] \in Statements
  /\ Go(r, "done")
  /\ Checkin(r)
  /\ Unlock(r)
  /\ draft' = [p \in Payers |-> IF p = r THEN None ELSE draft[p]]
  /\ answer' = [o \in Overviews |-> IF o = r THEN None ELSE answer[o]]
  /\ UNCHANGED << stack, clock, paid, seen, failed, ask, moment >>
-----------------------------------------------------------------------------
(* The overview.                                                            *)

\* FastAPI checks the period before the handler runs, Go after the token.
ArriveOverview(r) ==
  /\ pc[r] = "idle"
  /\ r \in Overviews
  /\ \E period \in Periods \cup {Invalid} :
       IF stack = "python" /\ period = Invalid
       THEN Go(r, "done") /\ UNCHANGED ask
       ELSE /\ Go(r, "auth")
            /\ ask' = [ask EXCEPT ![r] = [company |-> None, period |-> period, bounds |-> << 0, 0 >>]]
  /\ UNCHANGED << stack, clock, paid, seen, failed, conns, owner, draft, answer, moment >>

\* One statement with a connection; Go gives it back at once.
Statement(r, step, next) ==
  /\ pc[r] = step
  /\ ~Waiting(r)
  /\ Go(r, next)
  /\ IF stack = "go" \/ next = "done" THEN Checkin(r) ELSE UNCHANGED conns
  /\ UNCHANGED << stack, clock, paid, seen, failed, owner, draft >>

\* 401, or the 422 of Go: no answer, and the session or statement ends.
RefusePanel(r) ==
  /\ Statement(r, "auth", "done")
  /\ UNCHANGED << ask, answer, moment >>

authenticate_panel(r) ==
  /\ Statement(r, "auth", "company")
  /\ ask[r].period # Invalid
  /\ \E company \in 1 .. Companies :
       ask' = [ask EXCEPT ![r].company = company,
                          ![r].bounds = period_bounds(ask[r].period, clock)]
  /\ UNCHANGED << answer, moment >>

FindCompany(r) ==
  /\ Statement(r, "company", "organization")
  /\ answer' = [answer EXCEPT ![r] = << >>]
  /\ UNCHANGED << ask, moment >>

Block(r, step, next, block) ==
  /\ Statement(r, step, next)
  /\ answer' = [answer EXCEPT ![r] = Append(@, block)]
  /\ moment' = IF step \in DOMAIN moment[r] THEN [moment EXCEPT ![r][step] = DOMAIN paid]
               ELSE moment
  /\ UNCHANGED ask

Organization(r) == Block(r, "organization", "devices", organization(ask[r].company))
DeviceBlock(r)  == Block(r, "devices", "financial", deviceCounts(ask[r].company, clock))
Financial(r)    == Block(r, "financial", "methods", financial(ask[r]))
Methods_(r)     == Block(r, "methods", "failures", payment_methods(ask[r]))
Failures(r)     == Block(r, "failures", "done", failed_execution_count(ask[r]))
-----------------------------------------------------------------------------
(* The payment: what the overview sees of it, and what it asks of the pool. *)

ArrivePayer(r) ==
  /\ pc[r] = "idle"
  /\ r \in Payers
  /\ Go(r, "begin")
  /\ UNCHANGED << stack, clock, paid, seen, failed, conns, owner, draft, ask, answer, moment >>

\* authenticate_device opens the transaction.
Begin(r) ==
  /\ pc[r] = "begin" /\ ~Waiting(r)
  /\ Go(r, "lock")
  /\ UNCHANGED << stack, clock, paid, seen, failed, conns, owner, draft, ask, answer, moment >>

LockKey(r) ==
  /\ pc[r] = "lock" /\ ~Waiting(r)
  /\ owner[KeyOf[r]] = None
  /\ owner' = [owner EXCEPT ![KeyOf[r]] = r]
  /\ Go(r, "write")
  /\ UNCHANGED << stack, clock, paid, seen, failed, conns, draft, ask, answer, moment >>

\* A replay or a conflict writes nothing; Python reads it and rolls back, Go commits.
Replay(r) ==
  /\ pc[r] = "write" /\ ~Waiting(r)
  /\ \E p \in DOMAIN paid : KeyOf[p] = KeyOf[r]
  /\ Go(r, "done")
  /\ Checkin(r)
  /\ Unlock(r)
  /\ UNCHANGED << stack, clock, paid, seen, failed, draft, ask, answer, moment >>

\* The guards tie the program to the station's company.
Write(r) ==
  /\ pc[r] = "write" /\ ~Waiting(r)
  /\ \A p \in DOMAIN paid : KeyOf[p] # KeyOf[r]
  /\ \E d \in PayDevices :
       draft' = [draft EXCEPT ![r] =
                   [device |-> d, station |-> devices[d].station,
                    program |-> FirstProgram(CompanyOf(d)), method |-> "CARD",
                    amount |-> 1000, status |-> OutcomeOf[r], created |-> clock]]
  /\ Go(r, "commit")
  /\ UNCHANGED << stack, clock, paid, seen, failed, conns, owner, ask, answer, moment >>

\* The commit ends the Python session's use of its connection; reading the
\* payload back takes another.  Go has read it before.
Commit(r) ==
  /\ pc[r] = "commit" /\ ~Waiting(r)
  /\ paid' = [p \in DOMAIN paid \cup {r} |-> IF p = r THEN draft[r] ELSE paid[p]]
  /\ draft' = [draft EXCEPT ![r] = None]
  /\ Checkin(r)
  /\ Unlock(r)
  /\ Go(r, IF stack = "python" THEN "payload" ELSE "done")
  /\ UNCHANGED << stack, clock, seen, failed, ask, answer, moment >>

Payload(r) ==
  /\ pc[r] = "payload" /\ ~Waiting(r)
  /\ Go(r, "done")
  /\ Checkin(r)
  /\ UNCHANGED << stack, clock, paid, seen, failed, owner, draft, ask, answer, moment >>
-----------------------------------------------------------------------------
(* The rest of the system.                                                  *)

Heartbeat(d) ==
  /\ seen[d] # clock
  /\ seen' = [seen EXCEPT ![d] = clock]
  /\ UNCHANGED << stack, clock, paid, failed, pc, conns, owner, draft, ask, answer, moment >>

ProgramFails(e) ==
  /\ failed' = failed \cup {e}
  /\ failed' # failed
  /\ UNCHANGED << stack, clock, paid, seen, pc, conns, owner, draft, ask, answer, moment >>

Tick ==
  /\ clock < MaxTime
  /\ clock' = clock + 1
  /\ UNCHANGED << stack, paid, seen, failed, pc, conns, owner, draft, ask, answer, moment >>

Over == (\A r \in Requests : pc[r] = "done") /\ UNCHANGED vars

Init ==
  /\ stack \in {"python", "go"}
  /\ clock = StartTime
  /\ paid = [p \in {} |-> None]
  /\ seen = [d \in PayDevices |-> None]
  /\ failed = {}
  /\ pc = [r \in Requests |-> "idle"]
  /\ conns = [r \in Requests |-> 0]
  /\ owner = [k \in Keys |-> None]
  /\ draft = [r \in Payers |-> None]
  /\ ask = [r \in Overviews |-> None]
  /\ answer = [r \in Overviews |-> None]
  /\ moment = [r \in Overviews |-> [financial |-> {}, methods |-> {}]]

Serve(r) ==
  \/ Checkout(r)
  \/ r \in Overviews /\ (RefusePanel(r) \/ authenticate_panel(r) \/ FindCompany(r) \/ Organization(r) \/ DeviceBlock(r)
                         \/ Financial(r) \/ Methods_(r) \/ Failures(r))
  \/ r \in Payers /\ (Begin(r) \/ LockKey(r) \/ Replay(r) \/ Write(r) \/ Commit(r) \/ Payload(r))

Next ==
  \/ \E r \in Requests : Serve(r) \/ Abort(r)
  \/ \E r \in Overviews : ArriveOverview(r)
  \/ \E r \in Payers : ArrivePayer(r)
  \/ \E d \in PayDevices : Heartbeat(d)
  \/ \E e \in Failing : ProgramFails(e)
  \/ Tick
  \/ Over

Spec == Init /\ [][Next]_vars
FairSpec == Spec /\ \A r \in Requests : WF_vars(Serve(r))
-----------------------------------------------------------------------------
(* Properties.                                                              *)

Row == [device : DOMAIN devices, station : DOMAIN stations, program : DOMAIN programs,
        method : Methods, amount : Nat, status : Statuses, created : Nat]

TypeOK ==
  /\ stack \in {"python", "go"} /\ clock \in Nat
  /\ DOMAIN paid \subseteq Payers /\ \A p \in DOMAIN paid : paid[p] \in Row
  /\ seen \in [PayDevices -> Nat \cup {None}]
  /\ failed \subseteq Failing
  /\ pc \in [Requests -> Statements \cup {"idle", "done"}]
  /\ conns \in [Requests -> 0 .. PoolSize]
  /\ owner \in [Keys -> Payers \cup {None}]
  /\ draft \in [Payers -> Row \cup {None}]
  /\ InUse <= PoolSize

\* The payments committed between the two blocks over payments that the
\* company owns by the way of the program, the other path to a company.
CommittedBetween(r) ==
  {p \in moment[r].methods \ moment[r].financial :
     /\ programs[paid[p].program].company = ask[r].company
     /\ Within(paid[p].created, ask[r].bounds)}

SumOf(methods, field) == Total([m \in DOMAIN methods |-> methods[m][field]], DOMAIN methods)

(***************************************************************************)
(* The blocks of an overview may be of different moments, but never of      *)
(* different data: what separates the totals of the methods from the        *)
(* financial totals is exactly what committed between the two statements;   *)
(* every device is online, offline or unknown and has its bay; statuses     *)
(* exhaust the payments; a failed program stays counted.                    *)
(***************************************************************************)
BlocksAgreeUpToCommits ==
  \A r \in Overviews :
    answer[r] # None /\ pc[r] = "done" =>
      LET org == answer[r][1]
          dev == answer[r][2]
          fin == answer[r][3]
          met == answer[r][4]
          new == CommittedBetween(r)
          ok  == {p \in new : paid[p].status = "SUCCESS"}
      IN  /\ dev.online + dev.offline + dev.unknown = dev.total
          /\ dev.total = org.bays
          /\ fin.success + fin.failed + fin.pending + fin.cancelled = fin.total
          /\ SumOf(met, "total") = fin.total + Cardinality(new)
          /\ SumOf(met, "success") = fin.success + Cardinality(ok)
          /\ SumOf(met, "amount") = fin.gross + Total([p \in ok |-> paid[p].amount], ok)
          /\ answer[r][5] <= failed_execution_count(ask[r])

(***************************************************************************)
(* The rows the seed wrote by arithmetic, the rows added since and the      *)
(* requests of the load scripts and of the correctness driver belong        *)
(* together (DatasetServes): a refusal that a run reports is the program's  *)
(* and not the fixture's, and every payment is in the same company by its   *)
(* station, its device and its program.                                     *)
(***************************************************************************)
FixturesServeTheRuns ==
  /\ DatasetServes
  /\ \A p \in DOMAIN paid :
       /\ devices[paid[p].device].station = paid[p].station
       /\ programs[paid[p].program].company = CompanyOf(paid[p].device)

\* A request that holds a lock or a connection never waits for a connection,
\* so requests that wait for the pool wait only for requests that can finish.
HoldersNeverQueue ==
  \A r \in Requests : Waiting(r) => conns[r] = 0 /\ \A k \in Keys : owner[k] # r

\* Every request ends, though waiters of one key may hold every connection,
\* and though sessions end by refusals and errors.
EveryRequestEnds ==
  \A r \in Requests : pc[r] # "idle" ~> pc[r] = "done"
=============================================================================
