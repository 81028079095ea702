------------------------------ MODULE Dataset ------------------------------
(***************************************************************************)
(* The rows db/seed/seed.py writes, as functions of the sizes of a profile, *)
(* and the requests the load scripts and the correctness driver send to     *)
(* them.  Both derive ids from the sizes by arithmetic of their own, in SQL *)
(* and in JavaScript; nothing but this arithmetic makes the device, the     *)
(* program and the code of a request belong together.                       *)
(*                                                                          *)
(* A table is a function from ids to rows.  Keys, hashes and names are      *)
(* injective functions of the id and are left out.                          *)
(***************************************************************************)
EXTENDS PaymentGuards, FiniteSets

CONSTANTS
  Companies, Stations, Devices, SeedPayments,  \* sizes of the profile
  MinFixtures,      \* least number of QR codes and of wallets (100 in the code)
  MinCommands       \* least number of commands (10 in the code)

\* The published profiles, as << companies, stations, devices, payments >>.
Profiles ==
  [D1 |-> << 10, 50, 500, 100000 >>,
   D2 |-> << 50, 500, 5000, 1000000 >>,
   D3 |-> << 500, 5000, 50000, 1000000 >>]

AtLeast(low, n) == IF n < low THEN low ELSE n

Fixtures == AtLeast(MinFixtures, Devices \div 5)
SeedCommands == AtLeast(MinCommands, Devices \div 10)

\* The sizes for which the arithmetic works: every published profile is one.
SizeAssumption(c, s, d, p, commands, fixtures) ==
  /\ {c, s, d, p, commands, fixtures} \subseteq Nat \ {0}
  /\ s % c = 0
  /\ d % s = 0
  /\ commands % s = 0
  /\ commands + fixtures <= d
  /\ commands <= p

ASSUME DatasetAssumption ==
  SizeAssumption(Companies, Stations, Devices, SeedPayments, SeedCommands, Fixtures)

\* The card UIDs of the fixtures, all of them well formed.
FixtureUid == "AABBCCDD"

\* SQL NULL is neither a number nor a UID.
ASSUME NullIsNoValue == None \notin Int \cup {FixtureUid}

ASSUME PublishedProfilesAreUsable ==
  \A name \in DOMAIN Profiles :
    LET p == Profiles[name]
    IN  SizeAssumption(p[1], p[2], p[3], p[4],
                       AtLeast(10, p[3] \div 10), AtLeast(100, p[3] \div 5))
-----------------------------------------------------------------------------
(* seed.py: round robin over the owners.                                    *)

RoundRobin(g, n) == ((g - 1) % n) + 1

FirstProgram(company) == ((company - 1) * 3) + 1

stations == [g \in 1 .. Stations |-> [company |-> RoundRobin(g, Companies)]]

devices == [g \in 1 .. Devices |-> [station |-> RoundRobin(g, Stations), status |-> "ACTIVE"]]

CompanyOf(d) == stations[devices[d].station].company

programs ==
  [g \in 1 .. 3 * Companies |->
     [company |-> ((g - 1) \div 3) + 1, price |-> 1000 + ((g - 1) % 3) * 500]]

entitlements == {<< d, FirstProgram(CompanyOf(d)) >> : d \in DOMAIN devices}

wash_bays == [d \in DOMAIN devices |-> [station |-> devices[d].station, device |-> d]]

\* Mutation: the codes follow the companies, not the stations.
qrStationByCompany(g) == RoundRobin(g, Companies)

qrStation(g) == RoundRobin(g, Stations)

qr_codes ==
  [g \in 1 .. Fixtures |->
     LET company == stations[qrStation(g)].company
     IN  [station |-> qrStation(g), company |-> company,
          program |-> FirstProgram(company), usage_limit |-> 1, usage_count |-> 0,
          status |-> "ACTIVE"]]

rf_cards ==
  [g \in 1 .. Fixtures |-> [company |-> RoundRobin(g, Companies), status |-> "ACTIVE"]]

rf_wallets == [g \in DOMAIN rf_cards |-> [rf_card |-> g, balance |-> 1000]]

SeedMethod(id) == CASE id % 3 = 0 -> "CARD" [] id % 3 = 1 -> "QR" [] OTHER -> "RF_CARD"

seedPayments ==
  [id \in 1 .. SeedPayments |->
     LET station == RoundRobin(id, Stations)
     IN  [device |-> RoundRobin(id, Devices), station |-> station,
          program |-> (stations[station].company - 1) * 3 + ((id - 1) % 3) + 1,
          method |-> SeedMethod(id),
          amount |-> 1000 + (id % 20) * 100,
          status |-> IF id % 20 = 0 THEN "FAILED" ELSE "SUCCESS"]]

\* The join drops an execution without its payment.
seedExecutions ==
  [g \in 1 .. SeedCommands \cap DOMAIN seedPayments |->
     [payment |-> g, device |-> seedPayments[g].device, wash_bay |-> seedPayments[g].device,
      program |-> seedPayments[g].program, status |-> "CREATED"]]

seedCommands ==
  [g \in DOMAIN seedExecutions |->
     [device |-> seedExecutions[g].device, execution |-> g, status |-> "PENDING"]]

\* What the sequences give out next, as setval leaves them; the other tables
\* written with explicit ids have no sequence.
NextId ==
  [payments |-> AtLeast(1, SeedPayments) + 1,
   executions |-> AtLeast(1, SeedCommands) + 1,
   commands |-> AtLeast(1, SeedCommands) + 1]
-----------------------------------------------------------------------------
(* The requests: load/common.js and its callers, correctness_driver.py.     *)

commandFixtureCount == AtLeast(MinCommands, Devices \div 10)

paymentDevices == {commandFixtureCount + 1 + x : x \in 0 .. Devices - commandFixtureCount - 1}

contentionIndexes == 1 .. AtLeast(MinFixtures, Devices \div 5)

contentionDeviceId(i) == commandFixtureCount + i

stationProgramId(d) ==
  LET stationId == ((d - 1) % Stations) + 1
      companyId == ((stationId - 1) % Companies) + 1
  IN  ((companyId - 1) * 3) + 1

\* "card" is the fixture whose UID the body names; every such UID parses.
Body(method, program, qr, card) ==
  [method |-> method, program |-> program # None, target |-> program, version |-> 1,
   price |-> IF method = "QR" THEN None ELSE 1000, qr |-> qr,
   rf |-> IF card = None THEN None ELSE FixtureUid, card |-> card,
   scenario |-> "TEST_SUCCESS"]

\* command-lifecycle.js: the device that handles a command.
lifecycleDevice(command) == command

\* << device, body >>: payment-card.js and the two contention scripts.
LoadRequests ==
  {<< d, Body("CARD", stationProgramId(d), None, None) >> : d \in paymentDevices}
  \cup {<< contentionDeviceId(i), Body("QR", None, i, None) >> : i \in contentionIndexes}
  \cup {<< contentionDeviceId(i),
           Body("RF_CARD", stationProgramId(contentionDeviceId(i)), None, i) >> :
          i \in contentionIndexes}

DriverRequests ==
  {<< 1, Body("CARD", 1, None, None) >>, << 1, Body("QR", None, 1, None) >>,
   << 1, Body("RF_CARD", 1, None, 1) >>}

\* prepare_device ends the executions of bay 1.
DriverBusy(d) ==
  \E e \in DOMAIN seedExecutions : seedExecutions[e].wash_bay = d /\ d # 1

\* prepare_scenario_fixture sets last_seen_at and deletes the maintenance
\* windows, as prepare_device does, and leaves the executions alone.
LoadBusy(d) == \E e \in DOMAIN seedExecutions : seedExecutions[e].wash_bay = d

\* What the guards see of device d for body b.
FactsOf(d, b, busy) ==
  LET target == IF b.method = "QR" THEN qr_codes[b.qr].program ELSE b.target
  IN  [station |-> devices[d].station \in DOMAIN stations, lastSeenAge |-> 0,
       bay |-> wash_bays[d].device = d, maintenance |-> FALSE,
       published |-> 1, acknowledged |-> 1, busy |-> busy,
       programActive |-> programs[target].company = CompanyOf(d),
       entitled |-> << d, target >> \in entitlements, methodEnabled |-> TRUE,
       price |-> programs[target].price,
       qrHere |-> /\ b.qr # None
                  /\ qr_codes[b.qr].company = CompanyOf(d)
                  /\ qr_codes[b.qr].station = devices[d].station]

\* The method's own conditions, for the first request to a code or a wallet
\* in the dates of the seed: codes and cards are valid to the end of 2027, and
\* codes from 2026-08-31 on.
Pays(d, b) ==
  CASE b.method = "CARD"    -> CardOutcome(b.scenario)[1] = "SUCCESS"
    [] b.method = "QR"      -> /\ qr_codes[b.qr].status = "ACTIVE"
                               /\ qr_codes[b.qr].usage_count < qr_codes[b.qr].usage_limit
    [] b.method = "RF_CARD" -> /\ rf_cards[b.card].status = "ACTIVE"
                               /\ rf_cards[b.card].company = CompanyOf(d)
                               /\ rf_wallets[b.card].balance >= programs[b.target].price

Succeeds(d, b, busy) ==
  /\ PyRefusal(FactsOf(d, b, busy), b) = Admitted
  /\ GoRefusal(FactsOf(d, b, busy), b) = Admitted
  /\ MethodRefusal(b) = Admitted
  /\ Pays(d, b)
-----------------------------------------------------------------------------
(* What the dataset owes to its users.                                      *)

\* A payment, its device, its program, its execution and its command belong
\* to one station and one company, along every path of foreign keys.
RowsAgree ==
  /\ \A p \in DOMAIN seedPayments :
       /\ devices[seedPayments[p].device].station = seedPayments[p].station
       /\ programs[seedPayments[p].program].company = CompanyOf(seedPayments[p].device)
  /\ \A e \in DOMAIN seedExecutions :
       /\ seedExecutions[e].device = seedPayments[seedExecutions[e].payment].device
       /\ wash_bays[seedExecutions[e].wash_bay].device = seedExecutions[e].device
  /\ \A c \in DOMAIN seedCommands : seedCommands[c].device = lifecycleDevice(c)
  /\ \A q \in DOMAIN qr_codes :
       programs[qr_codes[q].program].company = qr_codes[q].company

\* No id the application inserts next exists already.
NextIdsAreFree ==
  /\ NextId.payments \notin DOMAIN seedPayments
  /\ NextId.executions \notin DOMAIN seedExecutions
  /\ NextId.commands \notin DOMAIN seedCommands

\* A bay runs one program at a time, as the bay guard of payments keeps it.
OneExecutionPerBay ==
  \A e, f \in DOMAIN seedExecutions :
    seedExecutions[e].wash_bay = seedExecutions[f].wash_bay => e = f

\* The first request of each fixture succeeds in both stacks.
RequestsSucceed ==
  /\ \A r \in LoadRequests : Succeeds(r[1], r[2], LoadBusy(r[1]))
  /\ \A r \in DriverRequests : Succeeds(r[1], r[2], DriverBusy(r[1]))

\* The dataset serves its users: its rows agree, new rows fit in, and the
\* payments sent to unused codes and wallets are admitted and paid, in the
\* dates of the seed.
DatasetServes == RowsAgree /\ NextIdsAreFree /\ OneExecutionPerBay /\ RequestsSucceed
=============================================================================
