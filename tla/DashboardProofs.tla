--------------------------- MODULE DashboardProofs ---------------------------
(***************************************************************************)
(* Dashboard, proved for any number of requests and keys, for a pool of any *)
(* size and for every size of the dataset: whoever waits for a connection   *)
(* holds nothing others wait for; the fixtures serve the runs; the blocks   *)
(* of an overview differ by what committed between them.                    *)
(***************************************************************************)
EXTENDS Dashboard, FiniteSums, SequenceTheorems

(***************************************************************************)
(* A request has at most one connection, and one that owns a key's lock has *)
(* it: its transaction is open.  The lock is taken on a connection, and the *)
(* step that gives the connection back frees the lock.                      *)
(***************************************************************************)
PoolTypes ==
  /\ pc \in [Requests -> Statements \cup {"idle", "done"}]
  /\ conns \in [Requests -> {0, 1}]
  /\ owner \in [Keys -> Payers \cup {None}]

OwnersAreConnected ==
  \A k \in Keys, r \in Payers : owner[k] = r => pc[r] \in {"write", "commit"} /\ conns[r] = 1

PoolInv == PoolTypes /\ OwnersAreConnected

\* A step that leaves locks alone and takes no connection from an owner.
LEMMA QuietStepKeepsPool ==
  ASSUME PoolInv, PoolTypes', UNCHANGED owner,
         \A r \in Payers : \/ pc'[r] = pc[r] /\ (conns[r] = 1 => conns'[r] = 1)
                           \/ pc'[r] \in {"write", "commit"} /\ conns'[r] = conns[r]
                           \/ pc[r] \notin {"write", "commit"}
  PROVE  PoolInv'
BY DEF PoolInv, OwnersAreConnected

\* A step that ends the transaction of a request.
LEMMA EndKeepsPool ==
  ASSUME PoolInv, NEW r \in Requests, Checkin(r), Unlock(r),
         NEW step \in Statements \cup {"done"}, Go(r, step)
  PROVE  PoolInv'
<1>1. \A k \in Keys : owner'[k] = (IF owner[k] = r THEN None ELSE owner[k])
  BY DEF Unlock
<1>2. /\ \A q \in Requests \ {r} : pc'[q] = pc[q] /\ conns'[q] = conns[q]
      /\ PoolTypes'
  BY DEF PoolInv, PoolTypes, Checkin, Unlock, Go
<1>3. OwnersAreConnected'
  BY <1>1, <1>2, DashboardAssumption DEF PoolInv, OwnersAreConnected, Requests
<1> QED BY <1>2, <1>3 DEF PoolInv

\* The statements of an overview concern no lock.
LEMMA OverviewKeepsPool ==
  ASSUME PoolInv, NEW r \in Overviews, NEW step, NEW next \in Statements \cup {"done"},
         Statement(r, step, next)
  PROVE  PoolInv'
<1>1. r \notin Payers /\ r \in Requests
  BY DashboardAssumption DEF Requests
<1>2. PoolTypes' /\ UNCHANGED owner
  BY <1>1 DEF PoolInv, PoolTypes, Statement, Go, Checkin
<1>3. \A q \in Payers : pc'[q] = pc[q] /\ conns'[q] = conns[q]
  BY <1>1 DEF PoolInv, PoolTypes, Statement, Go, Checkin, Requests
<1> QED BY <1>2, <1>3, QuietStepKeepsPool

\* A lock is taken by a request that has its connection.
LEMMA LockKeepsPool ==
  ASSUME PoolInv, NEW r \in Payers, LockKey(r)
  PROVE  PoolInv'
<1>1. conns[r] = 1 /\ conns' = conns /\ r \in Requests
  BY DEF PoolInv, PoolTypes, LockKey, Waiting, Needed, Statements, Requests
<1>2. /\ KeyOf[r] \in Keys /\ pc'[r] = "write" /\ owner' = [owner EXCEPT ![KeyOf[r]] = r]
      /\ \A q \in Requests \ {r} : pc'[q] = pc[q]
  BY <1>1 DEF PoolInv, PoolTypes, LockKey, Go, Keys
<1>3. PoolTypes'
  BY <1>1, <1>2 DEF PoolInv, PoolTypes, LockKey, Go, Statements
<1>4. OwnersAreConnected'
  BY <1>1, <1>2 DEF PoolInv, PoolTypes, OwnersAreConnected, Requests
<1> QED BY <1>3, <1>4 DEF PoolInv

\* Every step of the instance.
LEMMA NextPoolInv == PoolInv /\ [Next]_vars => PoolInv'
<1> SUFFICES ASSUME PoolInv, [Next]_vars PROVE PoolInv'
  OBVIOUS
<1> USE DEF Statements
<1>1. CASE UNCHANGED vars
  BY <1>1 DEF vars, PoolInv, PoolTypes, OwnersAreConnected
<1>2. ASSUME NEW r \in Requests, Checkout(r)
      PROVE  PoolInv'
  <2>1. conns[r] = 0 /\ conns' = [conns EXCEPT ![r] = 1] /\ UNCHANGED << pc, owner >>
    <3>1. conns[r] \in {0, 1} /\ conns[r] < 1
      BY <1>2 DEF PoolInv, PoolTypes, Checkout, Waiting, Needed
    <3>2. conns[r] = 0
      BY <3>1
    <3> QED BY <1>2, <3>2 DEF Checkout
  <2>2. PoolTypes' /\ \A q \in Payers : conns[q] = 1 => conns'[q] = 1
    BY <2>1 DEF PoolInv, PoolTypes, Requests
  <2> QED BY <2>1, <2>2, QuietStepKeepsPool
<1>3. ASSUME NEW r \in Requests, Abort(r)
      PROVE  PoolInv'
  BY <1>3, EndKeepsPool DEF Abort
<1>4. ASSUME NEW r \in Overviews,
             \/ RefusePanel(r) \/ authenticate_panel(r) \/ FindCompany(r) \/ Organization(r)
             \/ DeviceBlock(r) \/ Financial(r) \/ Methods_(r) \/ Failures(r)
      PROVE  PoolInv'
  <2>1. \E step, next \in Statements \cup {"done"} : Statement(r, step, next)
    BY <1>4 DEF RefusePanel, authenticate_panel, FindCompany, Organization, DeviceBlock,
                Financial, Methods_, Failures, Block
  <2> QED BY <2>1, OverviewKeepsPool
<1>5. ASSUME NEW r \in Payers, Replay(r) \/ Commit(r)
      PROVE  PoolInv'
  <2>1. Checkin(r) /\ Unlock(r) /\ \E step \in Statements \cup {"done"} : Go(r, step)
    BY <1>5 DEF Replay, Commit
  <2> QED BY <2>1, EndKeepsPool DEF Requests
<1>6. ASSUME NEW r \in Payers, Begin(r) \/ Write(r) \/ Payload(r) \/ ArrivePayer(r)
      PROVE  PoolInv'
  <2>1. PoolTypes' /\ UNCHANGED owner
    BY <1>6 DEF PoolInv, PoolTypes, Begin, Write, Payload, ArrivePayer, Go, Checkin, Requests
  <2>2. \A q \in Payers \ {r} : pc'[q] = pc[q] /\ conns'[q] = conns[q]
    BY <1>6 DEF PoolInv, PoolTypes, Begin, Write, Payload, ArrivePayer, Go, Checkin, Requests
  <2>3. \/ pc[r] \notin {"write", "commit"}
        \/ pc'[r] \in {"write", "commit"} /\ conns'[r] = conns[r]
    BY <1>6 DEF PoolInv, PoolTypes, Begin, Write, Payload, ArrivePayer, Go, Requests
  <2> QED BY <2>1, <2>2, <2>3, QuietStepKeepsPool
<1>7. ASSUME NEW r \in Overviews, ArriveOverview(r)
      PROVE  PoolInv'
  <2>1. PoolTypes' /\ UNCHANGED << owner, conns >>
    BY <1>7 DEF PoolInv, PoolTypes, ArriveOverview, Go, Requests
  <2>2. \A q \in Payers : pc'[q] = pc[q]
    BY <1>7, DashboardAssumption DEF PoolInv, PoolTypes, ArriveOverview, Go, Requests
  <2> QED BY <2>1, <2>2, QuietStepKeepsPool
<1>8. CASE \/ \E d \in PayDevices : Heartbeat(d)
           \/ \E e \in Failing : ProgramFails(e)
           \/ Tick
  BY <1>8 DEF Heartbeat, ProgramFails, Tick, PoolInv, PoolTypes, OwnersAreConnected
<1>9. CASE Over
  BY <1>1, <1>9 DEF Over
<1>10. ASSUME NEW r \in Requests, Serve(r)
       PROVE  PoolInv'
  BY <1>2, <1>4, <1>5, <1>6, <1>10, LockKeepsPool DEF Serve
<1> QED BY <1>1, <1>3, <1>6, <1>7, <1>8, <1>9, <1>10 DEF Next

LEMMA InitPoolInv == Init => PoolInv
<1> SUFFICES ASSUME Init PROVE PoolInv
  OBVIOUS
<1>1. /\ pc = [r \in Requests |-> "idle"] /\ conns = [r \in Requests |-> 0]
      /\ owner = [k \in Keys |-> None]
  BY DEF Init
<1>2. PoolTypes
  BY <1>1 DEF PoolTypes
<1>3. None \notin Payers
  BY DashboardAssumption DEF Requests
<1> QED
  BY <1>1, <1>2, <1>3 DEF PoolInv, OwnersAreConnected

\* Whatever the size of the pool and the number of requests: one that waits
\* for a connection has none and owns no key, so nobody waits for it.
THEOREM WaitersHoldNothing == Spec => []HoldersNeverQueue
<1>2. PoolInv => HoldersNeverQueue
  <2> SUFFICES ASSUME PoolInv, NEW r \in Requests, Waiting(r)
               PROVE  conns[r] = 0 /\ \A k \in Keys : owner[k] # r
    BY DEF HoldersNeverQueue
  <2>1. conns[r] = 0
    BY DEF PoolInv, PoolTypes, Waiting, Needed
  <2> QED BY <2>1, DashboardAssumption DEF PoolInv, PoolTypes, OwnersAreConnected
<1> QED BY <1>2, InitPoolInv, NextPoolInv, PTL DEF Spec
-----------------------------------------------------------------------------
(***************************************************************************)
(* Remainders, as the seed's round robin needs them.                       *)
(***************************************************************************)

LEMMA Divided ==
  ASSUME NEW x \in Int, NEW n \in Nat \ {0}
  PROVE  \E q \in Int, r \in 0 .. n - 1 : x = (n * q) + r /\ x % n = r
<1>1. /\ x \div n \in Int /\ x % n \in 0 .. n - 1
      /\ x = (n * (x \div n)) + (x % n)
  BY SMT
<1> QED
  BY <1>1

LEMMA ModIs ==
  ASSUME NEW n \in Nat \ {0}, NEW q \in Int, NEW r \in 0 .. n - 1
  PROVE  ((n * q) + r) % n = r
BY SMT

LEMMA ModOfMultiple ==
  ASSUME NEW x \in Int, NEW n \in Nat \ {0}, NEW m \in Nat \ {0}, m % n = 0
  PROVE  (x % m) % n = x % n
<1>1. PICK a \in Int : m = n * a
  <2>1. \E q \in Int, r \in 0 .. n - 1 : m = (n * q) + r /\ m % n = r
    BY Divided
  <2> QED
    BY <2>1
<1>2. PICK b \in Int, r \in 0 .. m - 1 : x = (m * b) + r /\ x % m = r
  BY Divided
<1>3. PICK c \in Int, s \in 0 .. n - 1 : r = (n * c) + s /\ r % n = s
  <2>1. r \in Int
    OBVIOUS
  <2> QED
    BY <2>1, Divided
<1>4. x = (n * ((a * b) + c)) + s
  <2>1. /\ x = ((n * a) * b) + ((n * c) + s)
        /\ {a, b, c, s, n} \subseteq Int
    BY <1>1, <1>2, <1>3
  <2>2. (n * ((a * b) + c)) + s = ((n * a) * b) + ((n * c) + s)
    BY ONLY <2>1, SMT
  <2> QED
    BY <2>1, <2>2
<1>5. PICK q \in Int : q = (a * b) + c
  OBVIOUS
<1>6. x = (n * q) + s
  BY <1>4, <1>5
<1>7. x % n = s
  BY <1>6, ModIs
<1> QED
  BY <1>2, <1>3, <1>7

LEMMA ModOfSum ==
  ASSUME NEW x \in Int, NEW n \in Nat \ {0}, NEW m \in Nat, m % n = 0
  PROVE  (m + x) % n = x % n
<1>1. PICK a \in Int : m = n * a
  <2>1. \E q \in Int, r \in 0 .. n - 1 : m = (n * q) + r /\ m % n = r
    BY Divided
  <2> QED
    BY <2>1
<1>2. PICK b \in Int, r \in 0 .. n - 1 : x = (n * b) + r /\ x % n = r
  BY Divided
<1>3. m + x = (n * (a + b)) + r /\ a + b \in Int
  BY <1>1, <1>2
<1>5. (m + x) % n = r
  BY <1>2, <1>3, ModIs
<1> QED
  BY <1>2, <1>5

LEMMA ModOfSmall ==
  ASSUME NEW n \in Nat \ {0}, NEW x \in 0 .. n - 1
  PROVE  x % n = x
BY SMT
-----------------------------------------------------------------------------
(***************************************************************************)
(* The dataset, for sizes that satisfy SizeAssumption: RoundRobin repeated *)
(* over companies, stations and devices gives each device one company by   *)
(* every path, and the requests of the scripts pass both chains of guards. *)
(***************************************************************************)

LEMMA Sizes ==
  /\ Companies \in Nat \ {0} /\ Stations \in Nat \ {0} /\ Devices \in Nat \ {0}
  /\ SeedPayments \in Nat \ {0} /\ SeedCommands \in Nat \ {0} /\ Fixtures \in Nat \ {0}
  /\ Stations % Companies = 0 /\ Devices % Stations = 0 /\ SeedCommands % Stations = 0
  /\ SeedCommands + Fixtures <= Devices /\ SeedCommands <= SeedPayments
BY DatasetAssumption DEF SizeAssumption

LEMMA RoundRobinIsIn ==
  ASSUME NEW g \in Nat \ {0}, NEW n \in Nat \ {0}
  PROVE  RoundRobin(g, n) \in 1 .. n
<1> PICK x \in Int : x = g - 1
  OBVIOUS
<1>1. PICK q \in Int, r \in 0 .. n - 1 : x = (n * q) + r /\ x % n = r
  BY Divided
<1>2. (g - 1) % n \in 0 .. n - 1
  BY <1>1
<1> QED
  BY ONLY <1>2, n \in Nat \ {0} DEF RoundRobin

LEMMA RoundRobinTwice ==
  ASSUME NEW g \in Nat \ {0}, NEW n \in Nat \ {0}, NEW m \in Nat \ {0}, m % n = 0
  PROVE  RoundRobin(RoundRobin(g, m), n) = RoundRobin(g, n)
<1> PICK x \in Int : x = g - 1
  OBVIOUS
<1>1. x % m \in Int
  BY Divided
<1>2. (RoundRobin(g, m) - 1) = x % m
  BY <1>1 DEF RoundRobin
<1>3. (x % m) % n = x % n
  BY ModOfMultiple
<1> QED
  BY <1>2, <1>3 DEF RoundRobin

LEMMA RoundRobinOfSmall ==
  ASSUME NEW n \in Nat \ {0}, NEW g \in 1 .. n
  PROVE  RoundRobin(g, n) = g
<1>1. g - 1 \in 0 .. n - 1
  OBVIOUS
<1>2. (g - 1) % n = g - 1
  BY <1>1, ModOfSmall
<1> QED
  BY <1>2 DEF RoundRobin

LEMMA RoundRobinOfSum ==
  ASSUME NEW g \in Nat \ {0}, NEW n \in Nat \ {0}, NEW m \in Nat, m % n = 0
  PROVE  RoundRobin(m + g, n) = RoundRobin(g, n)
<1> PICK x \in Int : x = g - 1
  OBVIOUS
<1>1. (m + x) % n = x % n
  BY ModOfSum
<1>2. (m + g) - 1 = m + x
  OBVIOUS
<1> QED
  BY <1>1, <1>2 DEF RoundRobin

LEMMA StationOfDevice ==
  ASSUME NEW d \in DOMAIN devices
  PROVE  /\ d \in Nat \ {0}
         /\ devices[d].station = RoundRobin(d, Stations)
         /\ devices[d].station \in DOMAIN stations
         /\ CompanyOf(d) = RoundRobin(d, Companies)
         /\ CompanyOf(d) \in 1 .. Companies
         /\ wash_bays[d].station = devices[d].station /\ wash_bays[d].device = d
         /\ d \in DOMAIN wash_bays
<1>1. d \in Nat \ {0} /\ devices[d].station = RoundRobin(d, Stations)
  BY Sizes DEF devices
<1>2. RoundRobin(d, Stations) \in 1 .. Stations
  BY <1>1, Sizes, RoundRobinIsIn
<1>3. CompanyOf(d) = RoundRobin(RoundRobin(d, Stations), Companies)
  BY <1>1, <1>2 DEF CompanyOf, stations
<1>4. CompanyOf(d) = RoundRobin(d, Companies)
  BY <1>1, <1>3, Sizes, RoundRobinTwice
<1>5. RoundRobin(d, Companies) \in 1 .. Companies
  BY <1>1, Sizes, RoundRobinIsIn
<1> QED
  BY <1>1, <1>2, <1>4, <1>5 DEF stations, wash_bays

\* The programs of a company are three in a row, from 1000 up by 500.
LEMMA ProgramsOfCompany ==
  ASSUME NEW c \in 1 .. Companies, NEW k \in 0 .. 2
  PROVE  LET g == ((c - 1) * 3) + k + 1
         IN  g \in DOMAIN programs /\ programs[g].company = c /\ programs[g].price = 1000 + (k * 500)
<1> PICK g : g = ((c - 1) * 3) + k + 1
  OBVIOUS
<1>1. g \in 1 .. 3 * Companies /\ (g - 1) \div 3 = c - 1 /\ (g - 1) % 3 = k
  BY Sizes
<1>2. programs[g] = [company |-> ((g - 1) \div 3) + 1, price |-> 1000 + ((g - 1) % 3) * 500]
  BY <1>1 DEF programs
<1>3. programs[g].company = c /\ programs[g].price = 1000 + (k * 500)
  BY <1>1, <1>2
<1>4. DOMAIN programs = 1 .. 3 * Companies
  BY DEF programs
<1> QED
  BY <1>1, <1>3, <1>4

LEMMA FirstProgramOfCompany ==
  ASSUME NEW c \in 1 .. Companies
  PROVE  /\ FirstProgram(c) \in DOMAIN programs
         /\ programs[FirstProgram(c)].company = c /\ programs[FirstProgram(c)].price = 1000
<1>1. FirstProgram(c) = ((c - 1) * 3) + 0 + 1
  BY DEF FirstProgram
<1> QED
  BY <1>1, ProgramsOfCompany

LEMMA RowOfSeedPayment ==
  ASSUME NEW p \in DOMAIN seedPayments
  PROVE  /\ p \in 1 .. SeedPayments
         /\ seedPayments[p].device = RoundRobin(p, Devices)
         /\ seedPayments[p].device \in DOMAIN devices
         /\ seedPayments[p].station = RoundRobin(p, Stations)
         /\ seedPayments[p].station \in DOMAIN stations
         /\ devices[seedPayments[p].device].station = seedPayments[p].station
         /\ seedPayments[p].program \in DOMAIN programs
         /\ programs[seedPayments[p].program].company = CompanyOf(seedPayments[p].device)
         /\ seedPayments[p].status \in {"SUCCESS", "FAILED"}
         /\ seedPayments[p].method \in Methods
         /\ seedPayments[p].amount \in Nat
<1>1. p \in Nat \ {0} /\ p \in 1 .. SeedPayments
  BY Sizes DEF seedPayments
<1> PICK s : s = RoundRobin(p, Stations)
  OBVIOUS
<1> PICK k : k = (p - 1) % 3
  OBVIOUS
<1>2. /\ seedPayments[p].device = RoundRobin(p, Devices) /\ seedPayments[p].station = s
      /\ seedPayments[p].program = (stations[s].company - 1) * 3 + k + 1
  BY <1>1 DEF seedPayments
<1>3. RoundRobin(p, Devices) \in DOMAIN devices /\ s \in 1 .. Stations /\ s \in DOMAIN stations
  BY <1>1, Sizes, RoundRobinIsIn DEF devices, stations
<1>4. devices[RoundRobin(p, Devices)].station = RoundRobin(RoundRobin(p, Devices), Stations)
  BY <1>3, StationOfDevice
<1>5. devices[RoundRobin(p, Devices)].station = s
  BY <1>1, <1>4, Sizes, RoundRobinTwice
<1>6. CompanyOf(RoundRobin(p, Devices)) = stations[s].company /\ stations[s].company \in 1 .. Companies
  BY <1>3, <1>5, StationOfDevice DEF CompanyOf
<1>7. k \in 0 .. 2
  BY <1>1
<1>8. /\ seedPayments[p].program \in DOMAIN programs
      /\ programs[seedPayments[p].program].company = stations[s].company
  BY <1>2, <1>6, <1>7, ProgramsOfCompany
<1>9. /\ seedPayments[p].status \in {"SUCCESS", "FAILED"} /\ seedPayments[p].method \in Methods
      /\ seedPayments[p].amount \in Nat
  <2>1. /\ seedPayments[p].status = (IF p % 20 = 0 THEN "FAILED" ELSE "SUCCESS")
        /\ seedPayments[p].method = SeedMethod(p) /\ seedPayments[p].amount = 1000 + (p % 20) * 100
    BY <1>1 DEF seedPayments
  <2>2. p % 20 \in Nat
    BY <1>1
  <2> QED
    BY <2>1, <2>2 DEF SeedMethod, Methods
<1> QED
  BY <1>1, <1>2, <1>3, <1>5, <1>6, <1>8, <1>9

LEMMA RowOfSeedExecution ==
  ASSUME NEW e \in DOMAIN seedExecutions
  PROVE  /\ e \in 1 .. SeedCommands /\ e \in DOMAIN seedPayments
         /\ seedExecutions[e].payment = e
         /\ seedExecutions[e].device = e /\ seedPayments[e].device = e
         /\ seedExecutions[e].wash_bay = e /\ e \in DOMAIN devices
<1>1. e \in 1 .. SeedCommands /\ e \in DOMAIN seedPayments
  BY DEF seedExecutions
<1>2. e \in 1 .. Devices
  BY <1>1, Sizes
<1>3. seedPayments[e].device = e
  BY <1>1, <1>2, Sizes, RowOfSeedPayment, RoundRobinOfSmall
<1> QED
  BY <1>1, <1>2, <1>3 DEF seedExecutions, devices

LEMMA RowOfQrCode ==
  ASSUME NEW q \in DOMAIN qr_codes
  PROVE  /\ q \in 1 .. Fixtures
         /\ qr_codes[q].station = RoundRobin(q, Stations)
         /\ qr_codes[q].company = RoundRobin(q, Companies)
         /\ qr_codes[q].company \in 1 .. Companies
         /\ qr_codes[q].program = FirstProgram(qr_codes[q].company)
         /\ qr_codes[q].usage_limit = 1 /\ qr_codes[q].usage_count = 0
         /\ qr_codes[q].status = "ACTIVE"
<1>1. q \in 1 .. Fixtures /\ q \in Nat \ {0}
  BY Sizes DEF qr_codes
<1>2. RoundRobin(q, Stations) \in 1 .. Stations /\ RoundRobin(q, Companies) \in 1 .. Companies
  BY <1>1, Sizes, RoundRobinIsIn
<1>3. stations[qrStation(q)].company = RoundRobin(q, Companies)
  BY <1>1, <1>2, Sizes, RoundRobinTwice DEF stations, qrStation
<1> QED
  BY <1>1, <1>2, <1>3 DEF qr_codes, qrStation

LEMMA SeedRowsAgree == RowsAgree
<1>1. ASSUME NEW p \in DOMAIN seedPayments
      PROVE  /\ devices[seedPayments[p].device].station = seedPayments[p].station
             /\ programs[seedPayments[p].program].company = CompanyOf(seedPayments[p].device)
  BY RowOfSeedPayment
<1>2. ASSUME NEW e \in DOMAIN seedExecutions
      PROVE  /\ seedExecutions[e].device = seedPayments[seedExecutions[e].payment].device
             /\ wash_bays[seedExecutions[e].wash_bay].device = seedExecutions[e].device
  BY RowOfSeedExecution, StationOfDevice
<1>3. ASSUME NEW c \in DOMAIN seedCommands PROVE seedCommands[c].device = lifecycleDevice(c)
  BY <1>3, RowOfSeedExecution DEF seedCommands, lifecycleDevice
<1>4. ASSUME NEW q \in DOMAIN qr_codes
      PROVE  programs[qr_codes[q].program].company = qr_codes[q].company
  BY RowOfQrCode, FirstProgramOfCompany
<1> QED
  BY <1>1, <1>2, <1>3, <1>4 DEF RowsAgree

LEMMA NewIdsAreFree == NextIdsAreFree /\ OneExecutionPerBay
<1>1. OneExecutionPerBay
  BY RowOfSeedExecution DEF OneExecutionPerBay
<1>2. NextId.payments = SeedPayments + 1 /\ NextId.executions = SeedCommands + 1
      /\ NextId.commands = SeedCommands + 1
  BY Sizes DEF NextId, AtLeast
<1>3. NextId.payments \notin DOMAIN seedPayments
  BY <1>2, Sizes DEF seedPayments
<1>4. NextId.executions \notin DOMAIN seedExecutions
  BY <1>2, Sizes DEF seedExecutions
<1>5. NextId.commands \notin DOMAIN seedCommands
  BY <1>2, Sizes DEF seedCommands, seedExecutions
<1> QED
  BY <1>1, <1>3, <1>4, <1>5 DEF NextIdsAreFree

\* Two chains of checks, none of which refuses, are one.
Mild(checks) == \A j \in DOMAIN checks : ~checks[j].refuses

LEMMA MildChecks ==
  ASSUME NEW f, NEW b,
         f.station, f.lastSeenAge = 0, f.bay, ~f.maintenance, f.published = 1, f.acknowledged = 1,
         ~f.busy, f.programActive, f.entitled, f.methodEnabled, b.version = 1,
         b.method = "QR" => b.qr # None /\ f.qrHere,
         b.method # "QR" => b.program /\ b.price = f.price /\ b.price # None,
         MethodRefusal(b) = Admitted
  PROVE  PyRefusal(f, b) = Admitted /\ GoRefusal(f, b) = Admitted
<1>1. None # 0 /\ None # 1
  BY NullIsNoValue
<1>2. /\ \A i \in 1 .. 6 : ~DeviceChecks(f, b)[i].refuses
      /\ \A i \in 1 .. 2 : ~PyTargetChecks(f, b)[i].refuses
      /\ \A i \in 1 .. 3 : ~GoTargetChecks(f, b)[i].refuses
      /\ \A i \in 1 .. 3 : ~ProgramChecks(f)[i].refuses
      /\ ~PyPriceCheck(f, b).refuses /\ ~GoPriceCheck(f, b).refuses
  <2>1. LET D == DeviceChecks(f, b)
        IN  /\ D[1].refuses <=> ~f.station
            /\ D[2].refuses <=> f.lastSeenAge = None \/ f.lastSeenAge > 120
            /\ D[3].refuses <=> ~f.bay
            /\ D[4].refuses <=> f.maintenance
            /\ D[5].refuses <=> \/ f.published = None
                              \/ f.published # b.version
                              \/ f.acknowledged # f.published
            /\ D[6].refuses <=> f.busy
    BY DEF DeviceChecks, Check, OfflineAfter
  <2>2. /\ PyTargetChecks(f, b)[1].refuses <=> b.method = "QR" /\ (b.qr = None \/ ~f.qrHere)
        /\ PyTargetChecks(f, b)[2].refuses <=> b.method # "QR" /\ ~b.program
    BY DEF PyTargetChecks, Check
  <2>3. /\ GoTargetChecks(f, b)[1].refuses <=> b.method = "QR" /\ b.qr = None
        /\ GoTargetChecks(f, b)[2].refuses <=> b.method = "QR" /\ ~f.qrHere
        /\ GoTargetChecks(f, b)[3].refuses <=> b.method # "QR" /\ ~b.program
    BY DEF GoTargetChecks, Check
  <2>4. /\ ProgramChecks(f)[1].refuses <=> ~f.programActive
        /\ ProgramChecks(f)[2].refuses <=> ~f.entitled
        /\ ProgramChecks(f)[3].refuses <=> ~f.methodEnabled
    BY DEF ProgramChecks, Check
  <2>5. ~PyPriceCheck(f, b).refuses /\ ~GoPriceCheck(f, b).refuses
    BY DEF PyPriceCheck, GoPriceCheck, Check
  <2>6. \A i \in 1 .. 6 : ~DeviceChecks(f, b)[i].refuses
    <3>1. ~(f.lastSeenAge = None \/ f.lastSeenAge > 120)
      BY <1>1
    <3>2. ~(f.published = None \/ f.published # b.version \/ f.acknowledged # f.published)
      BY <1>1
    <3>3. \A i \in 1 .. 6 : i = 1 \/ i = 2 \/ i = 3 \/ i = 4 \/ i = 5 \/ i = 6
      OBVIOUS
    <3> QED
      BY <2>1, <3>1, <3>2, <3>3, Zenon
  <2>7. \A i \in 1 .. 2 : i = 1 \/ i = 2
    OBVIOUS
  <2>8. \A i \in 1 .. 3 : i = 1 \/ i = 2 \/ i = 3
    OBVIOUS
  <2>9. \A i \in 1 .. 2 : ~PyTargetChecks(f, b)[i].refuses
    BY <2>2, <2>7, Zenon
  <2>10. \A i \in 1 .. 3 : ~GoTargetChecks(f, b)[i].refuses /\ ~ProgramChecks(f)[i].refuses
    BY <2>3, <2>4, <2>8, Zenon
  <2> QED
    BY <2>5, <2>6, <2>9, <2>10
<1> DEFINE py == DeviceChecks(f, b) \o PyTargetChecks(f, b) \o ProgramChecks(f) \o << PyPriceCheck(f, b) >>
           go == DeviceChecks(f, b) \o GoTargetChecks(f, b) \o ProgramChecks(f) \o << GoPriceCheck(f, b) >>
<1>3. Mild(py)
  <2> USE DEF DeviceChecks, PyTargetChecks, ProgramChecks
  <2>1. DOMAIN py = 1 .. 12
    OBVIOUS
  <2>2. \A i \in 1 .. 6 : py[i] = DeviceChecks(f, b)[i]
    OBVIOUS
  <2>3. \A i \in 7 .. 8 : py[i] = PyTargetChecks(f, b)[i - 6]
    OBVIOUS
  <2>4. \A i \in 9 .. 11 : py[i] = ProgramChecks(f)[i - 8]
    OBVIOUS
  <2>5. py[12] = PyPriceCheck(f, b)
    OBVIOUS
  <2> HIDE DEF py, DeviceChecks, PyTargetChecks, ProgramChecks
  <2> QED
    BY <1>2, <2>1, <2>2, <2>3, <2>4, <2>5 DEF Mild
<1>4. Mild(go)
  <2> USE DEF DeviceChecks, GoTargetChecks, ProgramChecks
  <2>1. DOMAIN go = 1 .. 13
    OBVIOUS
  <2>2. \A i \in 1 .. 6 : go[i] = DeviceChecks(f, b)[i]
    OBVIOUS
  <2>3. \A i \in 7 .. 9 : go[i] = GoTargetChecks(f, b)[i - 6]
    OBVIOUS
  <2>4. \A i \in 10 .. 12 : go[i] = ProgramChecks(f)[i - 9]
    OBVIOUS
  <2>5. go[13] = GoPriceCheck(f, b)
    OBVIOUS
  <2> HIDE DEF go, DeviceChecks, GoTargetChecks, ProgramChecks
  <2> QED
    BY <1>2, <2>1, <2>2, <2>3, <2>4, <2>5 DEF Mild
<1> QED
  BY <1>3, <1>4 DEF PyRefusal, GoRefusal, FirstRefusal, Mild

LEMMA ServedRequest ==
  ASSUME NEW d \in DOMAIN devices, NEW m \in Methods, NEW program, NEW qr, NEW card, NEW busy, ~busy,
         IF m = "QR"
         THEN /\ qr \in DOMAIN qr_codes
              /\ qr_codes[qr].company = CompanyOf(d)
              /\ qr_codes[qr].station = devices[d].station
         ELSE program = FirstProgram(CompanyOf(d)),
         m = "RF_CARD" => card \in DOMAIN rf_cards /\ rf_cards[card].company = CompanyOf(d)
  PROVE  Succeeds(d, Body(m, program, qr, card), busy)
<1> PICK b : b = Body(m, program, qr, card)
  OBVIOUS
<1> PICK f : f = FactsOf(d, b, busy)
  OBVIOUS
<1> PICK c : c = CompanyOf(d)
  OBVIOUS
<1> PICK t : t = FirstProgram(c)
  OBVIOUS
<1>1. /\ c \in 1 .. Companies /\ devices[d].station \in DOMAIN stations /\ wash_bays[d].device = d
      /\ t \in DOMAIN programs /\ programs[t].company = c /\ programs[t].price = 1000
      /\ << d, t >> \in entitlements /\ t \in Int
  <2>1. /\ c \in 1 .. Companies /\ devices[d].station \in DOMAIN stations /\ wash_bays[d].device = d
    BY StationOfDevice
  <2>2. t \in DOMAIN programs /\ programs[t].company = c /\ programs[t].price = 1000
    BY <2>1, FirstProgramOfCompany
  <2>3. << d, t >> \in entitlements
    BY DEF entitlements
  <2>4. t \in Int
    BY <2>1, Sizes DEF FirstProgram
  <2> QED
    BY <2>1, <2>2, <2>3, <2>4
<1>2. /\ b.method = m /\ b.target = program /\ b.qr = qr /\ b.card = card /\ b.version = 1
      /\ b.price = IF m = "QR" THEN None ELSE 1000
      /\ b.rf = IF card = None THEN None ELSE FixtureUid
      /\ b.scenario = "TEST_SUCCESS"
  BY DEF Body
<1>13. b.program <=> program # None
  BY DEF Body
<1>3. m = "QR" => qr \in Int /\ qr_codes[qr].program = t
                  /\ qr_codes[qr].status = "ACTIVE"
                  /\ qr_codes[qr].usage_count < qr_codes[qr].usage_limit
  BY RowOfQrCode
<1>4. m # "QR" => program = t /\ t # None
  BY <1>1, NullIsNoValue
<1>5. (IF b.method = "QR" THEN qr_codes[b.qr].program ELSE b.target) = t
  BY <1>2, <1>3, <1>4
<1>6. /\ f.station /\ f.lastSeenAge = 0 /\ f.bay /\ ~f.maintenance /\ f.published = 1
      /\ f.acknowledged = 1 /\ ~f.busy /\ f.programActive /\ f.entitled /\ f.methodEnabled
      /\ f.price = 1000
  <2>1. /\ f.lastSeenAge = 0 /\ f.published = 1 /\ f.acknowledged = 1 /\ f.price = programs[t].price
        /\ ~f.maintenance /\ f.methodEnabled
    BY <1>5 DEF FactsOf
  <2>2. f.station /\ f.bay /\ ~f.busy
    BY <1>1 DEF FactsOf
  <2>3. f.programActive /\ f.entitled
    BY <1>1, <1>5 DEF FactsOf
  <2> QED
    BY <1>1, <2>1, <2>2, <2>3
<1>7. m = "QR" => b.qr # None /\ f.qrHere
  BY <1>2, <1>3, NullIsNoValue DEF FactsOf
<1>8. m # "QR" => b.program /\ b.price = f.price /\ b.price # None
  BY <1>2, <1>4, <1>6, <1>13, NullIsNoValue
<1>9. m = "RF_CARD" => card \in Int /\ card # None /\ rf_wallets[card].balance = 1000
                       /\ rf_cards[card].company = c /\ rf_cards[card].status = "ACTIVE"
  BY Sizes, NullIsNoValue DEF rf_cards, rf_wallets
<1>10. MethodRefusal(b) = Admitted
  <2>1. b.method = "RF_CARD" => b.rf \notin {None, UnreadableUid}
    <3>1. FixtureUid # UnreadableUid
      BY DEF FixtureUid, UnreadableUid
    <3>2. FixtureUid # None
      BY NullIsNoValue
    <3> QED
      BY <1>2, <1>9, <3>1, <3>2
  <2>2. b.scenario \in Scenarios
    BY <1>2 DEF Scenarios
  <2> DEFINE card_ == Check(b.method = "CARD" /\ b.scenario \notin Scenarios, "INVALID_TEST_SCENARIO")
             rf_ == Check(b.method = "RF_CARD" /\ b.rf \in {None, UnreadableUid}, "INVALID_RF_UID")
  <2>3. ~card_.refuses /\ ~rf_.refuses
    <3>1. /\ card_.refuses <=> b.method = "CARD" /\ b.scenario \notin Scenarios
          /\ rf_.refuses <=> b.method = "RF_CARD" /\ b.rf \in {None, UnreadableUid}
      BY DEF Check
    <3> QED
      BY <2>1, <2>2, <3>1, Zenon
  <2> HIDE DEF card_, rf_
  <2>4. Mild(<< card_, rf_ >>)
    BY <2>3 DEF Mild
  <2>5. MethodRefusal(b) = FirstRefusal(<< card_, rf_ >>)
    BY DEF MethodRefusal, card_, rf_
  <2> QED
    BY <2>4, <2>5 DEF FirstRefusal, Mild
<1>11. Pays(d, b)
  <2>1. CASE m = "CARD"
    <3>1. CardOutcome(b.scenario) = << "SUCCESS", None >>
      BY <1>2 DEF CardOutcome
    <3>2. Pays(d, b) <=> CardOutcome(b.scenario)[1] = "SUCCESS"
      BY <1>2, <2>1 DEF Pays
    <3> QED
      BY <3>1, <3>2
  <2>2. CASE m = "QR"
    <3>1. Pays(d, b) <=> /\ qr_codes[b.qr].status = "ACTIVE"
                         /\ qr_codes[b.qr].usage_count < qr_codes[b.qr].usage_limit
      BY <1>2, <2>2 DEF Pays
    <3> QED
      BY <1>2, <1>3, <2>2, <3>1
  <2>3. CASE m = "RF_CARD"
    <3>1. Pays(d, b) <=> /\ rf_cards[b.card].status = "ACTIVE"
                         /\ rf_cards[b.card].company = CompanyOf(d)
                         /\ rf_wallets[b.card].balance >= programs[b.target].price
      BY <1>2, <2>3 DEF Pays
    <3>2. b.card = card /\ b.target = t
      BY <1>2, <1>4, <2>3
    <3> QED
      BY <1>1, <1>9, <2>3, <3>1, <3>2
  <2> QED
    BY <2>1, <2>2, <2>3 DEF Methods
<1>12. PyRefusal(f, b) = Admitted /\ GoRefusal(f, b) = Admitted
  BY <1>2, <1>6, <1>7, <1>8, <1>10, MildChecks
<1> QED
  BY <1>10, <1>11, <1>12 DEF Succeeds

\* Past the devices of the seeded commands no bay is busy.
LEMMA FreshDevice ==
  ASSUME NEW i \in Nat \ {0}, SeedCommands + i <= Devices
  PROVE  /\ commandFixtureCount + i = SeedCommands + i
         /\ SeedCommands + i \in DOMAIN devices /\ ~LoadBusy(SeedCommands + i)
         /\ devices[SeedCommands + i].station = RoundRobin(i, Stations)
         /\ CompanyOf(SeedCommands + i) = RoundRobin(i, Companies)
         /\ stationProgramId(SeedCommands + i) = FirstProgram(CompanyOf(SeedCommands + i))
<1> PICK d : d = SeedCommands + i
  OBVIOUS
<1>1. commandFixtureCount = SeedCommands /\ d \in DOMAIN devices /\ d \in Nat \ {0}
  BY Sizes DEF commandFixtureCount, SeedCommands, devices
<1>2. ~LoadBusy(d)
  BY RowOfSeedExecution, Sizes DEF LoadBusy
<1>3. devices[d].station = RoundRobin(i, Stations)
  BY <1>1, Sizes, StationOfDevice, RoundRobinOfSum
<1>4. /\ devices[d].station \in DOMAIN stations /\ RoundRobin(i, Stations) \in 1 .. Stations
      /\ CompanyOf(d) = RoundRobin(RoundRobin(i, Stations), Companies)
  BY <1>1, <1>3, Sizes, RoundRobinIsIn, StationOfDevice DEF CompanyOf, stations
<1>5. CompanyOf(d) = RoundRobin(i, Companies)
  BY <1>4, Sizes, RoundRobinTwice
<1>6. stationProgramId(d) = FirstProgram(CompanyOf(d))
  <2>1. stationProgramId(d) = FirstProgram(RoundRobin(RoundRobin(d, Stations), Companies))
    BY DEF stationProgramId, FirstProgram, RoundRobin
  <2>2. RoundRobin(RoundRobin(d, Stations), Companies) = CompanyOf(d)
    BY <1>1, Sizes, RoundRobinTwice, StationOfDevice
  <2> QED
    BY <2>1, <2>2
<1> QED
  BY <1>1, <1>2, <1>3, <1>5, <1>6

LEMMA RequestsAreServed == RequestsSucceed
<1>1. ASSUME NEW d \in paymentDevices
      PROVE  Succeeds(d, Body("CARD", stationProgramId(d), None, None), LoadBusy(d))
  <2>1. PICK x \in 0 .. Devices - SeedCommands - 1 : d = SeedCommands + (x + 1)
    BY Sizes DEF paymentDevices, commandFixtureCount, SeedCommands
  <2>2. x + 1 \in Nat \ {0} /\ SeedCommands + (x + 1) <= Devices
    BY Sizes
  <2>3. d \in DOMAIN devices /\ ~LoadBusy(d) /\ stationProgramId(d) = FirstProgram(CompanyOf(d))
    BY <2>1, <2>2, FreshDevice
  <2> QED
    BY <2>3, ServedRequest DEF Methods
<1>2. ASSUME NEW i \in contentionIndexes
      PROVE  LET d == contentionDeviceId(i)
             IN  /\ Succeeds(d, Body("QR", None, i, None), LoadBusy(d))
                 /\ Succeeds(d, Body("RF_CARD", stationProgramId(d), None, i), LoadBusy(d))
  <2> PICK d : d = contentionDeviceId(i)
    OBVIOUS
  <2>1. i \in 1 .. Fixtures /\ i \in Nat \ {0} /\ SeedCommands + i <= Devices
    BY Sizes DEF contentionIndexes, Fixtures
  <2>2. /\ d \in DOMAIN devices /\ ~LoadBusy(d)
        /\ devices[d].station = RoundRobin(i, Stations)
        /\ CompanyOf(d) = RoundRobin(i, Companies)
        /\ stationProgramId(d) = FirstProgram(CompanyOf(d))
    BY <2>1, FreshDevice DEF contentionDeviceId
  <2>3. i \in DOMAIN qr_codes /\ i \in DOMAIN rf_cards /\ rf_cards[i].company = RoundRobin(i, Companies)
    BY <2>1 DEF qr_codes, rf_cards
  <2>4. qr_codes[i].station = RoundRobin(i, Stations) /\ qr_codes[i].company = RoundRobin(i, Companies)
    BY <2>3, RowOfQrCode
  <2> QED
    BY <2>2, <2>3, <2>4, ServedRequest DEF Methods
<1>3. /\ Succeeds(1, Body("CARD", 1, None, None), DriverBusy(1))
      /\ Succeeds(1, Body("QR", None, 1, None), DriverBusy(1))
      /\ Succeeds(1, Body("RF_CARD", 1, None, 1), DriverBusy(1))
  <2>1. ~DriverBusy(1)
    BY DEF DriverBusy
  <2>2. 1 \in DOMAIN devices /\ 1 \in DOMAIN rf_cards /\ 1 \in DOMAIN qr_codes
    BY Sizes DEF devices, qr_codes, rf_cards
  <2>3. RoundRobin(1, Companies) = 1 /\ RoundRobin(1, Stations) = 1
    BY Sizes, RoundRobinOfSmall
  <2>4. /\ CompanyOf(1) = 1 /\ devices[1].station = 1
        /\ qr_codes[1].company = 1 /\ qr_codes[1].station = 1
    BY <2>2, <2>3, StationOfDevice, RowOfQrCode
  <2>5. rf_cards[1].company = 1 /\ FirstProgram(1) = 1
    BY <2>2, <2>3 DEF rf_cards, FirstProgram
  <2> QED
    BY <2>1, <2>2, <2>4, <2>5, ServedRequest DEF Methods
<1>4. \A r \in LoadRequests : Succeeds(r[1], r[2], LoadBusy(r[1]))
  BY <1>1, <1>2 DEF LoadRequests
<1>5. \A r \in DriverRequests : Succeeds(r[1], r[2], DriverBusy(r[1]))
  BY <1>3 DEF DriverRequests
<1> QED
  BY <1>4, <1>5 DEF RequestsSucceed

LEMMA SeedServes == DatasetServes
BY SeedRowsAgree, NewIdsAreFree, RequestsAreServed DEF DatasetServes
-----------------------------------------------------------------------------
(***************************************************************************)
(* The rows that payments add, and the connections in use.                 *)
(***************************************************************************)

\* One bridge from the sums of the model to the lemmas about sums.
LEMMA TotalIsSum ==
  ASSUME NEW S, IsFiniteSet(S), NEW g
  PROVE  Total(g, S) = Sum(g, S)
<1> DEFINE fold == CHOOSE h : h = [T \in SUBSET S |->
                             IF T = {} THEN 0 ELSE g[Chosen(T)] + h[T \ {Chosen(T)}]]
<1>1. Total(g, S) = fold[S]
  BY DEF Total, MapThenSumSet, MapThenFoldSet, Chosen
<1>2. fold = CHOOSE h : IsSum(h, g, S)
  BY DEF IsSum
<1> HIDE DEF fold
<1> QED
  BY <1>1, <1>2 DEF Sum

\* What the requests hold in all changes by what one of them does.
LEMMA HeldChanges ==
  ASSUME NEW c, NEW d, NEW r \in Requests,
         \A q \in Requests : c[q] \in Nat /\ d[q] \in Nat,
         \A q \in Requests \ {r} : c[q] = d[q]
  PROVE  /\ Total(c, Requests) \in Nat /\ Total(d, Requests) \in Nat
         /\ Total(d, Requests) = (Total(c, Requests) - c[r]) + d[r]
<1> DEFINE R == Requests \ {r}
<1>1. IsFiniteSet(Requests) /\ IsFiniteSet(R)
  BY DashboardAssumption, FS_Subset
<1>2. Sum(c, R) = Sum(d, R)
  <2> HIDE DEF R
  <2>1. \A q \in R : c[q] = d[q]
    BY DEF R
  <2> QED
    BY <1>1, <2>1, SumOfSame
<1>3. Sum(c, Requests) = c[r] + Sum(c, R) /\ Sum(d, Requests) = d[r] + Sum(d, R)
  BY <1>1, SumWithout
<1>4. Sum(c, Requests) \in Nat /\ Sum(d, Requests) \in Nat /\ Sum(c, R) \in Nat
  BY <1>1, SumType
<1>5. Total(c, Requests) = Sum(c, Requests) /\ Total(d, Requests) = Sum(d, Requests)
  BY <1>1, TotalIsSum
<1> HIDE DEF R
<1> PICK n : n = Sum(c, R)
  OBVIOUS
<1>6. /\ Total(c, Requests) = c[r] + n /\ Total(d, Requests) = d[r] + n /\ n \in Nat
      /\ c[r] \in Nat /\ d[r] \in Nat
  BY <1>2, <1>3, <1>4, <1>5
<1> QED
  BY ONLY <1>6

\* A payment's row, and the agreement of its references.
GoodRow(x) ==
  /\ x \in Row
  /\ devices[x.device].station = x.station
  /\ programs[x.program].company = CompanyOf(x.device)

RowsInv ==
  /\ DOMAIN paid \subseteq Payers
  /\ \A p \in DOMAIN paid : GoodRow(paid[p]) /\ pc[p] \in {"payload", "done"}
  /\ \A r \in Payers : pc[r] = "commit" => GoodRow(draft[r])

OtherTypes ==
  /\ stack \in {"python", "go"} /\ clock \in Nat
  /\ seen \in [PayDevices -> Nat \cup {None}]
  /\ failed \subseteq Failing
  /\ draft \in [Payers -> Row \cup {None}]
  /\ InUse <= PoolSize

DashboardInv == PoolInv /\ RowsInv /\ OtherTypes

\* What a payment writes belongs together.
LEMMA WrittenRowIsGood ==
  ASSUME NEW d \in PayDevices, NEW r \in Payers, clock \in Nat
  PROVE  GoodRow([device |-> d, station |-> devices[d].station,
                  program |-> FirstProgram(CompanyOf(d)), method |-> "CARD",
                  amount |-> 1000, status |-> OutcomeOf[r], created |-> clock])
<1>1. /\ d \in DOMAIN devices /\ devices[d].station \in DOMAIN stations
      /\ CompanyOf(d) \in 1 .. Companies
  BY DashboardAssumption, StationOfDevice
<1>2. /\ FirstProgram(CompanyOf(d)) \in DOMAIN programs
      /\ programs[FirstProgram(CompanyOf(d))].company = CompanyOf(d)
  BY <1>1, FirstProgramOfCompany
<1>3. OutcomeOf[r] \in Statuses
  BY DashboardAssumption
<1> HIDE DEF Row
<1>4. [device |-> d, station |-> devices[d].station,
       program |-> FirstProgram(CompanyOf(d)), method |-> "CARD",
       amount |-> 1000, status |-> OutcomeOf[r], created |-> clock] \in Row
  BY <1>1, <1>2, <1>3 DEF Row, Methods
<1> QED
  BY <1>2, <1>4 DEF GoodRow

\* Steps that commit nothing keep the rows.
LEMMA RowsStay ==
  ASSUME RowsInv, UNCHANGED << paid, draft >>,
         \A r \in Payers : \/ pc'[r] = pc[r]
                           \/ pc[r] \notin {"payload", "done"} /\ pc'[r] # "commit"
                           \/ pc'[r] \in {"payload", "done"}
  PROVE  RowsInv'
BY DEF RowsInv, GoodRow

LEMMA HeldOnly ==
  ASSUME PoolInv, PoolTypes', NEW r \in Requests,
         \A q \in Requests \ {r} : conns'[q] = conns[q],
         InUse <= PoolSize, conns'[r] <= conns[r] \/ InUse < PoolSize
  PROVE  (InUse <= PoolSize)'
<1>1. \A q \in Requests : conns[q] \in {0, 1} /\ conns'[q] \in {0, 1}
  BY DEF PoolInv, PoolTypes
<1>2. /\ InUse \in Nat /\ InUse' \in Nat
      /\ InUse' = (InUse - conns[r]) + conns'[r]
  BY <1>1, HeldChanges DEF InUse
<1> PICK a, b, n : a = conns[r] /\ b = conns'[r] /\ n = InUse
  OBVIOUS
<1>3. a \in {0, 1} /\ b \in {0, 1} /\ PoolSize \in Nat
  BY <1>1, DashboardAssumption
<1> QED
  BY <1>2, <1>3

LEMMA NextDashboardInv == DashboardInv /\ [Next]_vars => DashboardInv'
<1> SUFFICES ASSUME DashboardInv, [Next]_vars PROVE DashboardInv'
  OBVIOUS
<1>0. PoolInv /\ RowsInv /\ OtherTypes /\ PoolInv' /\ PoolTypes /\ PoolTypes'
  BY NextPoolInv DEF DashboardInv, PoolInv
<1>1. CASE UNCHANGED vars
  BY <1>0, <1>1 DEF vars, DashboardInv, RowsInv, OtherTypes, GoodRow, InUse
<1>2. ASSUME NEW r \in Requests, Checkout(r)
      PROVE  RowsInv' /\ OtherTypes'
  <2>1. RowsInv'
    BY <1>0, <1>2, RowsStay DEF Checkout
  <2>2. (InUse <= PoolSize)'
    <3>1. /\ \A q \in Requests \ {r} : conns'[q] = conns[q]
          /\ InUse < PoolSize
      BY <1>0, <1>2 DEF Checkout, PoolTypes
    <3> QED
      BY <1>0, <3>1, HeldOnly DEF OtherTypes
  <2> QED
    BY <1>0, <1>2, <2>1, <2>2 DEF Checkout, OtherTypes
<1>3. ASSUME NEW r \in Requests, Checkin(r) PROVE (InUse <= PoolSize)'
  <2>1. /\ \A q \in Requests \ {r} : conns'[q] = conns[q]
        /\ conns'[r] = 0 /\ conns[r] \in {0, 1}
    BY <1>0, <1>3 DEF Checkin, PoolTypes
  <2>2. conns'[r] <= conns[r]
    BY <2>1
  <2> QED
    BY <1>0, <2>1, <2>2, HeldOnly DEF OtherTypes
<1>4. ASSUME NEW r \in Requests, Abort(r)
      PROVE  RowsInv' /\ OtherTypes'
  <2>1. /\ UNCHANGED << stack, clock, paid, seen, failed >>
        /\ draft' = [p \in Payers |-> IF p = r THEN None ELSE draft[p]]
        /\ pc'[r] = "done" /\ \A q \in Requests \ {r} : pc'[q] = pc[q]
        /\ Checkin(r)
    BY <1>0, <1>4 DEF Abort, Go, PoolTypes
  <2>2. RowsInv'
    <3>1. \A p \in DOMAIN paid : GoodRow(paid'[p]) /\ pc'[p] \in {"payload", "done"}
      BY <1>0, <2>1 DEF RowsInv, GoodRow, Requests
    <3>2. \A p \in Payers : pc'[p] = "commit" => GoodRow(draft'[p])
      BY <1>0, <2>1 DEF RowsInv, Requests
    <3> QED
      BY <1>0, <2>1, <3>1, <3>2 DEF RowsInv, GoodRow
  <2>3. (InUse <= PoolSize)'
    BY <1>3, <2>1
  <2> QED
    BY <1>0, <2>1, <2>2, <2>3 DEF OtherTypes
<1>5. ASSUME NEW r \in Overviews,
             \/ RefusePanel(r) \/ authenticate_panel(r) \/ FindCompany(r) \/ Organization(r)
             \/ DeviceBlock(r) \/ Financial(r) \/ Methods_(r) \/ Failures(r)
      PROVE  RowsInv' /\ OtherTypes'
  <2>1. PICK step, next : Statement(r, step, next)
    BY <1>5 DEF RefusePanel, authenticate_panel, FindCompany, Organization, DeviceBlock,
                Financial, Methods_, Failures, Block
  <2>2. /\ UNCHANGED << stack, clock, paid, seen, failed, draft >>
        /\ r \in Requests /\ r \notin Payers
        /\ \A q \in Requests \ {r} : pc'[q] = pc[q]
        /\ conns' = conns \/ Checkin(r)
    BY <1>0, <2>1, DashboardAssumption DEF Statement, Go, PoolTypes, Requests
  <2>3. RowsInv'
    BY <1>0, <2>2, RowsStay DEF Requests
  <2>4. (InUse <= PoolSize)'
    BY <1>0, <1>3, <2>2 DEF OtherTypes, InUse
  <2> QED
    BY <1>0, <2>2, <2>3, <2>4 DEF OtherTypes
<1>6. ASSUME NEW r \in Payers, Begin(r) \/ LockKey(r) \/ Replay(r) \/ Payload(r) \/ ArrivePayer(r)
      PROVE  RowsInv' /\ OtherTypes'
  <2>1. /\ UNCHANGED << stack, clock, paid, seen, failed, draft >>
        /\ r \in Requests
        /\ \A q \in Requests \ {r} : pc'[q] = pc[q]
        /\ conns' = conns \/ Checkin(r)
        /\ \/ pc[r] \notin {"payload", "done"} /\ pc'[r] # "commit"
           \/ pc'[r] \in {"payload", "done"}
    BY <1>0, <1>6 DEF Begin, LockKey, Replay, Payload, ArrivePayer, Go, PoolTypes, Requests
  <2>2. RowsInv'
    BY <1>0, <2>1, RowsStay DEF Requests
  <2>3. (InUse <= PoolSize)'
    BY <1>0, <1>3, <2>1 DEF OtherTypes, InUse
  <2> QED
    BY <1>0, <2>1, <2>2, <2>3 DEF OtherTypes
<1>7. ASSUME NEW r \in Payers, Write(r)
      PROVE  RowsInv' /\ OtherTypes'
  <2>1. PICK d \in PayDevices :
          draft' = [draft EXCEPT ![r] =
                      [device |-> d, station |-> devices[d].station,
                       program |-> FirstProgram(CompanyOf(d)), method |-> "CARD",
                       amount |-> 1000, status |-> OutcomeOf[r], created |-> clock]]
    BY <1>7 DEF Write
  <2> PICK x : x = [device |-> d, station |-> devices[d].station,
                    program |-> FirstProgram(CompanyOf(d)), method |-> "CARD",
                    amount |-> 1000, status |-> OutcomeOf[r], created |-> clock]
    OBVIOUS
  <2>2. GoodRow(x)
    BY <1>0, WrittenRowIsGood DEF OtherTypes
  <2>3. draft' = [draft EXCEPT ![r] = x] /\ draft \in [Payers -> Row \cup {None}]
    BY <1>0, <2>1 DEF OtherTypes
  <2>4. /\ UNCHANGED << stack, clock, paid, seen, failed, conns >>
        /\ r \in Requests /\ pc[r] = "write"
        /\ \A q \in Requests \ {r} : pc'[q] = pc[q]
    BY <1>0, <1>7 DEF Write, Go, PoolTypes, Requests
  <2>5. \A p \in DOMAIN paid : p # r
    BY <1>0, <2>4 DEF RowsInv
  <2>6. \A p \in DOMAIN paid : GoodRow(paid[p]) /\ pc'[p] \in {"payload", "done"}
    BY <1>0, <2>4, <2>5 DEF RowsInv, Requests
  <2>7. \A p \in Payers : pc'[p] = "commit" => GoodRow(draft'[p])
    <3> SUFFICES ASSUME NEW p \in Payers, pc'[p] = "commit" PROVE GoodRow(draft'[p])
      OBVIOUS
    <3>1. CASE p = r
      BY <2>2, <2>3, <3>1
    <3>2. CASE p # r
      <4>1. pc[p] = "commit" /\ draft'[p] = draft[p]
        BY <2>3, <2>4, <3>2 DEF Requests
      <4> QED
        BY <1>0, <4>1 DEF RowsInv
    <3> QED
      BY <3>1, <3>2
  <2>8. RowsInv'
    BY <1>0, <2>4, <2>6, <2>7 DEF RowsInv, GoodRow
  <2>9. x \in Row
    BY <2>2 DEF GoodRow
  <2>10. draft' \in [Payers -> Row \cup {None}]
    BY <2>3, <2>9
  <2> QED
    BY <1>0, <2>4, <2>8, <2>10 DEF OtherTypes, InUse
<1>8. ASSUME NEW r \in Payers, Commit(r)
      PROVE  RowsInv' /\ OtherTypes'
  <2>1. /\ UNCHANGED << stack, clock, seen, failed >>
        /\ paid' = [p \in DOMAIN paid \cup {r} |-> IF p = r THEN draft[r] ELSE paid[p]]
        /\ draft' = [draft EXCEPT ![r] = None] /\ Checkin(r)
        /\ r \in Requests /\ pc[r] = "commit" /\ pc'[r] \in {"payload", "done"}
        /\ \A q \in Requests \ {r} : pc'[q] = pc[q]
    BY <1>0, <1>8 DEF Commit, Go, PoolTypes, Requests
  <2>2. GoodRow(draft[r]) /\ draft \in [Payers -> Row \cup {None}]
    BY <1>0, <2>1 DEF RowsInv, OtherTypes
  <2>3. DOMAIN paid' = DOMAIN paid \cup {r}
    BY <2>1
  <2>4. \A p \in DOMAIN paid' : GoodRow(paid'[p]) /\ pc'[p] \in {"payload", "done"}
    <3> SUFFICES ASSUME NEW p \in DOMAIN paid'
                 PROVE  GoodRow(paid'[p]) /\ pc'[p] \in {"payload", "done"}
      OBVIOUS
    <3>1. CASE p = r
      BY <2>1, <2>2, <3>1
    <3>2. CASE p # r
      <4>1. p \in DOMAIN paid /\ paid'[p] = paid[p]
        BY <2>1, <2>3, <3>2
      <4>2. p \in Requests \ {r}
        BY <1>0, <3>2, <4>1 DEF RowsInv, Requests
      <4> QED
        BY <1>0, <2>1, <4>1, <4>2 DEF RowsInv
    <3> QED
      BY <3>1, <3>2
  <2>5. \A p \in Payers : pc'[p] = "commit" => GoodRow(draft'[p])
    <3> SUFFICES ASSUME NEW p \in Payers, pc'[p] = "commit" PROVE GoodRow(draft'[p])
      OBVIOUS
    <3>1. p # r
      BY <2>1
    <3>2. pc[p] = "commit" /\ draft'[p] = draft[p]
      BY <2>1, <2>2, <3>1 DEF Requests
    <3> QED
      BY <1>0, <3>2 DEF RowsInv
  <2>6. DOMAIN paid' \subseteq Payers
    BY <1>0, <2>3 DEF RowsInv
  <2>7. RowsInv'
    BY <2>4, <2>5, <2>6 DEF RowsInv, GoodRow
  <2>8. (InUse <= PoolSize)'
    BY <1>3, <2>1
  <2> QED
    BY <1>0, <2>1, <2>2, <2>7, <2>8 DEF OtherTypes
<1>9. ASSUME NEW r \in Overviews, ArriveOverview(r)
      PROVE  RowsInv' /\ OtherTypes'
  <2>1. /\ UNCHANGED << stack, clock, paid, seen, failed, draft, conns >>
        /\ r \in Requests /\ r \notin Payers
        /\ \A q \in Requests \ {r} : pc'[q] = pc[q]
    BY <1>0, <1>9, DashboardAssumption DEF ArriveOverview, Go, PoolTypes, Requests
  <2>2. RowsInv'
    BY <1>0, <2>1, RowsStay DEF Requests
  <2> QED
    BY <1>0, <2>1, <2>2 DEF OtherTypes, InUse
<1>10. ASSUME NEW d \in PayDevices, Heartbeat(d) PROVE RowsInv' /\ OtherTypes'
  <2>1. RowsInv'
    BY <1>0, <1>10, RowsStay DEF Heartbeat
  <2> QED
    BY <1>0, <1>10, <2>1 DEF Heartbeat, OtherTypes, InUse
<1>11. ASSUME NEW e \in Failing, ProgramFails(e) PROVE RowsInv' /\ OtherTypes'
  <2>1. RowsInv'
    BY <1>0, <1>11, RowsStay DEF ProgramFails
  <2> QED
    BY <1>0, <1>11, <2>1 DEF ProgramFails, OtherTypes, InUse
<1>12. CASE Tick
  <2>1. RowsInv'
    BY <1>0, <1>12, RowsStay DEF Tick
  <2> QED
    BY <1>0, <1>12, <2>1 DEF Tick, DashboardInv, OtherTypes, InUse
<1>13. ASSUME NEW r \in Requests, Serve(r) PROVE RowsInv' /\ OtherTypes'
  BY <1>2, <1>5, <1>6, <1>7, <1>8, <1>13 DEF Serve
<1> QED
  BY <1>0, <1>1, <1>4, <1>6, <1>9, <1>10, <1>11, <1>12, <1>13 DEF DashboardInv, Next, Over

LEMMA InitDashboardInv == Init => DashboardInv
<1> SUFFICES ASSUME Init PROVE DashboardInv
  OBVIOUS
<1>1. PoolInv
  BY InitPoolInv
<1>2. RowsInv
  BY DEF Init, RowsInv, Requests
<1>3. InUse = 0
  <2>1. /\ conns = [r \in Requests |-> 0] /\ IsFiniteSet(Requests)
        /\ InUse = Sum(conns, Requests)
    BY DashboardAssumption, TotalIsSum DEF Init, InUse
  <2>2. Sum(conns, Requests) = 0
    BY <2>1, SumOfZeroes
  <2> QED
    BY <2>1, <2>2
<1> QED
  BY <1>1, <1>2, <1>3, DashboardAssumption DEF Init, OtherTypes, DashboardInv

LEMMA DashboardInvHolds == Spec => []DashboardInv
BY InitDashboardInv, NextDashboardInv, PTL DEF Spec
-----------------------------------------------------------------------------
(***************************************************************************)
(* What an overview has read so far. The blocks it holds are those of the  *)
(* rows committed when it read them, and stay so while others commit.      *)
(***************************************************************************)

(***************************************************************************)
(* The rows of an overview's question among the payments P: what a block    *)
(* read over them stays what a later state says of them, since rows that    *)
(* committed never change.                                                  *)
(***************************************************************************)
InScopeOf(a, P) ==
  (IF Within(0, a.bounds) THEN SeedOf[a.company] ELSE {})
  \cup {p \in P : paid[p].station \in StationsOf(a.company) /\ Within(paid[p].created, a.bounds)}

DevicesAdd(dev, company) ==
  /\ dev.online + dev.offline + dev.unknown = dev.total
  /\ dev.total = organization(company).bays

IsFinancial(fin, rows) ==
  /\ fin.total = Cardinality(rows)
  /\ fin.success = Cardinality(OfStatus(rows, "SUCCESS"))
  /\ fin.failed = Cardinality(OfStatus(rows, "FAILED"))
  /\ fin.pending = Cardinality(OfStatus(rows, "PENDING"))
  /\ fin.cancelled = Cardinality(OfStatus(rows, "CANCELLED"))
  /\ fin.gross = Gross(rows)

OfMethod(rows, m) == {p \in rows : Payment(p).method = m}

IsByMethod(met, rows) ==
  met = [m \in {Payment(p).method : p \in rows} |->
           [total |-> Cardinality(OfMethod(rows, m)),
            success |-> Cardinality(OfStatus(OfMethod(rows, m), "SUCCESS")),
            amount |-> Gross(OfMethod(rows, m))]]

\* The steps before which a number of blocks has been read.
BlockSteps == << "organization", "devices", "financial", "methods", "failures" >>

\* The overview has read its block number i, and was not refused since.
HasRead(r, i) ==
  \/ pc[r] \in {BlockSteps[j] : j \in i + 1 .. 5}
  \/ pc[r] = "done" /\ answer[r] # None

Extends(t, w, v) == t = Append(w, v)

IsTuple(w, n) == w \in Seq({w[i] : i \in 1 .. n}) /\ Len(w) = n

AnswerShape(r) == \A i \in 1 .. 5 : pc[r] = BlockSteps[i] => IsTuple(answer[r], i - 1)

MomentsInv(r) ==
  /\ moment[r] = [financial |-> moment[r].financial, methods |-> moment[r].methods]
  /\ moment[r].financial \subseteq DOMAIN paid
  /\ moment[r].methods \subseteq DOMAIN paid
  /\ HasRead(r, 4) => moment[r].financial \subseteq moment[r].methods

BlocksInv(r) ==
  /\ HasRead(r, 0) => ask[r].company \in 1 .. Companies
  /\ HasRead(r, 1) => answer[r][1] = organization(ask[r].company)
  /\ HasRead(r, 2) => DevicesAdd(answer[r][2], ask[r].company)
  /\ HasRead(r, 3) => IsFinancial(answer[r][3], InScopeOf(ask[r], moment[r].financial))
  /\ HasRead(r, 4) => IsByMethod(answer[r][4], InScopeOf(ask[r], moment[r].methods))
  /\ HasRead(r, 5) => answer[r][5] \in Nat /\ answer[r][5] <= failed_execution_count(ask[r])

\* A request has its question from its first statement on, and its company
\* from the second.
AskInv(r) ==
  /\ pc[r] = "auth" => ask[r] = [company |-> ask[r].company, period |-> ask[r].period,
                                bounds |-> ask[r].bounds]
  /\ pc[r] = "company" => ask[r].company \in 1 .. Companies
  /\ pc[r] \in {"idle", "auth", "company"} => answer[r] = None

OneInv(r) == AskInv(r) /\ AnswerShape(r) /\ MomentsInv(r) /\ BlocksInv(r)

OverviewInv ==
  /\ ask = [r \in Overviews |-> ask[r]]
  /\ answer = [r \in Overviews |-> answer[r]]
  /\ moment = [r \in Overviews |-> moment[r]]
  /\ \A r \in Overviews : OneInv(r)

LEMMA AppendToTuple ==
  ASSUME NEW w, NEW n \in Nat, NEW v, NEW t, IsTuple(w, n), Extends(t, w, v)
  PROVE  IsTuple(t, n + 1) /\ t[n + 1] = v /\ \A i \in 1 .. n : t[i] = w[i]
<1> PICK S : S = {w[i] : i \in 1 .. n} \cup {v}
  OBVIOUS
<1>0. t = Append(w, v)
  BY DEF Extends
<1>1. w \in Seq(S) /\ v \in S
  BY DEF IsTuple
<1>2. /\ Append(w, v) \in Seq(S) /\ Len(Append(w, v)) = n + 1
      /\ \A i \in 1 .. n : Append(w, v)[i] = w[i]
      /\ Append(w, v)[n + 1] = v
  BY <1>1, AppendProperties DEF IsTuple
<1>3. t \in Seq({t[i] : i \in 1 .. n + 1})
  <2>1. DOMAIN t = 1 .. n + 1 /\ t = [i \in 1 .. n + 1 |-> t[i]]
    BY <1>0, <1>2, LenProperties
  <2>2. PICK T : T = {t[i] : i \in 1 .. n + 1}
    OBVIOUS
  <2>3. \A i \in 1 .. n + 1 : t[i] \in T
    BY ONLY <2>2
  <2>4. t \in [1 .. n + 1 -> T]
    BY ONLY <2>1, <2>3
  <2>5. n + 1 \in Nat
    OBVIOUS
  <2> QED
    BY ONLY <2>2, <2>4, <2>5, SeqDef
<1> QED
  BY <1>0, <1>2, <1>3 DEF IsTuple

LEMMA NoTuple == IsTuple(<< >>, 0)
BY DEF IsTuple

\* Committed rows stay and failed executions stay failed.
Grows ==
  /\ DOMAIN paid \subseteq DOMAIN paid' /\ \A p \in DOMAIN paid : paid'[p] = paid[p]
  /\ failed \subseteq failed' /\ failed' \subseteq Failing

LEMMA NextGrows == DashboardInv /\ [Next]_vars => Grows
<1> SUFFICES ASSUME DashboardInv, [Next]_vars PROVE Grows
  OBVIOUS
<1>1. CASE UNCHANGED << paid, failed >>
  BY <1>1 DEF Grows, DashboardInv, OtherTypes
<1>2. ASSUME NEW r \in Payers, Commit(r) PROVE Grows
  <2>1. r \notin DOMAIN paid
    BY <1>2 DEF Commit, DashboardInv, RowsInv
  <2>2. paid' = [p \in DOMAIN paid \cup {r} |-> IF p = r THEN draft[r] ELSE paid[p]]
    BY <1>2 DEF Commit
  <2>3. DOMAIN paid \subseteq DOMAIN paid' /\ \A p \in DOMAIN paid : paid'[p] = paid[p]
    BY <2>1, <2>2
  <2> QED
    BY <1>2, <2>3 DEF Commit, Grows, DashboardInv, OtherTypes
<1>3. ASSUME NEW e \in Failing, ProgramFails(e) PROVE Grows
  BY <1>3 DEF ProgramFails, Grows, DashboardInv, OtherTypes
<1>4. ASSUME NEW r \in Requests, Serve(r)
      PROVE  UNCHANGED << paid, failed >> \/ (r \in Payers /\ Commit(r))
  BY <1>4 DEF Serve, Checkout, RefusePanel, authenticate_panel, FindCompany, Organization, DeviceBlock,
              Financial, Methods_, Failures, Block, Statement, Begin, LockKey, Replay, Write, Payload
<1> QED
  BY <1>1, <1>2, <1>3, <1>4 DEF Next, vars, Abort, ArriveOverview, ArrivePayer, Heartbeat, Tick, Over

LEMMA RowsOfScope ==
  ASSUME DashboardInv, NEW a, a.company \in 1 .. Companies, NEW P \in SUBSET DOMAIN paid
  PROVE  /\ IsFiniteSet(InScopeOf(a, P))
         /\ \A p \in InScopeOf(a, P) :
              /\ p \in DOMAIN paid \/ (p \in DOMAIN seedPayments /\ p \notin Payers)
              /\ Payment(p).status \in Statuses
              /\ Payment(p).method \in Methods
              /\ Payment(p).amount \in Nat
<1>1. /\ SeedOf[a.company] \subseteq DOMAIN seedPayments
      /\ DOMAIN paid \subseteq Payers
      /\ \A p \in DOMAIN paid : paid[p] \in Row
  BY DEF SeedOf, DashboardInv, RowsInv, GoodRow
<1>2. IsFiniteSet(InScopeOf(a, P))
  <2>1. IsFiniteSet(DOMAIN seedPayments) /\ IsFiniteSet(Payers)
    <3>1. IsFiniteSet(DOMAIN seedPayments)
      BY Sizes, FS_Interval DEF seedPayments
    <3> QED
      BY <3>1, DashboardAssumption, FS_Subset DEF Requests
  <2>2. IsFiniteSet(DOMAIN seedPayments \cup Payers)
    BY <2>1, FS_Union
  <2>3. InScopeOf(a, P) \subseteq DOMAIN seedPayments \cup Payers
    BY <1>1 DEF InScopeOf
  <2> QED
    BY <2>2, <2>3, FS_Subset
<1>3. ASSUME NEW p \in InScopeOf(a, P)
      PROVE  p \in DOMAIN paid \/ (p \in DOMAIN seedPayments /\ p \notin Payers)
  BY <1>1, DashboardAssumption DEF InScopeOf
<1>4. ASSUME NEW p \in InScopeOf(a, P)
      PROVE  /\ Payment(p).status \in Statuses
             /\ Payment(p).method \in Methods
             /\ Payment(p).amount \in Nat
  <2>1. CASE p \in DOMAIN paid
    <3>1. Payment(p) = paid[p] /\ paid[p] \in Row
      BY <1>1, <2>1 DEF Payment
    <3> QED
      BY <3>1 DEF Row
  <2>2. CASE p \in DOMAIN seedPayments /\ p \notin DOMAIN paid
    <3>1. Payment(p) = seedPayments[p]
      BY <2>2 DEF Payment
    <3> QED
      BY <2>2, <3>1, RowOfSeedPayment DEF Statuses
  <2> QED
    BY <1>1, <1>3, <2>1, <2>2
<1> QED
  BY <1>2, <1>3, <1>4

LEMMA ScopeStays ==
  ASSUME DashboardInv, DashboardInv', Grows, NEW a, a.company \in 1 .. Companies, NEW P \in SUBSET DOMAIN paid
  PROVE  /\ InScopeOf(a, P)' = InScopeOf(a, P)
         /\ \A p \in InScopeOf(a, P) : Payment(p)' = Payment(p)
<1>1. \A p \in P : paid'[p] = paid[p]
  BY DEF Grows
<1>2. InScopeOf(a, P)' = InScopeOf(a, P)
  BY <1>1 DEF InScopeOf, Within, SeedOf
<1>3. ASSUME NEW p \in InScopeOf(a, P) PROVE Payment(p)' = Payment(p)
  <2>1. p \in DOMAIN paid \/ (p \in DOMAIN seedPayments /\ p \notin Payers)
    BY RowsOfScope
  <2>2. CASE p \in DOMAIN paid
    BY <2>2 DEF Payment, Grows
  <2>3. CASE p \notin Payers
    <3>1. p \notin DOMAIN paid /\ p \notin DOMAIN paid'
      BY <2>3 DEF DashboardInv, RowsInv
    <3> QED
      BY <3>1 DEF Payment
  <2> QED
    BY <2>1, <2>2, <2>3
<1> QED
  BY <1>2, <1>3

LEMMA GrossStays ==
  ASSUME NEW rows, \A p \in rows : Payment(p)' = Payment(p)
  PROVE  /\ \A s : OfStatus(rows, s)' = OfStatus(rows, s)
         /\ \A m : OfMethod(rows, m)' = OfMethod(rows, m)
         /\ Gross(rows)' = Gross(rows)
<1>1. \A s : OfStatus(rows, s)' = OfStatus(rows, s)
  BY DEF OfStatus
<1>2. \A m : OfMethod(rows, m)' = OfMethod(rows, m)
  BY DEF OfMethod
<1>3. Gross(rows)' = Gross(rows)
  <2> PICK ok : ok = OfStatus(rows, "SUCCESS")
    OBVIOUS
  <2>1. \A p \in ok : Payment(p)' = Payment(p)
    BY DEF OfStatus
  <2>2. [p \in ok |-> Payment(p)'.amount] = [p \in ok |-> Payment(p).amount]
    BY <2>1
  <2>3. /\ Gross(rows) = Total([p \in ok |-> Payment(p).amount], ok)
        /\ Gross(rows)' = Total([p \in ok |-> Payment(p)'.amount], ok)
    BY <1>1 DEF Gross
  <2> QED
    BY <2>2, <2>3
<1> QED
  BY <1>1, <1>2, <1>3

LEMMA BlocksStay ==
  ASSUME NEW rows, \A p \in rows : Payment(p)' = Payment(p)
  PROVE  /\ \A fin : IsFinancial(fin, rows) => IsFinancial(fin, rows)'
         /\ \A met : IsByMethod(met, rows) => IsByMethod(met, rows)'
<1>1. \A fin : IsFinancial(fin, rows) => IsFinancial(fin, rows)'
  BY GrossStays DEF IsFinancial
<1>2. ASSUME NEW met, IsByMethod(met, rows) PROVE IsByMethod(met, rows)'
  <2>1. {Payment(p).method : p \in rows}' = {Payment(p).method : p \in rows}
    OBVIOUS
  <2>2. ASSUME NEW m
        PROVE  /\ OfMethod(rows, m)' = OfMethod(rows, m)
               /\ OfStatus(OfMethod(rows, m), "SUCCESS")' = OfStatus(OfMethod(rows, m), "SUCCESS")
               /\ Gross(OfMethod(rows, m))' = Gross(OfMethod(rows, m))
    <3> PICK part : part = OfMethod(rows, m)
      OBVIOUS
    <3>1. OfMethod(rows, m)' = part
      BY GrossStays
    <3>2. \A p \in part : Payment(p)' = Payment(p)
      BY DEF OfMethod
    <3>3. OfStatus(part, "SUCCESS")' = OfStatus(part, "SUCCESS") /\ Gross(part)' = Gross(part)
      BY <3>2, GrossStays
    <3> QED
      BY <3>1, <3>3 DEF OfStatus, Gross
  <2> QED
    BY <1>2, <2>1, <2>2 DEF IsByMethod
<1> QED
  BY <1>1, <1>2

LEMMA FailuresGrow ==
  ASSUME DashboardInv, Grows, NEW a
  PROVE  /\ failed_execution_count(a) \in Nat /\ failed_execution_count(a)' \in Nat
         /\ failed_execution_count(a) <= failed_execution_count(a)'
<1> PICK F : F = {e \in failed :
                   /\ seedPayments[seedExecutions[e].payment].station \in StationsOf(a.company)
                   /\ Within(0, a.bounds)}
  OBVIOUS
<1> PICK G : G = {e \in failed' :
                   /\ seedPayments[seedExecutions[e].payment].station \in StationsOf(a.company)
                   /\ Within(0, a.bounds)}
  OBVIOUS
<1>1. F \subseteq G
  BY DEF Grows
<1>2. IsFiniteSet(Failing)
  <2>1. IsFiniteSet(1 .. SeedCommands)
    BY Sizes, FS_Interval
  <2>2. Failing \subseteq 1 .. SeedCommands
    BY DashboardAssumption, RowOfSeedExecution
  <2> QED
    BY <2>1, <2>2, FS_Subset
<1>3. IsFiniteSet(F) /\ IsFiniteSet(G)
  <2>1. F \subseteq Failing /\ G \subseteq Failing
    BY DEF Grows
  <2> QED
    BY <1>2, <2>1, FS_Subset
<1>4. Cardinality(F) \in Nat /\ Cardinality(G) \in Nat /\ Cardinality(F) <= Cardinality(G)
  BY <1>1, <1>3, FS_CardinalityType, FS_Subset
<1>5. failed_execution_count(a) = Cardinality(F) /\ failed_execution_count(a)' = Cardinality(G)
  BY DEF failed_execution_count, Within
<1> QED
  BY <1>4, <1>5

\* An overview that does nothing keeps what it has read.
LEMMA IdleOverview ==
  ASSUME DashboardInv, DashboardInv', Grows, NEW r \in Overviews, OneInv(r),
         pc'[r] = pc[r], ask'[r] = ask[r], answer'[r] = answer[r], moment'[r] = moment[r]
  PROVE  OneInv(r)'
<1>1. \A i \in 0 .. 5 : HasRead(r, i)' = HasRead(r, i)
  BY DEF HasRead
<1>2. AskInv(r)' /\ AnswerShape(r)'
  BY DEF OneInv, AskInv, AnswerShape
<1>3. MomentsInv(r)'
  BY <1>1 DEF OneInv, MomentsInv, Grows
<1>4. BlocksInv(r)'
  <2> PICK a, w, f, m : a = ask[r] /\ w = answer[r] /\ f = moment[r].financial /\ m = moment[r].methods
    OBVIOUS
  <2>1. f \subseteq DOMAIN paid /\ m \subseteq DOMAIN paid
    BY DEF OneInv, MomentsInv
  <2>2. ASSUME HasRead(r, 0) PROVE a.company \in 1 .. Companies
    BY <2>2 DEF OneInv, BlocksInv
  <2>3. ASSUME HasRead(r, 3) PROVE IsFinancial(w[3], InScopeOf(a, f))'
    <3>0. HasRead(r, 0)
      BY <2>3 DEF HasRead, BlockSteps
    <3> PICK rows : rows = InScopeOf(a, f)
      OBVIOUS
    <3>1. InScopeOf(a, f)' = rows /\ \A p \in rows : Payment(p)' = Payment(p)
      BY <2>1, <2>2, <3>0, ScopeStays
    <3>2. IsFinancial(w[3], rows)
      BY <2>3 DEF OneInv, BlocksInv
    <3>3. IsFinancial(w[3], rows)'
      BY <3>1, <3>2, BlocksStay
    <3> QED
      BY <3>1, <3>3 DEF IsFinancial
  <2>4. ASSUME HasRead(r, 4) PROVE IsByMethod(w[4], InScopeOf(a, m))'
    <3>0. HasRead(r, 0)
      BY <2>4 DEF HasRead, BlockSteps
    <3> PICK rows : rows = InScopeOf(a, m)
      OBVIOUS
    <3>1. InScopeOf(a, m)' = rows /\ \A p \in rows : Payment(p)' = Payment(p)
      BY <2>1, <2>2, <3>0, ScopeStays
    <3>2. IsByMethod(w[4], rows)
      BY <2>4 DEF OneInv, BlocksInv
    <3>3. IsByMethod(w[4], rows)'
      BY <3>1, <3>2, BlocksStay
    <3> QED
      BY <3>1, <3>3 DEF IsByMethod
  <2>5. ASSUME HasRead(r, 5) PROVE w[5] <= failed_execution_count(a)'
    <3>1. w[5] <= failed_execution_count(a)
      BY <2>5 DEF OneInv, BlocksInv
    <3>2. \E n \in Nat : w[5] = n
      BY <2>5 DEF OneInv, BlocksInv
    <3>3. failed_execution_count(a) <= failed_execution_count(a)'
      BY FailuresGrow
    <3>4. failed_execution_count(a) \in Nat /\ failed_execution_count(a)' \in Nat
      BY FailuresGrow
    <3> QED
      BY <3>1, <3>2, <3>3, <3>4
  <2>6. HasRead(r, 1) => w[1] = organization(a.company)
    BY DEF OneInv, BlocksInv
  <2>7. HasRead(r, 2) => DevicesAdd(w[2], a.company)
    BY DEF OneInv, BlocksInv
  <2>8. HasRead(r, 5) => w[5] \in Nat
    BY DEF OneInv, BlocksInv
  <2> QED
    BY <1>1, <2>2, <2>3, <2>4, <2>5, <2>6, <2>7, <2>8 DEF BlocksInv, DevicesAdd
<1> QED
  BY <1>2, <1>3, <1>4 DEF OneInv

\* The block number i of an overview, read over the payments P.
IsBlock(i, block, a, P) ==
  /\ i = 1 => block = organization(a.company)
  /\ i = 2 => DevicesAdd(block, a.company)
  /\ i = 3 => IsFinancial(block, InScopeOf(a, P))
  /\ i = 4 => IsByMethod(block, InScopeOf(a, P))
  /\ i = 5 => block \in Nat /\ block <= failed_execution_count(a)

AfterBlock == << "devices", "financial", "methods", "failures", "done" >>

LEMMA ReadBlock ==
  ASSUME DashboardInv, OverviewInv, NEW r \in Overviews, NEW i \in 1 .. 5, NEW block,
         Block(r, BlockSteps[i], AfterBlock[i], block),
         IsBlock(i, block, ask[r], DOMAIN paid)
  PROVE  OneInv(r)'
<1> PICK a, w, w2, m, m2 :
      a = ask[r] /\ w = answer[r] /\ w2 = answer'[r] /\ m = moment[r] /\ m2 = moment'[r]
  OBVIOUS
<1>1. /\ pc[r] = BlockSteps[i] /\ pc'[r] = AfterBlock[i]
      /\ UNCHANGED << paid, failed, ask >>
      /\ w2 = Append(w, block)
      /\ ask'[r] = a
  BY DEF Block, Statement, Go, DashboardInv, PoolInv, PoolTypes, Requests, OverviewInv
<1>2. OneInv(r)
  BY DEF OverviewInv
<1>3. i = 1 \/ i = 2 \/ i = 3 \/ i = 4 \/ i = 5
  OBVIOUS
<1>4. HasRead(r, 0) /\ a.company \in 1 .. Companies
  <2>1. HasRead(r, 0)
    BY <1>1, <1>3 DEF HasRead, BlockSteps
  <2> QED
    BY <1>2, <2>1 DEF OneInv, BlocksInv
<1>5. \A j \in 1 .. 5 : (j < i => HasRead(r, j)) /\ (HasRead(r, j)' => j <= i)
  BY <1>1, <1>3 DEF HasRead, BlockSteps, AfterBlock
<1>6. IsTuple(w2, i) /\ w2[i] = block /\ \A j \in 1 .. i - 1 : w2[j] = w[j]
  <2>1. IsTuple(w, i - 1)
    BY <1>1, <1>2, <1>3 DEF OneInv, AnswerShape, BlockSteps
  <2>2. i - 1 \in Nat /\ (i - 1) + 1 = i
    OBVIOUS
  <2> PICK k : k = i - 1
    OBVIOUS
  <2>3. k \in Nat /\ IsTuple(w, k) /\ k + 1 = i
    BY <2>1, <2>2
  <2>4. IsTuple(w2, k + 1) /\ w2[k + 1] = block /\ \A j \in 1 .. k : w2[j] = w[j]
    <3>1. Extends(w2, w, block)
      BY <1>1 DEF Extends
    <3> QED
      BY <2>3, <3>1, AppendToTuple
  <2> QED
    BY <2>3, <2>4
<1>7. w2[i] = block /\ \A j \in 1 .. 5 : j < i => w2[j] = w[j]
  BY <1>6
<1>8. AskInv(r)' /\ AnswerShape(r)'
  <2>1. AskInv(r)'
    BY <1>1, <1>3 DEF AskInv, AfterBlock
  <2>2. AnswerShape(r)'
    <3>1. \A j \in 1 .. 5 : AfterBlock[i] = BlockSteps[j] => j - 1 = i
      BY <1>3 DEF AfterBlock, BlockSteps
    <3>2. answer'[r] = w2 /\ IsTuple(w2, i)
      BY <1>6
    <3>3. \A j \in 1 .. 5 : pc'[r] = BlockSteps[j] => IsTuple(answer'[r], j - 1)
      BY <1>1, <3>1, <3>2
    <3> QED
      BY <3>3 DEF AnswerShape, IsTuple
  <2> QED
    BY <2>1, <2>2
<1>9. /\ m = [financial |-> m.financial, methods |-> m.methods]
      /\ m.financial \subseteq DOMAIN paid /\ m.methods \subseteq DOMAIN paid
  BY <1>2 DEF OneInv, MomentsInv
<1>10. m2 = [financial |-> IF i = 3 THEN DOMAIN paid ELSE m.financial,
             methods |-> IF i = 4 THEN DOMAIN paid ELSE m.methods]
  <2>1. DOMAIN m = {"financial", "methods"} /\ moment = [q \in Overviews |-> moment[q]]
    BY <1>9 DEF OverviewInv
  <2>2. CASE i = 3
    <3>1. moment' = [moment EXCEPT ![r]["financial"] = DOMAIN paid]
      BY <2>1, <2>2 DEF Block, BlockSteps
    <3>2. m2 = [m EXCEPT !["financial"] = DOMAIN paid]
      BY <2>1, <3>1
    <3> QED
      BY <1>9, <2>2, <3>2
  <2>3. CASE i = 4
    <3>1. moment' = [moment EXCEPT ![r]["methods"] = DOMAIN paid]
      BY <2>1, <2>3 DEF Block, BlockSteps
    <3>2. m2 = [m EXCEPT !["methods"] = DOMAIN paid]
      BY <2>1, <3>1
    <3> QED
      BY <1>9, <2>3, <3>2
  <2>4. CASE i # 3 /\ i # 4
    <3>1. moment' = moment
      BY <1>3, <2>1, <2>4 DEF Block, BlockSteps
    <3> QED
      BY <1>9, <2>4, <3>1
  <2> QED
    BY <2>2, <2>3, <2>4
<1>11. /\ m2.financial = (IF i = 3 THEN DOMAIN paid ELSE m.financial)
       /\ m2.methods = (IF i = 4 THEN DOMAIN paid ELSE m.methods)
  BY <1>10
<1>12. MomentsInv(r)'
  <2>1. HasRead(r, 4)' => i = 4 \/ (i = 5 /\ HasRead(r, 4))
    BY <1>3, <1>5
  <2>2. HasRead(r, 4) => m.financial \subseteq m.methods
    BY <1>2 DEF OneInv, MomentsInv
  <2>3. HasRead(r, 4)' => m2.financial \subseteq m2.methods
    BY <1>9, <1>11, <2>1, <2>2
  <2>4. m2 = [financial |-> m2.financial, methods |-> m2.methods]
    BY <1>10
  <2>5. m2.financial \subseteq DOMAIN paid /\ m2.methods \subseteq DOMAIN paid
    BY <1>9, <1>11
  <2> QED
    BY <1>1, <2>3, <2>4, <2>5 DEF MomentsInv
<1>13. BlocksInv(r)'
  <2>0. /\ HasRead(r, 1) => w[1] = organization(a.company)
        /\ HasRead(r, 2) => DevicesAdd(w[2], a.company)
        /\ HasRead(r, 3) => IsFinancial(w[3], InScopeOf(a, m.financial))
        /\ HasRead(r, 4) => IsByMethod(w[4], InScopeOf(a, m.methods))
    BY <1>2 DEF OneInv, BlocksInv
  <2>1. HasRead(r, 1)' => w2[1] = organization(a.company)
    BY <1>3, <1>5, <1>7, <2>0 DEF IsBlock
  <2>2. HasRead(r, 2)' => DevicesAdd(w2[2], a.company)
    BY <1>3, <1>5, <1>7, <2>0 DEF IsBlock
  <2>3. HasRead(r, 3)' => IsFinancial(w2[3], InScopeOf(a, m2.financial))
    <3>1. CASE i = 3
      BY <1>7, <1>11, <3>1 DEF IsBlock
    <3>2. CASE i # 3
      BY <1>3, <1>5, <1>7, <1>11, <2>0, <3>2
    <3> QED
      BY <3>1, <3>2
  <2>4. HasRead(r, 4)' => IsByMethod(w2[4], InScopeOf(a, m2.methods))
    <3>1. CASE i = 4
      BY <1>7, <1>11, <3>1 DEF IsBlock
    <3>2. CASE i # 4
      BY <1>3, <1>5, <1>7, <1>11, <2>0, <3>2
    <3> QED
      BY <3>1, <3>2
  <2>5. HasRead(r, 5)' => w2[5] \in Nat /\ w2[5] <= failed_execution_count(a)
    BY <1>3, <1>5, <1>7 DEF IsBlock
  <2>6. /\ \A fin, P : IsFinancial(fin, InScopeOf(a, P))' <=> IsFinancial(fin, InScopeOf(a, P))
        /\ \A met, P : IsByMethod(met, InScopeOf(a, P))' <=> IsByMethod(met, InScopeOf(a, P))
        /\ failed_execution_count(a)' = failed_execution_count(a)
    BY <1>1 DEF IsFinancial, IsByMethod, InScopeOf, Within, OfStatus, OfMethod, Gross, Payment,
                failed_execution_count
  <2> QED
    BY <1>1, <1>4, <2>1, <2>2, <2>3, <2>4, <2>5, <2>6 DEF BlocksInv, DevicesAdd
<1> QED
  BY <1>8, <1>12, <1>13 DEF OneInv

\* A device is seen lately, seen long ago or never seen, and has its bay.
LEMMA DevicesAreCounted ==
  ASSUME DashboardInv, NEW c \in 1 .. Companies
  PROVE  DevicesAdd(deviceCounts(c, clock), c)
<1> PICK rows : rows = DevicesOf[c]
  OBVIOUS
<1> PICK cutoff : cutoff = clock - OnlineFor
  OBVIOUS
<1> PICK on, off, unk : /\ on = {d \in rows : Online(d, cutoff)}
                        /\ off = {d \in rows : Offline(d, cutoff)}
                        /\ unk = {d \in rows : LastSeen(d) = None}
  OBVIOUS
<1>1. rows = {d \in DOMAIN devices : devices[d].station \in StationsOf(c)}
  BY DEF DevicesOf
<1>2. IsFiniteSet(DOMAIN devices)
  BY Sizes, FS_Interval DEF devices
<1>3. IsFiniteSet(on) /\ IsFiniteSet(off) /\ IsFiniteSet(unk)
  <2>1. IsFiniteSet(rows)
    BY <1>1, <1>2, FS_Subset
  <2> QED
    BY <2>1, FS_Subset
<1>4. cutoff \in Int /\ None \notin Int /\ \A d \in rows : LastSeen(d) \in Nat \cup {None}
  <2>1. clock \in Nat /\ OnlineFor \in Nat
    BY DashboardAssumption DEF DashboardInv, OtherTypes
  <2>2. \A d \in rows : LastSeen(d) \in Nat \cup {None}
    BY DEF LastSeen, DashboardInv, OtherTypes
  <2> QED
    BY <2>1, <2>2, NullIsNoValue
<1>5. /\ on \cap off = {} /\ (on \cup off) \cap unk = {}
      /\ rows = (on \cup off) \cup unk
  <2>1. \A d \in rows : /\ d \in on <=> LastSeen(d) # None /\ LastSeen(d) >= cutoff
                        /\ d \in off <=> LastSeen(d) # None /\ LastSeen(d) < cutoff
                        /\ d \in unk <=> LastSeen(d) = None
    BY DEF Online, Offline
  <2>2. on \subseteq rows /\ off \subseteq rows /\ unk \subseteq rows
    OBVIOUS
  <2>3. \A d \in rows : LastSeen(d) # None => (LastSeen(d) < cutoff <=> ~(LastSeen(d) >= cutoff))
    BY <1>4
  <2> QED
    BY <2>1, <2>2, <2>3
<1>6. /\ Cardinality(rows) = (Cardinality(on) + Cardinality(off)) + Cardinality(unk)
  <2>1. IsFiniteSet(on \cup off) /\ Cardinality(on \cup off) = Cardinality(on) + Cardinality(off)
    BY <1>3, <1>5, CountOfTwo
  <2>2. Cardinality((on \cup off) \cup unk) = Cardinality(on \cup off) + Cardinality(unk)
    BY <1>3, <1>5, <2>1, CountOfTwo
  <2> QED
    BY <1>5, <2>1, <2>2
<1>7. rows = {w \in DOMAIN wash_bays : wash_bays[w].station \in StationsOf(c)}
  <2>1. DOMAIN wash_bays = DOMAIN devices
    BY DEF wash_bays
  <2> QED
    BY <1>1, <2>1, StationOfDevice
<1>8. organization(c).bays = Cardinality(rows)
  BY <1>7 DEF organization
<1> PICK dev : dev = deviceCounts(c, clock)
  OBVIOUS
<1>9. /\ dev.total = Cardinality(rows) /\ dev.online = Cardinality(on)
      /\ dev.offline = Cardinality(off) /\ dev.unknown = Cardinality(unk)
  BY DEF deviceCounts
<1> QED
  BY <1>6, <1>8, <1>9 DEF DevicesAdd

LEMMA FinancialReads ==
  ASSUME NEW a
  PROVE  IsFinancial(financial(a), InScopeOf(a, DOMAIN paid))
BY DEF IsFinancial, financial, InScopeOf, InScope

LEMMA MethodsRead ==
  ASSUME NEW a
  PROVE  IsByMethod(payment_methods(a), InScopeOf(a, DOMAIN paid))
BY DEF IsByMethod, payment_methods, InScopeOf, InScope, OfMethod

LEMMA NextOverviewInv == DashboardInv /\ OverviewInv /\ [Next]_vars => OverviewInv'
<1> SUFFICES ASSUME DashboardInv, OverviewInv, [Next]_vars PROVE OverviewInv'
  OBVIOUS
<1>1. DashboardInv' /\ Grows
  BY NextDashboardInv, NextGrows
<1>2. pc \in [Requests -> Statements \cup {"idle", "done"}]
  BY DEF DashboardInv, PoolInv, PoolTypes
<1>3. ASSUME NEW r \in Overviews,
             \A q \in Overviews : q # r =>
               pc'[q] = pc[q] /\ ask'[q] = ask[q] /\ answer'[q] = answer[q] /\ moment'[q] = moment[q],
             OneInv(r)'
      PROVE  \A q \in Overviews : OneInv(q)'
  BY <1>1, <1>3, IdleOverview DEF OverviewInv
<1>4. ASSUME UNCHANGED << ask, answer, moment >>, \A q \in Overviews : pc'[q] = pc[q]
      PROVE  OverviewInv'
  <2>1. \A q \in Overviews : OneInv(q)'
    BY <1>1, <1>4, IdleOverview DEF OverviewInv
  <2> QED
    BY <1>4, <2>1 DEF OverviewInv
<1>5. ASSUME NEW r \in Overviews, NEW step, NEW next, Statement(r, step, next)
      PROVE  pc[r] = step /\ pc'[r] = next /\ \A q \in Overviews : q # r => pc'[q] = pc[q]
  BY <1>2, <1>5 DEF Statement, Go, Requests
<1>6. ASSUME NEW r \in Overviews, NEW i \in 1 .. 5, NEW block,
             Block(r, BlockSteps[i], AfterBlock[i], block),
             IsBlock(i, block, ask[r], DOMAIN paid)
      PROVE  OverviewInv'
  <2>1. OneInv(r)'
    BY <1>6, ReadBlock
  <2>2. /\ \A q \in Overviews : q # r => pc'[q] = pc[q]
        /\ ask' = ask /\ answer' = [answer EXCEPT ![r] = Append(@, block)]
    BY <1>5, <1>6 DEF Block
  <2>3. \/ moment' = moment
        \/ moment' = [moment EXCEPT ![r][BlockSteps[i]] = DOMAIN paid]
    BY <1>6 DEF Block
  <2>4. /\ answer' = [q \in Overviews |-> answer'[q]]
        /\ \A q \in Overviews : q # r => answer'[q] = answer[q]
    BY <2>2 DEF OverviewInv
  <2>5. /\ moment' = [q \in Overviews |-> moment'[q]]
        /\ \A q \in Overviews : q # r => moment'[q] = moment[q]
    BY <2>3 DEF OverviewInv
  <2>6. \A q \in Overviews : OneInv(q)'
    BY <1>3, <2>1, <2>2, <2>4, <2>5
  <2> QED
    BY <2>2, <2>4, <2>5, <2>6 DEF OverviewInv
<1>7. ASSUME NEW r \in Overviews, pc[r] \in {"organization", "devices", "financial", "methods", "failures"}
      PROVE  ask[r].company \in 1 .. Companies
  BY <1>7 DEF OverviewInv, OneInv, BlocksInv, HasRead, BlockSteps
<1>8. ASSUME NEW r \in Overviews, Organization(r) PROVE OverviewInv'
  <2>1. IsBlock(1, organization(ask[r].company), ask[r], DOMAIN paid)
    BY DEF IsBlock
  <2>2. Block(r, BlockSteps[1], AfterBlock[1], organization(ask[r].company))
    BY <1>8 DEF Organization, BlockSteps, AfterBlock
  <2> QED
    BY <1>6, <2>1, <2>2
<1>9. ASSUME NEW r \in Overviews, DeviceBlock(r) PROVE OverviewInv'
  <2>1. pc[r] = "devices"
    BY <1>9 DEF DeviceBlock, Block, Statement
  <2>2. IsBlock(2, deviceCounts(ask[r].company, clock), ask[r], DOMAIN paid)
    BY <1>7, <2>1, DevicesAreCounted DEF IsBlock
  <2>3. Block(r, BlockSteps[2], AfterBlock[2], deviceCounts(ask[r].company, clock))
    BY <1>9 DEF DeviceBlock, BlockSteps, AfterBlock
  <2> QED
    BY <1>6, <2>2, <2>3
<1>10. ASSUME NEW r \in Overviews, Financial(r) PROVE OverviewInv'
  <2>1. IsBlock(3, financial(ask[r]), ask[r], DOMAIN paid)
    BY FinancialReads DEF IsBlock
  <2>2. Block(r, BlockSteps[3], AfterBlock[3], financial(ask[r]))
    BY <1>10 DEF Financial, BlockSteps, AfterBlock
  <2> QED
    BY <1>6, <2>1, <2>2
<1>11. ASSUME NEW r \in Overviews, Methods_(r) PROVE OverviewInv'
  <2>1. IsBlock(4, payment_methods(ask[r]), ask[r], DOMAIN paid)
    BY MethodsRead DEF IsBlock
  <2>2. Block(r, BlockSteps[4], AfterBlock[4], payment_methods(ask[r]))
    BY <1>11 DEF Methods_, BlockSteps, AfterBlock
  <2> QED
    BY <1>6, <2>1, <2>2
<1>12. ASSUME NEW r \in Overviews, Failures(r) PROVE OverviewInv'
  <2>1. failed_execution_count(ask[r]) \in Nat
    BY <1>1, FailuresGrow
  <2>2. IsBlock(5, failed_execution_count(ask[r]), ask[r], DOMAIN paid)
    BY <2>1 DEF IsBlock
  <2>3. Block(r, BlockSteps[5], AfterBlock[5], failed_execution_count(ask[r]))
    BY <1>12 DEF Failures, BlockSteps, AfterBlock
  <2> QED
    BY <1>6, <2>2, <2>3
<1>13. ASSUME NEW r \in Overviews, UNCHANGED moment,
              \A q \in Overviews : q # r => pc'[q] = pc[q],
              \/ ask' = ask \/ \E b : ask' = [ask EXCEPT ![r] = b],
              \/ answer' = answer \/ \E b : answer' = [answer EXCEPT ![r] = b],
              ~HasRead(r, 1)', HasRead(r, 0)' => ask'[r].company \in 1 .. Companies,
              AskInv(r)', AnswerShape(r)'
       PROVE  OverviewInv'
  <2>1. /\ ask' = [q \in Overviews |-> ask'[q]]
        /\ \A q \in Overviews : q # r => ask'[q] = ask[q]
    BY <1>13 DEF OverviewInv
  <2>2. /\ answer' = [q \in Overviews |-> answer'[q]]
        /\ \A q \in Overviews : q # r => answer'[q] = answer[q]
    BY <1>13 DEF OverviewInv
  <2>3. \A i \in 1 .. 5 : ~HasRead(r, i)'
    BY <1>13 DEF HasRead, BlockSteps
  <2>4. BlocksInv(r)'
    BY <1>13, <2>3 DEF BlocksInv
  <2>5. MomentsInv(r)'
    BY <1>1, <1>13, <2>3 DEF MomentsInv, OverviewInv, OneInv, Grows
  <2>6. OneInv(r)'
    BY <1>13, <2>4, <2>5 DEF OneInv
  <2>7. \A q \in Overviews : OneInv(q)'
    BY <1>3, <1>13, <2>1, <2>2, <2>6
  <2> QED
    BY <1>13, <2>1, <2>2, <2>7 DEF OverviewInv
<1>14. ASSUME NEW r \in Overviews, RefusePanel(r) PROVE OverviewInv'
  <2>1. /\ pc[r] = "auth" /\ pc'[r] = "done" /\ UNCHANGED << ask, answer, moment >>
        /\ \A q \in Overviews : q # r => pc'[q] = pc[q]
    BY <1>5, <1>14 DEF RefusePanel
  <2>2. answer'[r] = None
    BY <2>1 DEF OverviewInv, OneInv, AskInv
  <2>3. AskInv(r)' /\ AnswerShape(r)' /\ ~HasRead(r, 1)' /\ ~HasRead(r, 0)'
    BY <2>1, <2>2 DEF AskInv, AnswerShape, HasRead, BlockSteps
  <2> QED
    BY <1>13, <2>1, <2>3
<1>15. ASSUME NEW r \in Overviews, authenticate_panel(r) PROVE OverviewInv'
  <2>1. /\ pc[r] = "auth" /\ pc'[r] = "company" /\ UNCHANGED << answer, moment >>
        /\ \A q \in Overviews : q # r => pc'[q] = pc[q]
    BY <1>5, <1>15 DEF authenticate_panel
  <2>2. PICK c \in 1 .. Companies :
          ask' = [ask EXCEPT ![r].company = c, ![r].bounds = period_bounds(ask[r].period, clock)]
    BY <1>15 DEF authenticate_panel
  <2>3. ask[r] = [company |-> ask[r].company, period |-> ask[r].period, bounds |-> ask[r].bounds]
    BY <2>1 DEF OverviewInv, OneInv, AskInv
  <2> PICK a, days : a = ask[r] /\ days = period_bounds(ask[r].period, clock)
    OBVIOUS
  <2> PICK b : b = [company |-> c, period |-> a.period, bounds |-> days]
    OBVIOUS
  <2>4. ask' = [ask EXCEPT ![r] = b] /\ ask'[r] = b
    <3>1. ask = [q \in Overviews |-> ask[q]]
      BY DEF OverviewInv
    <3>2. ask' = [[ask EXCEPT ![r].company = c] EXCEPT ![r].bounds = days]
      BY <2>2
    <3>3. b = [[a EXCEPT !.company = c] EXCEPT !.bounds = days]
      <4> PICK x, y, z : x = a.company /\ y = a.period /\ z = a.bounds
        OBVIOUS
      <4>1. a = [company |-> x, period |-> y, bounds |-> z]
        BY <2>3
      <4>2. [[a EXCEPT !.company = c] EXCEPT !.bounds = days] = [company |-> c, period |-> y, bounds |-> days]
        <5>1. [a EXCEPT !.company = c] = [company |-> c, period |-> y, bounds |-> z]
          BY ONLY <4>1
        <5>2. [[company |-> c, period |-> y, bounds |-> z] EXCEPT !.bounds = days]
                = [company |-> c, period |-> y, bounds |-> days]
          BY ONLY TRUE
        <5> QED
          BY ONLY <5>1, <5>2, Zenon
      <4> QED
        BY <4>2
    <3>4. [ask EXCEPT ![r].company = c] = [ask EXCEPT ![r] = [a EXCEPT !.company = c]]
      BY <3>1
    <3>5. ask'[r] = b
      BY <3>1, <3>2, <3>3, <3>4
    <3>6. ask' = [ask EXCEPT ![r] = b]
      BY <3>1, <3>2, <3>3, <3>4
    <3> QED
      BY <3>5, <3>6
  <2>5. answer'[r] = None
    BY <2>1 DEF OverviewInv, OneInv, AskInv
  <2>6. AskInv(r)' /\ AnswerShape(r)' /\ ~HasRead(r, 1)' /\ ~HasRead(r, 0)'
    BY <2>1, <2>4, <2>5 DEF AskInv, AnswerShape, HasRead, BlockSteps
  <2> QED
    BY <1>13, <2>1, <2>4, <2>6
<1>16. ASSUME NEW r \in Overviews, FindCompany(r) PROVE OverviewInv'
  <2>1. /\ pc[r] = "company" /\ pc'[r] = "organization" /\ UNCHANGED << ask, moment >>
        /\ \A q \in Overviews : q # r => pc'[q] = pc[q]
        /\ answer' = [answer EXCEPT ![r] = << >>]
    BY <1>5, <1>16 DEF FindCompany
  <2>2. answer'[r] = << >> /\ ask'[r].company \in 1 .. Companies
    BY <2>1 DEF OverviewInv, OneInv, AskInv
  <2>3. IsTuple(answer'[r], 0)
    BY <2>2, NoTuple
  <2>4. AskInv(r)'
    BY <2>1 DEF AskInv
  <2>5. AnswerShape(r)'
    <3>1. \A i \in 1 .. 5 : BlockSteps[i] = "organization" => i - 1 = 0
      BY DEF BlockSteps
    <3>2. \A i \in 1 .. 5 : pc'[r] = BlockSteps[i] => IsTuple(answer'[r], i - 1)
      BY <2>1, <2>3, <3>1
    <3> QED
      BY <3>2 DEF AnswerShape, IsTuple
  <2>6. ~HasRead(r, 1)'
    BY <2>1 DEF HasRead, BlockSteps
  <2> QED
    BY <1>13, <2>1, <2>2, <2>4, <2>5, <2>6
<1>17. ASSUME NEW r \in Overviews, ArriveOverview(r) PROVE OverviewInv'
  <2>1. /\ pc[r] = "idle" /\ UNCHANGED << answer, moment >>
        /\ \A q \in Overviews : q # r => pc'[q] = pc[q]
        /\ \/ pc'[r] = "done" /\ ask' = ask
           \/ /\ pc'[r] = "auth"
              /\ \E period : ask' = [ask EXCEPT ![r] = [company |-> None, period |-> period, bounds |-> << 0, 0 >>]]
    BY <1>2, <1>17 DEF ArriveOverview, Go, Requests
  <2>2. answer'[r] = None
    BY <2>1 DEF OverviewInv, OneInv, AskInv
  <2>3. AskInv(r)'
    BY <2>1, <2>2 DEF AskInv, OverviewInv
  <2>4. AnswerShape(r)' /\ ~HasRead(r, 1)' /\ ~HasRead(r, 0)'
    BY <2>1, <2>2 DEF AnswerShape, HasRead, BlockSteps
  <2>5. ask' = ask \/ \E b : ask' = [ask EXCEPT ![r] = b]
    BY <2>1
  <2> QED
    BY <1>13, <2>1, <2>3, <2>4, <2>5
<1>18. ASSUME NEW r \in Requests, Abort(r) PROVE OverviewInv'
  <2>1. /\ pc'[r] = "done" /\ \A q \in Overviews : q # r => pc'[q] = pc[q]
        /\ UNCHANGED << ask, moment >>
        /\ answer' = [o \in Overviews |-> IF o = r THEN None ELSE answer[o]]
    BY <1>2, <1>18 DEF Abort, Go, Requests
  <2>2. CASE r \notin Overviews
    <3>1. answer' = answer /\ \A q \in Overviews : pc'[q] = pc[q]
      BY <2>1, <2>2 DEF OverviewInv
    <3> QED
      BY <1>4, <2>1, <3>1
  <2>3. CASE r \in Overviews
    <3>1. answer'[r] = None /\ answer' = [answer EXCEPT ![r] = None]
      BY <2>1, <2>3 DEF OverviewInv
    <3>2. AskInv(r)' /\ AnswerShape(r)' /\ ~HasRead(r, 1)' /\ ~HasRead(r, 0)'
      BY <2>1, <3>1 DEF AskInv, AnswerShape, HasRead, BlockSteps
    <3> QED
      BY <1>13, <2>1, <2>3, <3>1, <3>2
  <2> QED
    BY <2>2, <2>3
<1>19. ASSUME NEW r \in Requests, Checkout(r) PROVE OverviewInv'
  BY <1>4, <1>19 DEF Checkout
<1>20. ASSUME NEW r \in Payers,
              Begin(r) \/ LockKey(r) \/ Replay(r) \/ Write(r) \/ Commit(r) \/ Payload(r) \/ ArrivePayer(r)
       PROVE  OverviewInv'
  <2>1. UNCHANGED << ask, answer, moment >> /\ \E step : Go(r, step)
    BY <1>20 DEF Begin, LockKey, Replay, Write, Commit, Payload, ArrivePayer
  <2>2. \A q \in Overviews : pc'[q] = pc[q]
    BY <1>2, <2>1, DashboardAssumption DEF Go, Requests
  <2> QED
    BY <1>4, <2>1, <2>2
<1>21. CASE \/ UNCHANGED vars \/ Over \/ Tick
            \/ \E d \in PayDevices : Heartbeat(d)
            \/ \E e \in Failing : ProgramFails(e)
  BY <1>4, <1>21 DEF vars, Over, Tick, Heartbeat, ProgramFails
<1>22. ASSUME NEW r \in Requests, Serve(r) PROVE OverviewInv'
  BY <1>8, <1>9, <1>10, <1>11, <1>12, <1>14, <1>15, <1>16, <1>19, <1>20, <1>22 DEF Serve
<1> QED
  BY <1>17, <1>18, <1>20, <1>21, <1>22 DEF Next

LEMMA InitOverviewInv == Init => OverviewInv
<1> SUFFICES ASSUME Init PROVE OverviewInv
  OBVIOUS
<1>1. ask = [r \in Overviews |-> ask[r]] /\ answer = [r \in Overviews |-> answer[r]]
      /\ moment = [r \in Overviews |-> moment[r]]
  BY DEF Init
<1>2. ASSUME NEW r \in Overviews PROVE OneInv(r)
  <2>1. pc[r] = "idle" /\ answer[r] = None /\ moment[r] = [financial |-> {}, methods |-> {}]
    BY DEF Init, Requests
  <2>2. \A i \in 0 .. 5 : ~HasRead(r, i)
    BY <2>1 DEF HasRead, BlockSteps
  <2>3. AskInv(r) /\ AnswerShape(r)
    BY <2>1 DEF AskInv, AnswerShape, BlockSteps
  <2>4. MomentsInv(r) /\ BlocksInv(r)
    BY <2>1, <2>2 DEF MomentsInv, BlocksInv
  <2> QED
    BY <2>3, <2>4 DEF OneInv
<1> QED
  BY <1>1, <1>2 DEF OverviewInv

LEMMA OverviewInvHolds == Spec => [](DashboardInv /\ OverviewInv)
<1>1. Init => DashboardInv /\ OverviewInv
  BY InitDashboardInv, InitOverviewInv
<1>2. DashboardInv /\ OverviewInv /\ [Next]_vars => DashboardInv' /\ OverviewInv'
  BY NextDashboardInv, NextOverviewInv
<1> QED
  BY <1>1, <1>2, PTL DEF Spec

\* The types of a state of any instance; no more connections than the pool has.
THEOREM DashboardTypes == Spec => []TypeOK
<1>1. DashboardInv => TypeOK
  <2> SUFFICES ASSUME DashboardInv PROVE TypeOK
    OBVIOUS
  <2>1. conns \in [Requests -> 0 .. PoolSize]
    <3>1. \A n \in {0, 1} : n \in 0 .. PoolSize
      BY DashboardAssumption
    <3> QED
      BY <3>1 DEF DashboardInv, PoolInv, PoolTypes
  <2>2. \A p \in DOMAIN paid : paid[p] \in Row
    BY DEF DashboardInv, RowsInv, GoodRow
  <2> QED
    BY <2>1, <2>2 DEF TypeOK, DashboardInv, PoolInv, PoolTypes, RowsInv, OtherTypes
<1> QED
  BY <1>1, DashboardInvHolds, PTL

\* Whatever sizes a profile has, as long as SizeAssumption holds of them, the
\* arithmetic of the seed and of the scripts agree, and so do the rows added.
THEOREM FixturesAlwaysServe == Spec => []FixturesServeTheRuns
<1>1. DashboardInv => FixturesServeTheRuns
  BY SeedServes DEF DashboardInv, RowsInv, GoodRow, FixturesServeTheRuns
<1> QED
  BY <1>1, DashboardInvHolds, PTL
-----------------------------------------------------------------------------
(***************************************************************************)
(* The blocks against one another.                                         *)
(***************************************************************************)

LEMMA StatusesExhaust ==
  ASSUME NEW rows, IsFiniteSet(rows), \A p \in rows : Payment(p).status \in Statuses
  PROVE  /\ \A s : IsFiniteSet(OfStatus(rows, s)) /\ Cardinality(OfStatus(rows, s)) \in Nat
         /\ Cardinality(OfStatus(rows, "SUCCESS")) + Cardinality(OfStatus(rows, "FAILED"))
              + Cardinality(OfStatus(rows, "PENDING")) + Cardinality(OfStatus(rows, "CANCELLED"))
              = Cardinality(rows)
<1>1. \A s : OfStatus(rows, s) \subseteq rows
  BY DEF OfStatus
<1>2. \A s : IsFiniteSet(OfStatus(rows, s)) /\ Cardinality(OfStatus(rows, s)) \in Nat
  BY <1>1, FS_Subset, FS_CardinalityType
<1> PICK A, B, C, D : /\ A = OfStatus(rows, "SUCCESS") /\ B = OfStatus(rows, "FAILED")
                      /\ C = OfStatus(rows, "PENDING") /\ D = OfStatus(rows, "CANCELLED")
  OBVIOUS
<1>3. /\ A \cap B = {} /\ (A \cup B) \cap C = {} /\ ((A \cup B) \cup C) \cap D = {}
      /\ rows = ((A \cup B) \cup C) \cup D
  BY DEF OfStatus, Statuses
<1>4. IsFiniteSet(A) /\ IsFiniteSet(B) /\ IsFiniteSet(C) /\ IsFiniteSet(D)
  BY <1>2
<1>5. IsFiniteSet(A \cup B) /\ Cardinality(A \cup B) = Cardinality(A) + Cardinality(B)
  BY ONLY <1>3, <1>4, CountOfTwo, Zenon
<1>6. /\ IsFiniteSet((A \cup B) \cup C)
      /\ Cardinality((A \cup B) \cup C) = Cardinality(A \cup B) + Cardinality(C)
  BY ONLY <1>3, <1>4, <1>5, CountOfTwo, Zenon
<1>7. Cardinality(rows) = Cardinality((A \cup B) \cup C) + Cardinality(D)
  <2>1. Cardinality(((A \cup B) \cup C) \cup D) = Cardinality((A \cup B) \cup C) + Cardinality(D)
    BY ONLY <1>3, <1>4, <1>6, CountOfTwo, Zenon
  <2> QED
    BY ONLY <1>3, <2>1, Zenon
<1> PICK a, b, c, d : a = Cardinality(A) /\ b = Cardinality(B) /\ c = Cardinality(C) /\ d = Cardinality(D)
  OBVIOUS
<1>8. Cardinality(rows) = ((a + b) + c) + d /\ a \in Nat /\ b \in Nat /\ c \in Nat /\ d \in Nat
  BY <1>2, <1>5, <1>6, <1>7
<1>9. /\ a = Cardinality(OfStatus(rows, "SUCCESS")) /\ b = Cardinality(OfStatus(rows, "FAILED"))
      /\ c = Cardinality(OfStatus(rows, "PENDING")) /\ d = Cardinality(OfStatus(rows, "CANCELLED"))
  OBVIOUS
<1> QED
  BY <1>2, <1>8, <1>9

LEMMA GrossIsSum ==
  ASSUME NEW rows, IsFiniteSet(rows), NEW g, NEW X, OfStatus(rows, "SUCCESS") \subseteq X,
         g = [p \in X |-> Payment(p).amount]
  PROVE  Gross(rows) = Sum(g, OfStatus(rows, "SUCCESS"))
<1> PICK ok : ok = OfStatus(rows, "SUCCESS")
  OBVIOUS
<1> PICK k : k = [p \in ok |-> Payment(p).amount]
  OBVIOUS
<1>1. IsFiniteSet(ok)
  BY FS_Subset DEF OfStatus
<1>2. Gross(rows) = Total(k, ok)
  BY DEF Gross
<1>3. Total(k, ok) = Sum(k, ok)
  BY <1>1, TotalIsSum
<1>4. \A p \in ok : k[p] = g[p]
  OBVIOUS
<1>5. Sum(k, ok) = Sum(g, ok)
  BY ONLY <1>1, <1>4, SumOfSame, Zenon
<1> QED
  BY <1>2, <1>3, <1>5

\* What the methods count adds up to what all payments together count.
LEMMA MethodsAddUp ==
  ASSUME NEW rows, IsFiniteSet(rows),
         \A p \in rows : Payment(p).method \in Methods /\ Payment(p).amount \in Nat,
         NEW met, IsByMethod(met, rows)
  PROVE  /\ SumOf(met, "total") = Cardinality(rows)
         /\ SumOf(met, "success") = Cardinality(OfStatus(rows, "SUCCESS"))
         /\ SumOf(met, "amount") = Gross(rows)
<1> PICK M : M = {Payment(p).method : p \in rows}
  OBVIOUS
<1> PICK ok : ok = OfStatus(rows, "SUCCESS")
  OBVIOUS
<1> PICK key : key = [p \in rows |-> Payment(p).method]
  OBVIOUS
<1>1. /\ DOMAIN met = M
      /\ \A m \in M : /\ met[m]["total"] = Cardinality(OfMethod(rows, m))
                      /\ met[m]["success"] = Cardinality(OfStatus(OfMethod(rows, m), "SUCCESS"))
                      /\ met[m]["amount"] = Gross(OfMethod(rows, m))
  BY DEF IsByMethod
<1>2. IsFiniteSet(M)
  <2>1. IsFiniteSet({})
    BY FS_EmptySet
  <2>2. IsFiniteSet({} \cup {"CARD"})
    BY <2>1, FS_AddElement
  <2>3. IsFiniteSet(({} \cup {"CARD"}) \cup {"QR"})
    BY <2>2, FS_AddElement
  <2>4. IsFiniteSet((({} \cup {"CARD"}) \cup {"QR"}) \cup {"RF_CARD"})
    BY <2>3, FS_AddElement
  <2>5. Methods = (({} \cup {"CARD"}) \cup {"QR"}) \cup {"RF_CARD"}
    BY DEF Methods
  <2>6. M \subseteq Methods
    OBVIOUS
  <2> QED
    BY <2>4, <2>5, <2>6, FS_Subset
<1>3. /\ ok \subseteq rows /\ IsFiniteSet(ok)
      /\ \A m : OfMethod(rows, m) \subseteq rows /\ IsFiniteSet(OfMethod(rows, m))
  <2>1. ok \subseteq rows /\ \A m : OfMethod(rows, m) \subseteq rows
    BY DEF OfStatus, OfMethod
  <2> QED
    BY <2>1, FS_Subset
<1>4. \A m : /\ OfMethod(rows, m) = Group(rows, key, m)
             /\ OfStatus(OfMethod(rows, m), "SUCCESS") = Group(ok, key, m)
  BY DEF OfMethod, OfStatus, Group
<1>5. \A p \in rows : key[p] \in M
  OBVIOUS
<1>6. SumOf(met, "total") = Cardinality(rows)
  <2> PICK g : g = [p \in rows |-> 1]
    OBVIOUS
  <2> PICK h : h = [m \in M |-> met[m]["total"]]
    OBVIOUS
  <2>1. ASSUME NEW m \in M PROVE h[m] = Sum(g, Group(rows, key, m))
    <3> PICK part : part = OfMethod(rows, m)
      OBVIOUS
    <3>1. IsFiniteSet(part) /\ \A p \in part : g[p] = 1
      BY <1>3
    <3>2. Sum(g, part) = Cardinality(part)
      BY ONLY <3>1, SumOfOnes, Zenon
    <3>3. h[m] = Cardinality(part)
      BY <1>1
    <3> QED
      BY <1>4, <3>2, <3>3
  <2>2. Sum(h, M) = Sum(g, rows)
    <3>1. IsFiniteSet(rows) /\ \A p \in rows : g[p] \in Int /\ key[p] \in M
      BY <1>3, <1>5
    <3> QED
      BY ONLY <1>2, <2>1, <3>1, GroupsAddUp, SMT
  <2>3. Sum(g, rows) = Cardinality(rows)
    <3>1. \A p \in rows : g[p] = 1
      OBVIOUS
    <3> QED
      BY <3>1, SumOfOnes
  <2>4. SumOf(met, "total") = Sum(h, M)
    <3>1. SumOf(met, "total") = Total(h, M)
      BY <1>1 DEF SumOf
    <3> QED
      BY <1>2, <3>1, TotalIsSum
  <2> QED
    BY <2>2, <2>3, <2>4
<1>7. SumOf(met, "success") = Cardinality(ok)
  <2> PICK g : g = [p \in ok |-> 1]
    OBVIOUS
  <2> PICK h : h = [m \in M |-> met[m]["success"]]
    OBVIOUS
  <2>1. ASSUME NEW m \in M PROVE h[m] = Sum(g, Group(ok, key, m))
    <3> PICK part : part = Group(ok, key, m)
      OBVIOUS
    <3>1. IsFiniteSet(part) /\ \A p \in part : g[p] = 1
      <4>1. part \subseteq ok
        BY DEF Group
      <4> QED
        BY <1>3, <4>1, FS_Subset
    <3>2. Sum(g, part) = Cardinality(part)
      BY ONLY <3>1, SumOfOnes, Zenon
    <3>3. h[m] = Cardinality(part)
      BY <1>1, <1>4
    <3> QED
      BY <3>2, <3>3
  <2>2. Sum(h, M) = Sum(g, ok)
    <3>1. IsFiniteSet(ok) /\ \A p \in ok : g[p] \in Int /\ key[p] \in M
      BY <1>3, <1>5
    <3> QED
      BY ONLY <1>2, <2>1, <3>1, GroupsAddUp, SMT
  <2>3. Sum(g, ok) = Cardinality(ok)
    <3>1. \A p \in ok : g[p] = 1
      OBVIOUS
    <3> QED
      BY ONLY <1>3, <3>1, SumOfOnes, Zenon
  <2>4. SumOf(met, "success") = Sum(h, M)
    <3>1. SumOf(met, "success") = Total(h, M)
      BY <1>1 DEF SumOf
    <3> QED
      BY <1>2, <3>1, TotalIsSum
  <2> QED
    BY <2>2, <2>3, <2>4
<1>8. SumOf(met, "amount") = Gross(rows)
  <2> PICK g : g = [p \in ok |-> Payment(p).amount]
    OBVIOUS
  <2> PICK h : h = [m \in M |-> met[m]["amount"]]
    OBVIOUS
  <2>1. ASSUME NEW m \in M PROVE h[m] = Sum(g, Group(ok, key, m))
    <3> PICK part : part = OfMethod(rows, m)
      OBVIOUS
    <3>1. IsFiniteSet(part) /\ OfStatus(part, "SUCCESS") = Group(ok, key, m)
      BY <1>3, <1>4
    <3>2. OfStatus(part, "SUCCESS") \subseteq ok
      BY <3>1 DEF Group
    <3>3. Gross(part) = Sum(g, OfStatus(part, "SUCCESS"))
      BY <3>1, <3>2, GrossIsSum
    <3>4. h[m] = Gross(part)
      BY <1>1
    <3> QED
      BY <3>1, <3>3, <3>4
  <2>2. Sum(h, M) = Sum(g, ok)
    <3>1. IsFiniteSet(ok) /\ \A p \in ok : g[p] \in Int /\ key[p] \in M
      BY <1>3, <1>5
    <3> QED
      BY ONLY <1>2, <2>1, <3>1, GroupsAddUp, SMT
  <2>3. Gross(rows) = Sum(g, ok)
    BY GrossIsSum
  <2>4. SumOf(met, "amount") = Sum(h, M)
    <3>1. SumOf(met, "amount") = Total(h, M)
      BY <1>1 DEF SumOf
    <3> QED
      BY <1>2, <3>1, TotalIsSum
  <2> QED
    BY <2>2, <2>3, <2>4
<1> QED
  BY <1>6, <1>7, <1>8

\* The payments of a question committed between P and Q, by the other path to
\* their company.
NewBetween(a, P, Q) ==
  {p \in Q \ P : programs[paid[p].program].company = a.company /\ Within(paid[p].created, a.bounds)}

LEMMA ScopeGrows ==
  ASSUME DashboardInv, NEW a, a.company \in 1 .. Companies,
         NEW Q \in SUBSET DOMAIN paid, NEW P \in SUBSET Q
  PROVE  /\ InScopeOf(a, Q) = InScopeOf(a, P) \cup NewBetween(a, P, Q)
         /\ InScopeOf(a, P) \cap NewBetween(a, P, Q) = {}
         /\ \A p \in NewBetween(a, P, Q) : Payment(p) = paid[p]
<1>1. ASSUME NEW p \in Q
      PROVE  /\ p \in Payers /\ p \notin DOMAIN seedPayments
             /\ paid[p].station \in StationsOf(a.company)
                  <=> programs[paid[p].program].company = a.company
  <2>1. p \in DOMAIN paid /\ p \in Payers /\ GoodRow(paid[p])
    BY DEF DashboardInv, RowsInv
  <2> PICK x : x = paid[p]
    OBVIOUS
  <2>2. /\ x.station \in DOMAIN stations
        /\ programs[x.program].company = stations[x.station].company
    BY <2>1 DEF GoodRow, CompanyOf, Row
  <2>3. x.station \in StationsOf(a.company) <=> programs[x.program].company = a.company
    BY <2>2 DEF StationsOf
  <2> QED
    BY <2>1, <2>3, DashboardAssumption
<1>2. SeedOf[a.company] \subseteq DOMAIN seedPayments
  BY DEF SeedOf
<1> PICK seeded : seeded = IF Within(0, a.bounds) THEN SeedOf[a.company] ELSE {}
  OBVIOUS
<1>3. /\ \A R : InScopeOf(a, R) = seeded \cup {p \in R : /\ paid[p].station \in StationsOf(a.company)
                                                       /\ Within(paid[p].created, a.bounds)}
      /\ seeded \subseteq DOMAIN seedPayments
  BY <1>2 DEF InScopeOf
<1>4. InScopeOf(a, Q) = InScopeOf(a, P) \cup NewBetween(a, P, Q)
  BY <1>1, <1>3 DEF NewBetween
<1>5. InScopeOf(a, P) \cap NewBetween(a, P, Q) = {}
  BY <1>1, <1>3 DEF NewBetween
<1>6. \A p \in NewBetween(a, P, Q) : Payment(p) = paid[p]
  BY DEF NewBetween, Payment
<1> QED
  BY <1>4, <1>5, <1>6

\* What the blocks of a finished overview say to one another.
LEMMA BlocksOfFinished ==
  ASSUME DashboardInv, OverviewInv, NEW r \in Overviews, answer[r] # None, pc[r] = "done"
  PROVE  LET fin == answer[r][3]
             met == answer[r][4]
             new == CommittedBetween(r)
             ok  == {p \in new : paid[p].status = "SUCCESS"}
         IN  /\ fin.success + fin.failed + fin.pending + fin.cancelled = fin.total
             /\ SumOf(met, "total") = fin.total + Cardinality(new)
             /\ SumOf(met, "success") = fin.success + Cardinality(ok)
             /\ SumOf(met, "amount") = fin.gross + Total([p \in ok |-> paid[p].amount], ok)
<1> PICK a, P, Q, fin, met :
      /\ a = ask[r] /\ P = moment[r].financial /\ Q = moment[r].methods
      /\ fin = answer[r][3] /\ met = answer[r][4]
  OBVIOUS
<1> PICK S, T, N : S = InScopeOf(a, P) /\ T = InScopeOf(a, Q) /\ N = NewBetween(a, P, Q)
  OBVIOUS
<1>1. HasRead(r, 0) /\ HasRead(r, 3) /\ HasRead(r, 4) /\ OneInv(r)
  BY DEF HasRead, OverviewInv
<1>2. /\ a.company \in 1 .. Companies /\ Q \in SUBSET DOMAIN paid /\ P \in SUBSET Q
      /\ IsFinancial(fin, S) /\ IsByMethod(met, T)
  BY <1>1 DEF OneInv, BlocksInv, MomentsInv
<1>3. T = S \cup N /\ S \cap N = {} /\ \A p \in N : Payment(p) = paid[p]
  BY <1>2, ScopeGrows
<1>4. /\ IsFiniteSet(S) /\ IsFiniteSet(T)
      /\ \A p \in S : Payment(p).status \in Statuses /\ Payment(p).amount \in Nat
      /\ \A p \in T : Payment(p).method \in Methods /\ Payment(p).amount \in Nat
  <2>1. P \in SUBSET DOMAIN paid
    BY <1>2
  <2> QED
    BY <1>2, <2>1, RowsOfScope
<1>5. N = CommittedBetween(r) /\ IsFiniteSet(N)
  <2>1. N = CommittedBetween(r)
    BY DEF NewBetween, CommittedBetween
  <2>2. N \subseteq T
    BY <1>3
  <2> QED
    BY <1>4, <2>1, <2>2, FS_Subset
<1> PICK okS, okN, okT : /\ okS = OfStatus(S, "SUCCESS") /\ okT = OfStatus(T, "SUCCESS")
                         /\ okN = {p \in N : paid[p].status = "SUCCESS"}
  OBVIOUS
<1>6. okT = okS \cup okN /\ okS \cap okN = {} /\ IsFiniteSet(okS) /\ IsFiniteSet(okN)
  <2>1. okT = okS \cup okN /\ okS \cap okN = {}
    BY <1>3 DEF OfStatus
  <2>2. okS \subseteq S /\ okN \subseteq N
    BY DEF OfStatus
  <2> QED
    BY <1>4, <1>5, <2>1, <2>2, FS_Subset
<1>7. fin.success + fin.failed + fin.pending + fin.cancelled = fin.total
  BY <1>2, <1>4, StatusesExhaust DEF IsFinancial
<1>8. SumOf(met, "total") = fin.total + Cardinality(N)
  <2>1. SumOf(met, "total") = Cardinality(T)
    BY <1>2, <1>4, MethodsAddUp
  <2>2. Cardinality(S \cup N) = Cardinality(S) + Cardinality(N)
    BY <1>3, <1>4, <1>5, CountOfTwo
  <2> QED
    BY <1>2, <1>3, <2>1, <2>2 DEF IsFinancial
<1>9. SumOf(met, "success") = fin.success + Cardinality(okN)
  <2>1. SumOf(met, "success") = Cardinality(okT)
    BY <1>2, <1>4, MethodsAddUp
  <2>2. Cardinality(okS \cup okN) = Cardinality(okS) + Cardinality(okN)
    BY <1>6, CountOfTwo
  <2> QED
    BY <1>2, <1>6, <2>1, <2>2 DEF IsFinancial
<1>10. SumOf(met, "amount") = fin.gross + Total([p \in okN |-> paid[p].amount], okN)
  <2> PICK g : g = [p \in okT |-> Payment(p).amount]
    OBVIOUS
  <2> PICK k : k = [p \in okN |-> paid[p].amount]
    OBVIOUS
  <2>1. SumOf(met, "amount") = Gross(T)
    BY <1>2, <1>4, MethodsAddUp
  <2>2. Gross(T) = Sum(g, okT) /\ Gross(S) = Sum(g, okS)
    BY <1>4, <1>6, GrossIsSum
  <2>3. Sum(g, okS \cup okN) = Sum(g, okS) + Sum(g, okN)
    <3>1. \A p \in okS \cup okN : g[p] \in Int
      BY <1>4, <1>6 DEF OfStatus
    <3> QED
      BY ONLY <1>6, <3>1, SumOfUnion
  <2>4. Sum(g, okN) = Sum(k, okN)
    <3>1. \A p \in okN : g[p] = k[p]
      BY <1>3, <1>6
    <3> QED
      BY ONLY <1>6, <3>1, SumOfSame, Zenon
  <2>5. Total(k, okN) = Sum(k, okN)
    BY <1>6, TotalIsSum
  <2>6. fin.gross = Gross(S)
    BY <1>2 DEF IsFinancial
  <2> QED
    BY <1>6, <2>1, <2>2, <2>3, <2>4, <2>5, <2>6
<1> QED
  BY <1>5, <1>7, <1>8, <1>9, <1>10

\* However many payments commit between the statements of an overview, and
\* whatever they are, its blocks differ by them and by nothing else.
THEOREM BlocksAlwaysAgree == Spec => []BlocksAgreeUpToCommits
<1>1. DashboardInv /\ OverviewInv => BlocksAgreeUpToCommits
  <2> SUFFICES ASSUME DashboardInv, OverviewInv,
                      NEW r \in Overviews, answer[r] # None, pc[r] = "done"
               PROVE  LET org == answer[r][1]
                          dev == answer[r][2]
                          fin == answer[r][3]
                          met == answer[r][4]
                          new == CommittedBetween(r)
                          ok  == {p \in new : paid[p].status = "SUCCESS"}
                      IN  /\ dev.online + dev.offline + dev.unknown = dev.total
                          /\ dev.total = org.bays
                          /\ fin.success + fin.failed + fin.pending + fin.cancelled = fin.total
                          /\ SumOf(met, "total") = fin.total + Cardinality(new)
                          /\ SumOf(met, "success") = fin.success + Cardinality(ok)
                          /\ SumOf(met, "amount") = fin.gross + Total([p \in ok |-> paid[p].amount], ok)
                          /\ answer[r][5] <= failed_execution_count(ask[r])
    BY DEF BlocksAgreeUpToCommits
  <2>1. HasRead(r, 1) /\ HasRead(r, 2) /\ HasRead(r, 5) /\ OneInv(r)
    BY DEF HasRead, OverviewInv
  <2>2. /\ answer[r][1] = organization(ask[r].company)
        /\ DevicesAdd(answer[r][2], ask[r].company)
        /\ answer[r][5] <= failed_execution_count(ask[r])
    BY <2>1 DEF OneInv, BlocksInv
  <2>3. LET org == answer[r][1]
            dev == answer[r][2]
        IN  /\ dev.online + dev.offline + dev.unknown = dev.total
            /\ dev.total = org.bays
    BY <2>2 DEF DevicesAdd
  <2> QED
    BY <2>2, <2>3, BlocksOfFinished
<1> QED
  BY <1>1, OverviewInvHolds, PTL
=============================================================================
