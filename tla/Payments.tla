------------------------------ MODULE Payments ------------------------------
(***************************************************************************)
(* POST /api/v1/device/payments over one PostgreSQL database: concurrent    *)
(* requests, each one READ COMMITTED transaction that takes the advisory    *)
(* lock of its (device, Idempotency-Key) pair, looks the key up, runs the   *)
(* guards, locks the QR code or the wallet it spends, inserts its rows and  *)
(* commits.                                                                 *)
(*                                                                          *)
(* A slot is one HTTP request; a client's retry is another slot that sends  *)
(* the same key and body.  What a transaction wrote and has not committed   *)
(* is its draft; commit publishes the draft in the tables and releases the  *)
(* locks, an abort (crash of the API process, dropped connection, the       *)
(* 5 s deadline of the Go handler, an SQL error) forgets it.                *)
(***************************************************************************)
EXTENDS PaymentGuards, FiniteSetsExt

CONSTANTS
  Slots,        \* HTTP requests
  IdemKeys,     \* (device, Idempotency-Key) pairs
  QrCodes,      \* rows of qr_codes
  Wallets,      \* rows of rf_wallets, one per card
  Bodies,       \* request bodies
  Facts,        \* what the guard statements may see (see PaymentGuards)
  UsageLimit,   \* [QrCodes -> usage_limit]
  QrAmount,     \* [QrCodes -> amount_minor]
  Opening       \* [Wallets -> balance_minor when the system starts]

ASSUME SlotsAssumption == IsFiniteSet(Slots) /\ None \notin Slots

ASSUME LocksAssumption ==
  /\ None \notin IdemKeys \cup QrCodes \cup Wallets
  /\ UnreadableUid \notin Wallets
  /\ IdemKeys \cap QrCodes = {}
  /\ IdemKeys \cap Wallets = {}
  /\ QrCodes \cap Wallets = {}

ASSUME AmountsAssumption ==
  /\ UsageLimit \in [QrCodes -> Nat \ {0}]
  /\ QrAmount \in [QrCodes -> Nat]
  /\ Opening \in [Wallets -> Nat]

ASSUME BodiesAssumption ==
  \A b \in Bodies :
    /\ b.method \in Methods
    /\ b.qr \in QrCodes \cup {None}
    /\ b.rf \in Wallets \cup {None, UnreadableUid}

ASSUME FactsAssumption ==
  \A f \in Facts : f.price \in Nat /\ f.qrInDate \in BOOLEAN /\ f.cardValid \in BOOLEAN

Locks == IdemKeys \cup QrCodes \cup Wallets

Statuses == {"SUCCESS", "FAILED", "CANCELLED", "PENDING"}

Errors == {None, "CARD_DECLINED", "CARD_CANCELLED", "INSUFFICIENT_FUNDS",
           "PROVIDER_ERROR", "QR_INVALID", "RF_CARD_INVALID", "RF_INSUFFICIENT_BALANCE"}

\* What a transaction is about to write: the payment row, and for a QR code
\* the absolute usage_count its UPDATE stores.
Drafts == [status : Statuses, error : Errors, amount : Nat,
           qr : QrCodes \cup {None}, usage : Nat, wallet : Wallets \cup {None}]

NoDraft == [status |-> "PENDING", error |-> None, amount |-> 0,
            qr |-> None, usage |-> 0, wallet |-> None]

\* A row of payment_transactions.  The slot that created it is its id.
PaymentRows == [id : Slots, key : IdemKeys, body : Bodies, status : Statuses,
                error : Errors, amount : Nat, qr : QrCodes \cup {None},
                wallet : Wallets \cup {None}]

ChildTables == {"payment_attempts", "provider_transactions", "start_rights",
                "events", "audit_entries"}

\* The places of a request in its handler, the ones inside its transaction,
\* and the ones it ends in.
InTransaction == {"locking", "lookup", "guards", "method", "insert", "commit"}
Ended == {"answered", "lost"}
Places == {"idle", "replying"} \cup InTransaction \cup Ended

VARIABLES
  payments,   \* payment_transactions, committed rows
  children,   \* committed rows of ChildTables: [table, payment]
  ledger,     \* committed DEBIT rows of rf_wallet_ledger
  qr,         \* qr_codes: [usage, status]
  wallet,     \* rf_wallets: [balance, version]
  owner,      \* who holds each advisory or row lock, None when free
  pc,         \* where each request is
  key,        \* its Idempotency-Key, paired with its device
  body,       \* its body
  seen,       \* what its guard statements saw
  draft,      \* its uncommitted writes
  reply       \* the answer it computed: [answer, payment]

dbVars == << payments, children, ledger, qr, wallet >>
vars == << dbVars, owner, pc, key, body, seen, draft, reply >>

NoReply == [answer |-> "NONE", payment |-> None]

Init ==
  /\ payments = {}
  /\ children = {}
  /\ ledger = {}
  /\ qr = [q \in QrCodes |-> [usage |-> 0, status |-> "ACTIVE"]]
  /\ wallet = [w \in Wallets |-> [balance |-> Opening[w], version |-> 0]]
  /\ owner = [l \in Locks |-> None]
  /\ pc = [s \in Slots |-> "idle"]
  /\ key = [s \in Slots |-> None]
  /\ body = [s \in Slots |-> None]
  /\ seen = [s \in Slots |-> None]
  /\ draft = [s \in Slots |-> NoDraft]
  /\ reply = [s \in Slots |-> NoReply]

Goto(s, place) == pc' = [pc EXCEPT ![s] = place]

\* Postgres drops every lock of a transaction when it ends.
ReleaseLocks(s) == owner' = [l \in Locks |-> IF owner[l] = s THEN None ELSE owner[l]]

\* Grants lock l to s; a request that finds it taken waits here.
TakeLock(s, l) == owner[l] = None /\ owner' = [owner EXCEPT ![l] = s]

\* Mutation: the session is not rolled back when the handler refuses.
RespondHoldingLocks(s, answer, payment) ==
  /\ reply' = [reply EXCEPT ![s] = [answer |-> answer, payment |-> payment]]
  /\ Goto(s, "replying")
  /\ UNCHANGED << dbVars, owner, key, body, seen, draft >>

\* The handler leaves without having written: the session rolls back.
Respond(s, answer, payment) ==
  /\ reply' = [reply EXCEPT ![s] = [answer |-> answer, payment |-> payment]]
  /\ ReleaseLocks(s)
  /\ Goto(s, "replying")
  /\ UNCHANGED << dbVars, key, body, seen, draft >>

-----------------------------------------------------------------------------
\* A request arrives and its device's credential is accepted.
Receive(s, k, b) ==
  /\ pc[s] = "idle"
  /\ key' = [key EXCEPT ![s] = k]
  /\ body' = [body EXCEPT ![s] = b]
  /\ Goto(s, "locking")
  /\ UNCHANGED << dbVars, owner, seen, draft, reply >>

\* A request arrives whose credential or device is not ACTIVE.
Unauthorized(s) ==
  /\ pc[s] = "idle"
  /\ Respond(s, "INVALID_DEVICE_CREDENTIAL", None)

\* Mutation: no advisory lock.
LockKeyNot(s) ==
  /\ pc[s] = "locking"
  /\ Goto(s, "lookup")
  /\ UNCHANGED << dbVars, owner, key, body, seen, draft, reply >>

\* pg_advisory_xact_lock on the device and the key.
LockKey(s) ==
  /\ pc[s] = "locking"
  /\ TakeLock(s, key[s])
  /\ Goto(s, "lookup")
  /\ UNCHANGED << dbVars, key, body, seen, draft, reply >>

\* The committed payment of a key, as the lookup statement sees it.
PaymentsOf(k) == {p \in payments : p.key = k}

\* Mutation: the hash of the body is not compared.
ReplayAnyBody(s) ==
  /\ pc[s] = "lookup"
  /\ \E p \in PaymentsOf(key[s]) : Respond(s, AnswerOf(p), p.id)

Replay(s) ==
  /\ pc[s] = "lookup"
  /\ \E p \in PaymentsOf(key[s]) :
       /\ p.body = body[s]
       /\ Respond(s, AnswerOf(p), p.id)

Conflict(s) ==
  /\ pc[s] = "lookup"
  /\ \E p \in PaymentsOf(key[s]) : p.body # body[s]
  /\ Respond(s, "IDEMPOTENCY_CONFLICT", None)

\* Mutation: the lookup's result is ignored.
FreshAlways(s) ==
  /\ pc[s] = "lookup"
  /\ Goto(s, "guards")
  /\ UNCHANGED << dbVars, owner, key, body, seen, draft, reply >>

Fresh(s) ==
  /\ pc[s] = "lookup"
  /\ PaymentsOf(key[s]) = {}
  /\ Goto(s, "guards")
  /\ UNCHANGED << dbVars, owner, key, body, seen, draft, reply >>

(***************************************************************************)
(* The guards.  Their tables belong to other components, which write them   *)
(* at any moment, so the statements may see any record of Facts.            *)
(***************************************************************************)
Refuse(s) ==
  /\ pc[s] = "guards"
  /\ \E f \in Facts :
       /\ PyRefusal(f, body[s]) # Admitted
       /\ Respond(s, PyRefusal(f, body[s]), None)

Admit(s) ==
  /\ pc[s] = "guards"
  /\ \E f \in Facts :
       /\ PyRefusal(f, body[s]) = Admitted
       /\ seen' = [seen EXCEPT ![s] = f]
  /\ Goto(s, "method")
  /\ UNCHANGED << dbVars, owner, key, body, draft, reply >>

RefuseMethod(s) ==
  /\ pc[s] = "method"
  /\ MethodRefusal(body[s]) # Admitted
  /\ Respond(s, MethodRefusal(body[s]), None)
-----------------------------------------------------------------------------
\* The draft of a payment that spends no QR code and no wallet.
PlainDraft(s, status, error) ==
  [NoDraft EXCEPT !.status = status, !.error = error, !.amount = seen[s].price]

\* The method's statements are done and the rows are ready to be inserted.
Prepare(s, d) ==
  /\ draft' = [draft EXCEPT ![s] = d]
  /\ Goto(s, "insert")
  /\ UNCHANGED << dbVars, key, body, seen, reply >>

PayByCard(s) ==
  /\ pc[s] = "method"
  /\ body[s].method = "CARD"
  /\ body[s].scenario \in Scenarios
  /\ LET outcome == CardOutcome(body[s].scenario)
     IN  Prepare(s, PlainDraft(s, outcome[1], outcome[2]))
  /\ UNCHANGED owner

(***************************************************************************)
(* SELECT ... FOR UPDATE on the QR code: it waits for the row, then decides *)
(* on the row's latest committed version.  "now" was read before the wait,  *)
(* so whether the code is in date is one of the facts seen.  The UPDATE     *)
(* stores the count that was read, plus one.                                *)
(***************************************************************************)
Redeemable(s, q) ==
  /\ qr[q].status = "ACTIVE"
  /\ seen[s].qrInDate
  /\ qr[q].usage < UsageLimit[q]

QrDraft(s, q) ==
  IF Redeemable(s, q)
  THEN [NoDraft EXCEPT !.status = "SUCCESS", !.amount = QrAmount[q],
                       !.qr = q, !.usage = qr[q].usage + 1]
  ELSE PlainDraft(s, "FAILED", "QR_INVALID")

\* Mutation: SELECT without FOR UPDATE.
PayByQrUnlocked(s) ==
  /\ pc[s] = "method"
  /\ body[s].method = "QR"
  /\ body[s].qr # None
  /\ Prepare(s, QrDraft(s, body[s].qr))
  /\ UNCHANGED owner

PayByQr(s) ==
  /\ pc[s] = "method"
  /\ body[s].method = "QR"
  /\ body[s].qr # None          \* the guards found the row
  /\ TakeLock(s, body[s].qr)
  /\ Prepare(s, QrDraft(s, body[s].qr))

\* The card is read without a lock; a bad one fails the payment.
PayByInvalidRfCard(s) ==
  /\ pc[s] = "method"
  /\ body[s].method = "RF_CARD"
  /\ body[s].rf \in Wallets
  /\ ~seen[s].cardValid
  /\ Prepare(s, PlainDraft(s, "FAILED", "RF_CARD_INVALID"))
  /\ UNCHANGED owner

\* SELECT ... FOR UPDATE on the wallet, and the debit if its balance allows.
RfDraft(s, w) ==
  IF wallet[w].balance < seen[s].price
  THEN PlainDraft(s, "FAILED", "RF_INSUFFICIENT_BALANCE")
  ELSE [PlainDraft(s, "SUCCESS", None) EXCEPT !.wallet = w]

\* Mutation: SELECT without FOR UPDATE.
PayByRfCardUnlocked(s) ==
  /\ pc[s] = "method"
  /\ body[s].method = "RF_CARD"
  /\ body[s].rf \in Wallets
  /\ seen[s].cardValid
  /\ Prepare(s, RfDraft(s, body[s].rf))
  /\ UNCHANGED owner

PayByRfCard(s) ==
  /\ pc[s] = "method"
  /\ body[s].method = "RF_CARD"
  /\ body[s].rf \in Wallets
  /\ seen[s].cardValid
  /\ TakeLock(s, body[s].rf)
  /\ Prepare(s, RfDraft(s, body[s].rf))
-----------------------------------------------------------------------------
\* A ledger row must have a positive amount: the schema's CHECK.
LedgerCheckHolds(d) == d.wallet # None => d.amount > 0

\* The INSERTs of the payment and of the rows that hang on it.
InsertRows(s) ==
  /\ pc[s] = "insert"
  /\ LedgerCheckHolds(draft[s])
  /\ Goto(s, "commit")
  /\ UNCHANGED << dbVars, owner, key, body, seen, draft, reply >>

\* The ledger's CHECK aborts the transaction and the route answers 500.
LedgerCheckFails(s) ==
  /\ pc[s] = "insert"
  /\ ~LedgerCheckHolds(draft[s])
  /\ Respond(s, "INTERNAL_ERROR", None)

NewPayment(s) ==
  [id |-> s, key |-> key[s], body |-> body[s], status |-> draft[s].status,
   error |-> draft[s].error, amount |-> draft[s].amount,
   qr |-> draft[s].qr, wallet |-> draft[s].wallet]

\* Mutation: a start right whatever the payment's status.
ChildTablesAlwaysRight(p) ==
  {"payment_attempts", "events", "audit_entries", "start_rights"}
    \cup (IF p.body.method = "CARD" THEN {"provider_transactions"} ELSE {})

ChildTablesOf(p) ==
  {"payment_attempts", "events", "audit_entries"}
    \cup (IF p.body.method = "CARD" THEN {"provider_transactions"} ELSE {})
    \cup (IF p.status = "SUCCESS" THEN {"start_rights"} ELSE {})

\* Mutation: a used-up code gets a status of its own invention.
RedeemQrExpiring(s) ==
  LET d == draft[s] IN
  IF d.qr = None THEN UNCHANGED qr
  ELSE qr' = [qr EXCEPT ![d.qr] = [usage |-> d.usage, status |-> "EXPIRED"]]

\* The UPDATE of qr_codes stores the count the draft carries.
RedeemQr(s) ==
  LET d == draft[s] IN
  IF d.qr = None THEN UNCHANGED qr
  ELSE qr' = [qr EXCEPT ![d.qr] =
                [usage  |-> d.usage,
                 status |-> IF d.usage >= UsageLimit[d.qr] THEN "USED" ELSE "ACTIVE"]]

\* Mutation: the version is not advanced.
DebitWalletSameVersion(s) ==
  LET d == draft[s] IN
  IF d.wallet = None THEN UNCHANGED << wallet, ledger >>
  ELSE /\ wallet' = [wallet EXCEPT ![d.wallet].balance = @ - d.amount]
       /\ ledger' = ledger \cup
            {[wallet |-> d.wallet, payment |-> s, amount |-> d.amount]}

\* The UPDATE of rf_wallets is relative to the row's balance and version.
DebitWallet(s) ==
  LET d == draft[s] IN
  IF d.wallet = None THEN UNCHANGED << wallet, ledger >>
  ELSE /\ wallet' = [wallet EXCEPT ![d.wallet] =
                       [balance |-> @.balance - d.amount, version |-> @.version + 1]]
       /\ ledger' = ledger \cup
            {[wallet |-> d.wallet, payment |-> s, amount |-> d.amount]}

Commit(s) ==
  /\ pc[s] = "commit"
  /\ payments' = payments \cup {NewPayment(s)}
  /\ children' = children \cup
       {[table |-> t, payment |-> s] : t \in ChildTablesOf(NewPayment(s))}
  /\ RedeemQr(s)
  /\ DebitWallet(s)
  /\ reply' = [reply EXCEPT ![s] = [answer |-> AnswerOf(NewPayment(s)), payment |-> s]]
  /\ ReleaseLocks(s)
  /\ Goto(s, "replying")
  /\ UNCHANGED << key, body, seen, draft >>
-----------------------------------------------------------------------------
\* The transaction rolls back and the client gets a 500 or nothing.
Abort(s) ==
  /\ pc[s] \in InTransaction
  /\ ReleaseLocks(s)
  /\ Goto(s, "lost")
  /\ UNCHANGED << dbVars, key, body, seen, draft, reply >>

Deliver(s) ==
  /\ pc[s] = "replying"
  /\ Goto(s, "answered")
  /\ UNCHANGED << dbVars, owner, key, body, seen, draft, reply >>

\* The answer is lost after the transaction ended: the process dies, the
\* connection drops, or reading the payload back fails.
LoseReply(s) ==
  /\ pc[s] = "replying"
  /\ Goto(s, "lost")
  /\ UNCHANGED << dbVars, owner, key, body, seen, draft, reply >>

\* What the handler of s does by itself, as opposed to clients and failures.
Serve(s) ==
  \/ LockKey(s) \/ Replay(s) \/ Conflict(s) \/ Fresh(s) \/ Refuse(s) \/ Admit(s)
  \/ RefuseMethod(s) \/ PayByCard(s) \/ PayByQr(s) \/ PayByInvalidRfCard(s)
  \/ PayByRfCard(s) \/ InsertRows(s) \/ LedgerCheckFails(s) \/ Commit(s) \/ Deliver(s)

Step ==
  \E s \in Slots :
    \/ \E k \in IdemKeys, b \in Bodies : Receive(s, k, b)
    \/ Unauthorized(s)
    \/ Serve(s)
    \/ Abort(s)
    \/ LoseReply(s)

\* Every slot of the instance is used up.
Over == (\A s \in Slots : pc[s] \in Ended) /\ UNCHANGED vars

Next == Step \/ Over

\* The event loop (or net/http's goroutines) runs every handler that can run,
\* and Postgres hands a free lock to a waiter.
Fairness == \A s \in Slots : WF_vars(Serve(s))

Spec == Init /\ [][Next]_vars
FairSpec == Spec /\ Fairness
-----------------------------------------------------------------------------
\* Tables, locks and requests hold values of their types; a QR code's status
\* is never one the schema's CHECK or the handlers do not know.
TypeOK ==
  /\ payments \in SUBSET PaymentRows
  /\ children \in SUBSET [table : ChildTables, payment : Slots]
  /\ ledger \in SUBSET [wallet : Wallets, payment : Slots, amount : Nat]
  /\ qr \in [QrCodes -> [usage : Nat, status : {"ACTIVE", "USED"}]]
  /\ wallet \in [Wallets -> [balance : Int, version : Nat]]
  /\ owner \in [Locks -> Slots \cup {None}]
  /\ pc \in [Slots -> Places]
  /\ key \in [Slots -> IdemKeys \cup {None}]
  /\ body \in [Slots -> Bodies \cup {None}]
  /\ seen \in [Slots -> Facts \cup {None}]
  /\ draft \in [Slots -> Drafts]
  /\ DOMAIN reply = Slots
  /\ \A s \in Slots : reply[s].payment \in Slots \cup {None}

\* However requests with one key interleave, crash and are retried, a key has
\* at most one payment row.
OnePaymentPerKey ==
  \A p1, p2 \in payments : p1.key = p2.key => p1 = p2

(***************************************************************************)
(* No transaction ever runs into the UNIQUE (device_id, idempotency_key)    *)
(* index, which would answer 500 to a client that merely retried: when a    *)
(* handler is about to insert, the key has no committed row and no other    *)
(* open transaction inserts it too.                                         *)
(***************************************************************************)
DuplicateKeyFree ==
  \A s \in Slots : pc[s] \in {"insert", "commit"} =>
    /\ PaymentsOf(key[s]) = {}
    /\ \A t \in Slots \ {s} : pc[t] \in {"insert", "commit"} => key[t] # key[s]

(***************************************************************************)
(* A client that was told of a payment can rely on it: the payment is       *)
(* committed, it is the one of this key and this very body, and the answer  *)
(* is the one its row calls for, on the first try and on every replay.      *)
(***************************************************************************)
RepliesAreDurable ==
  \A s \in Slots : reply[s].payment # None =>
    \E p \in payments :
      /\ p.id = reply[s].payment
      /\ p.key = key[s] /\ p.body = body[s]
      /\ reply[s].answer = AnswerOf(p)

RedemptionsOf(q) == {p \in payments : p.qr = q}

(***************************************************************************)
(* A QR code's usage_count is the number of payments that redeemed it, all  *)
(* of them SUCCESS, never above usage_limit; its status is USED exactly     *)
(* when the limit is reached.                                               *)
(***************************************************************************)
QrUsageIsRedemptions ==
  \A q \in QrCodes :
    /\ qr[q].usage = Cardinality(RedemptionsOf(q))
    /\ qr[q].usage <= UsageLimit[q]
    /\ qr[q].status = "USED" <=> qr[q].usage = UsageLimit[q]
    /\ \A p \in RedemptionsOf(q) : p.status = "SUCCESS"

\* No wallet is overdrawn, though balances are read before they are debited.
NoOverdraft == \A w \in Wallets : wallet[w].balance >= 0

DebitsOf(w) == {l \in ledger : l.wallet = w}
AmountOf(debits) == MapThenSumSet(LAMBDA l : l.amount, debits)

\* A wallet's balance and version are what its ledger says: the opening
\* balance less every debit, and one version per debit.
WalletMatchesLedger ==
  \A w \in Wallets :
    /\ wallet[w].version = Cardinality(DebitsOf(w))
    /\ wallet[w].balance + AmountOf(DebitsOf(w)) = Opening[w]

HasChild(p, t) == [table |-> t, payment |-> p.id] \in children

(***************************************************************************)
(* No committed payment is financially partial: a start right exactly when  *)
(* it is SUCCESS, one debit of its wallet and amount exactly when it is an  *)
(* RF card SUCCESS, a provider row exactly when it is a card payment; and   *)
(* no right or debit without its payment.                                   *)
(***************************************************************************)
FinancialStateIsWhole ==
  /\ \A p \in payments :
       /\ HasChild(p, "start_rights") <=> p.status = "SUCCESS"
       /\ HasChild(p, "provider_transactions") <=> p.body.method = "CARD"
       /\ {l \in ledger : l.payment = p.id} =
            IF p.body.method = "RF_CARD" /\ p.status = "SUCCESS"
            THEN {[wallet |-> p.body.rf, payment |-> p.id, amount |-> p.amount]}
            ELSE {}
  /\ \A r \in children \cup ledger : \E p \in payments : p.id = r.payment

(***************************************************************************)
(* A step that changes a wallet takes money out of it, and in the same step *)
(* commits the one ledger row of that amount and the SUCCESS payment it     *)
(* belongs to.                                                              *)
(***************************************************************************)
MoneyMovesWithItsLedger ==
  [][\A w \in Wallets : wallet'[w] # wallet[w] =>
       \E l \in ledger' \ ledger :
         /\ ledger' = ledger \cup {l}
         /\ l.wallet = w /\ l.amount > 0
         /\ wallet'[w].balance = wallet[w].balance - l.amount
         /\ \E p \in payments' \ payments : p.id = l.payment /\ p.status = "SUCCESS"]_vars

\* Every request ends, whatever it waits for and whoever crashes.
EveryRequestEnds ==
  \A s \in Slots : pc[s] # "idle" ~> pc[s] \in Ended

(***************************************************************************)
(* The inductive invariant behind the safety properties: what a transaction *)
(* that is under way holds and knows.  It owns the lock of its key from the *)
(* grant on; from the lookup on no payment has its key; and while its draft *)
(* spends a code or a wallet it owns that row, whose committed version is   *)
(* still the one the draft was computed from.                               *)
(***************************************************************************)
HoldsKey == {"lookup", "guards", "method", "insert", "commit"}
KnowsKeyIsNew == {"guards", "method", "insert", "commit"}
HasDraft == {"insert", "commit"}

RequestIsKnown(s) ==
  /\ pc[s] \in InTransaction => key[s] \in IdemKeys /\ body[s] \in Bodies
  /\ pc[s] = "method" => seen[s] \in Facts

KeyIsHeld(s) == pc[s] \in HoldsKey => owner[key[s]] = s

KeyIsNew(s) == pc[s] \in KnowsKeyIsNew => \A p \in payments : p.key # key[s]

QrIsHeld(s) ==
  pc[s] \in HasDraft /\ draft[s].qr # None =>
    /\ owner[draft[s].qr] = s
    /\ draft[s].status = "SUCCESS"
    /\ draft[s].usage = qr[draft[s].qr].usage + 1
    /\ draft[s].usage <= UsageLimit[draft[s].qr]

WalletIsHeld(s) ==
  pc[s] \in HasDraft /\ draft[s].wallet # None =>
    /\ owner[draft[s].wallet] = s
    /\ draft[s].status = "SUCCESS"
    /\ draft[s].amount <= wallet[draft[s].wallet].balance

CreatorHasCommitted ==
  \A p \in payments : pc[p.id] \in {"replying"} \cup Ended

\* What every transaction holds and knows, whatever the others do.
IInv ==
  /\ TypeOK
  /\ \A s \in Slots :
       RequestIsKnown(s) /\ KeyIsHeld(s) /\ KeyIsNew(s) /\ QrIsHeld(s) /\ WalletIsHeld(s)
  /\ CreatorHasCommitted
  /\ OnePaymentPerKey
  /\ NoOverdraft

(***************************************************************************)
(* The transactions are serializable: seen through this mapping, requests   *)
(* run one at a time, each deciding at the moment it commits or leaves.     *)
(***************************************************************************)
Contract == INSTANCE PaymentContract WITH
  client <- [s \in Slots |-> IF pc[s] \in InTransaction THEN "waiting" ELSE pc[s]],
  used   <- [q \in QrCodes |-> qr[q].usage],
  funds  <- [w \in Wallets |-> wallet[w].balance]

\* Every behaviour of the transactions is one of the contract.
ImplementsContract == Contract!Spec
=============================================================================
