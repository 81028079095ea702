--------------------------- MODULE PaymentsProofs ---------------------------
(* Payments, proved for any number of requests, keys, codes and wallets. *)
EXTENDS Payments, FiniteSetTheorems, TLAPS

-----------------------------------------------------------------------------
(* What the pieces of a step return. *)

\* A card scenario maps to a status and an error of the model.
LEMMA CardOutcomeType ==
  ASSUME NEW scenario \in Scenarios
  PROVE  CardOutcome(scenario)[1] \in Statuses /\ CardOutcome(scenario)[2] \in Errors
BY DEF CardOutcome, Scenarios, Statuses, Errors

\* The empty draft is a draft.
LEMMA NoDraftType == NoDraft \in Drafts
BY DEF NoDraft, Drafts, Statuses, Errors

\* A draft that spends nothing names no code and no wallet.
LEMMA PlainDraftType ==
  ASSUME NEW s, seen[s] \in Facts, NEW status \in Statuses, NEW error \in Errors
  PROVE  /\ PlainDraft(s, status, error) \in Drafts
         /\ PlainDraft(s, status, error).qr = None
         /\ PlainDraft(s, status, error).wallet = None
BY FactsAssumption DEF PlainDraft, NoDraft, Drafts

\* A QR draft that redeems stores the count it read plus one, within the
\* limit; the other is a plain failure.
LEMMA QrDraftType ==
  ASSUME TypeOK, NEW s, seen[s] \in Facts, NEW q \in QrCodes
  PROVE  /\ QrDraft(s, q) \in Drafts
         /\ QrDraft(s, q).wallet = None
         /\ QrDraft(s, q).qr # None =>
              /\ QrDraft(s, q).qr = q
              /\ QrDraft(s, q).status = "SUCCESS"
              /\ QrDraft(s, q).usage = qr[q].usage + 1
              /\ QrDraft(s, q).usage <= UsageLimit[q]
<1>1. CASE Redeemable(s, q)
  <2>1. qr[q].usage \in Nat /\ UsageLimit[q] \in Nat /\ QrAmount[q] \in Nat
    BY AmountsAssumption DEF TypeOK
  <2>2. QrDraft(s, q) = [status |-> "SUCCESS", error |-> None, amount |-> QrAmount[q],
                         qr |-> q, usage |-> qr[q].usage + 1, wallet |-> None]
    BY <1>1 DEF QrDraft, NoDraft
  <2>3. qr[q].usage + 1 <= UsageLimit[q]
    BY <1>1, <2>1 DEF Redeemable
  <2> QED BY <2>1, <2>2, <2>3 DEF Drafts, Statuses, Errors
<1>2. CASE ~Redeemable(s, q)
  <2>1. QrDraft(s, q) = PlainDraft(s, "FAILED", "QR_INVALID")
    BY <1>2 DEF QrDraft
  <2>2. "FAILED" \in Statuses /\ "QR_INVALID" \in Errors
    BY DEF Statuses, Errors
  <2> QED BY <2>1, <2>2, PlainDraftType
<1> QED BY <1>1, <1>2

\* An RF card draft that debits costs no more than the balance it read.
LEMMA RfDraftType ==
  ASSUME TypeOK, NEW s, seen[s] \in Facts, NEW w \in Wallets
  PROVE  /\ RfDraft(s, w) \in Drafts
         /\ RfDraft(s, w).qr = None
         /\ RfDraft(s, w).wallet # None =>
              /\ RfDraft(s, w).wallet = w
              /\ RfDraft(s, w).status = "SUCCESS"
              /\ RfDraft(s, w).amount <= wallet[w].balance
<1>1. CASE wallet[w].balance < seen[s].price
  <2>1. RfDraft(s, w) = PlainDraft(s, "FAILED", "RF_INSUFFICIENT_BALANCE")
    BY <1>1 DEF RfDraft
  <2>2. "FAILED" \in Statuses /\ "RF_INSUFFICIENT_BALANCE" \in Errors
    BY DEF Statuses, Errors
  <2> QED BY <2>1, <2>2, PlainDraftType
<1>2. CASE ~(wallet[w].balance < seen[s].price)
  <2>1. seen[s].price \in Nat /\ wallet[w].balance \in Int
    BY FactsAssumption DEF TypeOK
  <2>2. RfDraft(s, w) = [status |-> "SUCCESS", error |-> None, amount |-> seen[s].price,
                         qr |-> None, usage |-> 0, wallet |-> w]
    BY <1>2 DEF RfDraft, PlainDraft, NoDraft
  <2>3. seen[s].price <= wallet[w].balance
    BY <1>2, <2>1
  <2> QED BY <2>1, <2>2, <2>3 DEF Drafts, Statuses, Errors
<1> QED BY <1>1, <1>2

\* A released lock is free, and every other lock keeps its owner.
LEMMA ReleaseLocksEffect ==
  ASSUME TypeOK, NEW s \in Slots, ReleaseLocks(s)
  PROVE  /\ owner' \in [Locks -> Slots \cup {None}]
         /\ \A l \in Locks : owner'[l] = (IF owner[l] = s THEN None ELSE owner[l])
BY DEF TypeOK, ReleaseLocks

-----------------------------------------------------------------------------
(* IInv is preserved by the steps that write no table. *)

\* A request that leaves its transaction, whatever it answers.
LEMMA LeavePreservesIInv ==
  ASSUME IInv, NEW s \in Slots, NEW place \in {"replying"} \cup Ended,
         ReleaseLocks(s), Goto(s, place),
         UNCHANGED << dbVars, key, body, seen, draft >>,
         DOMAIN reply' = Slots,
         \A t \in Slots : reply'[t].payment \in Slots \cup {None}
  PROVE  IInv'
<1> USE DEF Ended, InTransaction, HoldsKey, KnowsKeyIsNew, HasDraft
<1>1. TypeOK'
  BY ReleaseLocksEffect DEF IInv, TypeOK, Goto, dbVars, Places
<1>2. ASSUME NEW t \in Slots
      PROVE  (RequestIsKnown(t) /\ KeyIsHeld(t) /\ KeyIsNew(t) /\ QrIsHeld(t) /\ WalletIsHeld(t))'
  <2>1. CASE t = s
    BY <2>1 DEF IInv, TypeOK, Goto, dbVars, RequestIsKnown, KeyIsHeld, KeyIsNew, QrIsHeld, WalletIsHeld
  <2>2. CASE t # s
    <3>1. pc'[t] = pc[t]
      BY <2>2 DEF IInv, TypeOK, Goto
    <3>2. \A l \in Locks : owner[l] = t => owner'[l] = t
      BY <2>2, ReleaseLocksEffect DEF IInv
    <3>3. RequestIsKnown(t)' /\ KeyIsNew(t)'
      BY <3>1 DEF IInv, dbVars, RequestIsKnown, KeyIsNew
    <3>4. KeyIsHeld(t)'
      BY <3>1, <3>2 DEF IInv, KeyIsHeld, RequestIsKnown, Locks
    <3>5. QrIsHeld(t)' /\ WalletIsHeld(t)'
      BY <3>1, <3>2 DEF IInv, TypeOK, QrIsHeld, WalletIsHeld, Locks, Drafts, dbVars
    <3> QED BY <3>3, <3>4, <3>5
  <2> QED BY <2>1, <2>2
<1>3. CreatorHasCommitted'
  BY DEF IInv, TypeOK, CreatorHasCommitted, Goto, dbVars, PaymentRows
<1>4. OnePaymentPerKey' /\ NoOverdraft'
  BY DEF IInv, OnePaymentPerKey, NoOverdraft, dbVars
<1> QED BY <1>1, <1>2, <1>3, <1>4 DEF IInv

\* The answers that are computed without writing.
LEMMA RespondPreservesIInv ==
  ASSUME IInv, NEW s \in Slots, NEW answer, NEW payment \in Slots \cup {None},
         Respond(s, answer, payment)
  PROVE  IInv'
<1>1. /\ DOMAIN reply' = Slots
      /\ \A t \in Slots : reply'[t].payment \in Slots \cup {None}
  BY DEF IInv, TypeOK, Respond
<1> QED BY <1>1, LeavePreservesIInv DEF Respond

\* A request that moves on within its handler and keeps its locks; it must
\* bring what the place it moves to requires.
LEMMA AdvancePreservesIInv ==
  ASSUME IInv, NEW s \in Slots, NEW place \in Places, Goto(s, place),
         UNCHANGED << dbVars, owner, draft >>, TypeOK',
         \A t \in Slots \ {s} : key'[t] = key[t] /\ body'[t] = body[t] /\ seen'[t] = seen[t],
         RequestIsKnown(s)', KeyIsHeld(s)', KeyIsNew(s)', QrIsHeld(s)', WalletIsHeld(s)',
         pc[s] \in {"replying"} \cup Ended => place \in Ended
  PROVE  IInv'
<1>1. ASSUME NEW t \in Slots \ {s}
      PROVE  (RequestIsKnown(t) /\ KeyIsHeld(t) /\ KeyIsNew(t) /\ QrIsHeld(t) /\ WalletIsHeld(t))'
  <2>1. pc'[t] = pc[t] /\ key'[t] = key[t] /\ body'[t] = body[t] /\ seen'[t] = seen[t]
    BY DEF IInv, TypeOK, Goto
  <2> QED BY <2>1 DEF IInv, dbVars, RequestIsKnown, KeyIsHeld, KeyIsNew, QrIsHeld, WalletIsHeld
<1>2. CreatorHasCommitted'
  BY DEF IInv, TypeOK, CreatorHasCommitted, Goto, dbVars, PaymentRows, Ended
<1>3. OnePaymentPerKey' /\ NoOverdraft'
  BY DEF IInv, OnePaymentPerKey, NoOverdraft, dbVars
<1> QED BY <1>1, <1>2, <1>3 DEF IInv

\* A new request holds and knows nothing yet.
LEMMA ReceivePreservesIInv ==
  ASSUME IInv, NEW s \in Slots, NEW k \in IdemKeys, NEW b \in Bodies, Receive(s, k, b)
  PROVE  IInv'
<1> USE DEF Places, InTransaction, Ended
<1>1. TypeOK'
  BY DEF IInv, TypeOK, Receive, Goto, dbVars
<1>2. pc'[s] = "locking" /\ key'[s] = k /\ body'[s] = b
  BY DEF IInv, TypeOK, Receive, Goto
<1>3. (RequestIsKnown(s) /\ KeyIsHeld(s) /\ KeyIsNew(s) /\ QrIsHeld(s) /\ WalletIsHeld(s))'
  BY <1>2 DEF RequestIsKnown, KeyIsHeld, KeyIsNew, QrIsHeld, WalletIsHeld,
              HoldsKey, KnowsKeyIsNew, HasDraft
<1>4. \A t \in Slots \ {s} : key'[t] = key[t] /\ body'[t] = body[t] /\ seen'[t] = seen[t]
  BY DEF IInv, TypeOK, Receive
<1> QED BY <1>1, <1>3, <1>4, AdvancePreservesIInv DEF Receive

\* Granting a lock that is free takes none away.
LEMMA TakeLockEffect ==
  ASSUME TypeOK, NEW s \in Slots, NEW l \in Locks, TakeLock(s, l)
  PROVE  /\ owner' \in [Locks -> Slots \cup {None}]
         /\ owner'[l] = s
         /\ \A m \in Locks, t \in Slots : owner[m] = t => owner'[m] = t
BY SlotsAssumption DEF TypeOK, TakeLock

\* pg_advisory_xact_lock: the request owns its key from here on.
LEMMA LockKeyPreservesIInv ==
  ASSUME IInv, NEW s \in Slots, LockKey(s)
  PROVE  IInv'
<1> USE DEF Places, InTransaction, Ended
<1>1. key[s] \in IdemKeys /\ key[s] \in Locks /\ pc[s] = "locking"
  BY DEF IInv, LockKey, RequestIsKnown, Locks
<1>2. /\ owner' \in [Locks -> Slots \cup {None}]
      /\ owner'[key[s]] = s
      /\ \A m \in Locks, t \in Slots : owner[m] = t => owner'[m] = t
  BY <1>1, TakeLockEffect DEF IInv, LockKey
<1>3. TypeOK'
  BY <1>2 DEF IInv, TypeOK, LockKey, Goto, dbVars
<1>4. ASSUME NEW t \in Slots
      PROVE  (RequestIsKnown(t) /\ KeyIsHeld(t) /\ KeyIsNew(t) /\ QrIsHeld(t) /\ WalletIsHeld(t))'
  <2>1. CASE t = s
    <3>1. pc'[s] = "lookup"
      BY DEF IInv, TypeOK, LockKey, Goto
    <3> QED BY <1>1, <1>2, <2>1, <3>1
            DEF IInv, LockKey, RequestIsKnown, KeyIsHeld, KeyIsNew, QrIsHeld, WalletIsHeld,
                HoldsKey, KnowsKeyIsNew, HasDraft
  <2>2. CASE t # s
    <3>1. pc'[t] = pc[t] /\ key' = key /\ body' = body /\ seen' = seen /\ draft' = draft
      BY <2>2 DEF IInv, TypeOK, LockKey, Goto
    <3>2. RequestIsKnown(t)' /\ KeyIsNew(t)'
      BY <3>1 DEF IInv, LockKey, dbVars, RequestIsKnown, KeyIsNew
    <3>3. KeyIsHeld(t)'
      BY <1>2, <3>1 DEF IInv, KeyIsHeld, RequestIsKnown, Locks, HoldsKey
    <3>4. QrIsHeld(t)' /\ WalletIsHeld(t)'
      BY <1>2, <3>1 DEF IInv, TypeOK, LockKey, QrIsHeld, WalletIsHeld, Locks, Drafts, dbVars
    <3> QED BY <3>2, <3>3, <3>4
  <2> QED BY <2>1, <2>2
<1>5. CreatorHasCommitted'
  BY <1>1 DEF IInv, TypeOK, CreatorHasCommitted, LockKey, Goto, dbVars, PaymentRows
<1>6. OnePaymentPerKey' /\ NoOverdraft'
  BY DEF IInv, OnePaymentPerKey, NoOverdraft, LockKey, dbVars
<1> QED BY <1>3, <1>4, <1>5, <1>6 DEF IInv

\* The lookup found nothing, and nobody else can insert the key now.
LEMMA FreshPreservesIInv ==
  ASSUME IInv, NEW s \in Slots, Fresh(s)
  PROVE  IInv'
<1> USE DEF Places, InTransaction, Ended
<1>1. TypeOK'
  BY DEF IInv, TypeOK, Fresh, Goto, dbVars
<1>2. pc[s] = "lookup" /\ pc'[s] = "guards"
  BY DEF IInv, TypeOK, Fresh, Goto
<1>3. RequestIsKnown(s)' /\ KeyIsHeld(s)' /\ QrIsHeld(s)' /\ WalletIsHeld(s)'
  BY <1>2 DEF IInv, Fresh, RequestIsKnown, KeyIsHeld, QrIsHeld, WalletIsHeld, HoldsKey, HasDraft
<1>4. KeyIsNew(s)'
  BY DEF Fresh, PaymentsOf, KeyIsNew, dbVars
<1> QED BY <1>1, <1>2, <1>3, <1>4, AdvancePreservesIInv DEF Fresh

\* The guards admit: what they saw is on record.
LEMMA AdmitPreservesIInv ==
  ASSUME IInv, NEW s \in Slots, Admit(s)
  PROVE  IInv'
<1> USE DEF Places, InTransaction, Ended
<1>1. TypeOK'
  BY DEF IInv, TypeOK, Admit, Goto, dbVars
<1>2. pc[s] = "guards" /\ pc'[s] = "method" /\ seen'[s] \in Facts
  BY DEF IInv, TypeOK, Admit, Goto
<1>3. RequestIsKnown(s)' /\ KeyIsHeld(s)' /\ KeyIsNew(s)' /\ QrIsHeld(s)' /\ WalletIsHeld(s)'
  BY <1>2 DEF IInv, Admit, RequestIsKnown, KeyIsHeld, KeyIsNew, QrIsHeld, WalletIsHeld,
              HoldsKey, KnowsKeyIsNew, HasDraft, dbVars
<1>4. \A t \in Slots \ {s} : key'[t] = key[t] /\ body'[t] = body[t] /\ seen'[t] = seen[t]
  BY DEF IInv, TypeOK, Admit
<1> QED BY <1>1, <1>2, <1>3, <1>4, AdvancePreservesIInv DEF Admit

\* The INSERTs stay in the transaction.
LEMMA InsertRowsPreservesIInv ==
  ASSUME IInv, NEW s \in Slots, InsertRows(s)
  PROVE  IInv'
<1> USE DEF Places, InTransaction, Ended
<1>1. TypeOK'
  BY DEF IInv, TypeOK, InsertRows, Goto, dbVars
<1>2. pc[s] = "insert" /\ pc'[s] = "commit"
  BY DEF IInv, TypeOK, InsertRows, Goto
<1>3. RequestIsKnown(s)' /\ KeyIsHeld(s)' /\ KeyIsNew(s)' /\ QrIsHeld(s)' /\ WalletIsHeld(s)'
  BY <1>2 DEF IInv, InsertRows, RequestIsKnown, KeyIsHeld, KeyIsNew, QrIsHeld, WalletIsHeld,
              HoldsKey, KnowsKeyIsNew, HasDraft, dbVars
<1> QED BY <1>1, <1>2, <1>3, AdvancePreservesIInv DEF InsertRows

\* Aborts, deliveries and lost answers end a request.
LEMMA EndPreservesIInv ==
  ASSUME IInv, NEW s \in Slots, Deliver(s) \/ LoseReply(s)
  PROVE  IInv'
<1> USE DEF Places, InTransaction, Ended
<1>1. PICK place \in Ended : Goto(s, place)
  BY DEF Deliver, LoseReply
<1>2. TypeOK'
  BY <1>1 DEF IInv, TypeOK, Deliver, LoseReply, Goto, dbVars
<1>3. pc'[s] = place
  BY <1>1 DEF IInv, TypeOK, Goto
<1>4. RequestIsKnown(s)' /\ KeyIsHeld(s)' /\ KeyIsNew(s)' /\ QrIsHeld(s)' /\ WalletIsHeld(s)'
  BY <1>3 DEF RequestIsKnown, KeyIsHeld, KeyIsNew, QrIsHeld, WalletIsHeld,
              HoldsKey, KnowsKeyIsNew, HasDraft
<1> QED BY <1>1, <1>2, <1>4, AdvancePreservesIInv DEF Deliver, LoseReply

-----------------------------------------------------------------------------
(* The payment methods: a draft is made under the lock it needs. *)

\* A method's draft brings the row it spends with it.
LEMMA PreparePreservesIInv ==
  ASSUME IInv, NEW s \in Slots, pc[s] = "method", NEW d \in Drafts, Prepare(s, d),
         owner' \in [Locks -> Slots \cup {None}],
         \A m \in Locks, t \in Slots : owner[m] = t => owner'[m] = t,
         d.qr # None => /\ owner'[d.qr] = s
                        /\ d.status = "SUCCESS"
                        /\ d.usage = qr[d.qr].usage + 1
                        /\ d.usage <= UsageLimit[d.qr],
         d.wallet # None => /\ owner'[d.wallet] = s
                            /\ d.status = "SUCCESS"
                            /\ d.amount <= wallet[d.wallet].balance
  PROVE  IInv'
<1> USE DEF Places, InTransaction, Ended
<1>1. TypeOK'
  BY DEF IInv, TypeOK, Prepare, Goto, dbVars
<1>2. ASSUME NEW t \in Slots
      PROVE  (RequestIsKnown(t) /\ KeyIsHeld(t) /\ KeyIsNew(t) /\ QrIsHeld(t) /\ WalletIsHeld(t))'
  <2>1. key' = key /\ body' = body /\ payments' = payments /\ qr' = qr /\ wallet' = wallet
    BY DEF Prepare, dbVars
  <2>2. KeyIsHeld(t)'
    BY <2>1 DEF IInv, TypeOK, Prepare, Goto, KeyIsHeld, RequestIsKnown, Locks, HoldsKey
  <2>3. RequestIsKnown(t)' /\ KeyIsNew(t)'
    BY <2>1 DEF IInv, TypeOK, Prepare, Goto, RequestIsKnown, KeyIsNew, KnowsKeyIsNew
  <2>4. CASE t = s
    <3>1. pc'[t] = "insert" /\ draft'[t] = d
      BY <2>4 DEF IInv, TypeOK, Prepare, Goto
    <3>2. QrIsHeld(t)' /\ WalletIsHeld(t)'
      BY <2>1, <2>4, <3>1 DEF QrIsHeld, WalletIsHeld
    <3> QED BY <2>2, <2>3, <3>2
  <2>5. CASE t # s
    <3>1. pc'[t] = pc[t] /\ draft'[t] = draft[t]
      BY <2>5 DEF IInv, TypeOK, Prepare, Goto
    <3>2. draft[t].qr \in QrCodes \cup {None} /\ draft[t].wallet \in Wallets \cup {None}
      BY DEF IInv, TypeOK, Drafts
    <3>3. QrIsHeld(t)' /\ WalletIsHeld(t)'
      BY <2>1, <3>1, <3>2 DEF IInv, QrIsHeld, WalletIsHeld, Locks
    <3> QED BY <2>2, <2>3, <3>3
  <2> QED BY <2>4, <2>5
<1>3. CreatorHasCommitted'
  BY DEF IInv, TypeOK, CreatorHasCommitted, Prepare, Goto, dbVars, PaymentRows
<1>4. OnePaymentPerKey' /\ NoOverdraft'
  BY DEF IInv, OnePaymentPerKey, NoOverdraft, Prepare, dbVars
<1> QED BY <1>1, <1>2, <1>3, <1>4 DEF IInv

\* Card payments and payments with a bad RF card spend no row.
LEMMA PayUnlockedPreservesIInv ==
  ASSUME IInv, NEW s \in Slots, PayByCard(s) \/ PayByInvalidRfCard(s)
  PROVE  IInv'
<1>1. seen[s] \in Facts /\ pc[s] = "method" /\ owner' = owner
  BY DEF IInv, RequestIsKnown, PayByCard, PayByInvalidRfCard
<1>2. PICK status \in Statuses, error \in Errors : Prepare(s, PlainDraft(s, status, error))
  <2>1. CASE PayByCard(s)
    BY <2>1, CardOutcomeType DEF PayByCard
  <2>2. CASE PayByInvalidRfCard(s)
    BY <2>2 DEF PayByInvalidRfCard, Statuses, Errors
  <2> QED BY <2>1, <2>2
<1>3. /\ PlainDraft(s, status, error) \in Drafts
      /\ PlainDraft(s, status, error).qr = None
      /\ PlainDraft(s, status, error).wallet = None
  BY <1>1, PlainDraftType
<1>4. owner' \in [Locks -> Slots \cup {None}]
  BY <1>1 DEF IInv, TypeOK
<1> QED BY <1>1, <1>2, <1>3, <1>4, PreparePreservesIInv

\* SELECT ... FOR UPDATE on the QR code and the draft computed from it.
LEMMA PayByQrPreservesIInv ==
  ASSUME IInv, NEW s \in Slots, PayByQr(s)
  PROVE  IInv'
<1> DEFINE q == body[s].qr
<1>1. seen[s] \in Facts /\ pc[s] = "method" /\ body[s] \in Bodies
  BY DEF IInv, RequestIsKnown, PayByQr, InTransaction
<1>2. q \in QrCodes /\ q \in Locks
  BY <1>1, BodiesAssumption DEF PayByQr, Locks
<1>3. /\ owner' \in [Locks -> Slots \cup {None}]
      /\ owner'[q] = s
      /\ \A m \in Locks, t \in Slots : owner[m] = t => owner'[m] = t
  BY <1>2, TakeLockEffect DEF IInv, PayByQr
<1>4. Prepare(s, QrDraft(s, q))
  BY DEF PayByQr
<1> HIDE DEF q
<1>5. QrDraft(s, q) \in Drafts /\ QrDraft(s, q).wallet = None
  BY <1>1, <1>2, QrDraftType DEF IInv
<1>6. QrDraft(s, q).qr # None =>
        /\ owner'[QrDraft(s, q).qr] = s
        /\ QrDraft(s, q).status = "SUCCESS"
        /\ QrDraft(s, q).usage = qr[QrDraft(s, q).qr].usage + 1
        /\ QrDraft(s, q).usage <= UsageLimit[QrDraft(s, q).qr]
  BY <1>1, <1>2, <1>3, QrDraftType DEF IInv
<1> QED BY <1>1, <1>3, <1>4, <1>5, <1>6, PreparePreservesIInv

\* SELECT ... FOR UPDATE on the wallet and the draft computed from it.
LEMMA PayByRfCardPreservesIInv ==
  ASSUME IInv, NEW s \in Slots, PayByRfCard(s)
  PROVE  IInv'
<1> DEFINE w == body[s].rf
<1>1. seen[s] \in Facts /\ pc[s] = "method"
  BY DEF IInv, RequestIsKnown, PayByRfCard
<1>2. w \in Wallets /\ w \in Locks
  BY DEF PayByRfCard, Locks
<1>3. /\ owner' \in [Locks -> Slots \cup {None}]
      /\ owner'[w] = s
      /\ \A m \in Locks, t \in Slots : owner[m] = t => owner'[m] = t
  BY <1>2, TakeLockEffect DEF IInv, PayByRfCard
<1>4. Prepare(s, RfDraft(s, w))
  BY DEF PayByRfCard
<1> HIDE DEF w
<1>5. RfDraft(s, w) \in Drafts /\ RfDraft(s, w).qr = None
  BY <1>1, <1>2, RfDraftType DEF IInv
<1>6. RfDraft(s, w).wallet # None =>
        /\ owner'[RfDraft(s, w).wallet] = s
        /\ RfDraft(s, w).status = "SUCCESS"
        /\ RfDraft(s, w).amount <= wallet[RfDraft(s, w).wallet].balance
  BY <1>1, <1>2, <1>3, RfDraftType DEF IInv
<1> QED BY <1>1, <1>3, <1>4, <1>5, <1>6, PreparePreservesIInv

-----------------------------------------------------------------------------
(* Commit, the one step that writes the tables. *)

\* A commit writes rows of the right types.
LEMMA CommitTypeOK ==
  ASSUME IInv, NEW s \in Slots, Commit(s)
  PROVE  TypeOK'
<1> USE DEF Places, InTransaction, Ended
<1>1. pc[s] = "commit" /\ key[s] \in IdemKeys /\ body[s] \in Bodies /\ draft[s] \in Drafts
  BY DEF IInv, TypeOK, Commit, RequestIsKnown
<1>2. payments' \in SUBSET PaymentRows
  BY <1>1 DEF IInv, TypeOK, Commit, NewPayment, PaymentRows, Drafts
<1>3. children' \in SUBSET [table : ChildTables, payment : Slots]
  BY DEF IInv, TypeOK, Commit, ChildTablesOf, ChildTables
<1>4. ledger' \in SUBSET [wallet : Wallets, payment : Slots, amount : Nat]
  BY <1>1 DEF IInv, TypeOK, Commit, DebitWallet, Drafts
<1>5. qr' \in [QrCodes -> [usage : Nat, status : {"ACTIVE", "USED"}]]
  BY <1>1 DEF IInv, TypeOK, Commit, RedeemQr, Drafts
<1>6. wallet' \in [Wallets -> [balance : Int, version : Nat]]
  BY <1>1 DEF IInv, TypeOK, Commit, DebitWallet, Drafts
<1>7. owner' \in [Locks -> Slots \cup {None}]
  BY ReleaseLocksEffect DEF IInv, Commit
<1>8. /\ pc' \in [Slots -> Places]
      /\ DOMAIN reply' = Slots
      /\ \A t \in Slots : reply'[t].payment \in Slots \cup {None}
  BY DEF IInv, TypeOK, Commit, Goto
<1>9. UNCHANGED << key, body, seen, draft >>
  BY DEF Commit
<1> QED BY <1>2, <1>3, <1>4, <1>5, <1>6, <1>7, <1>8, <1>9 DEF IInv, TypeOK

\* A commit changes only rows whose lock the request owns, so it disturbs
\* no draft but its own.
LEMMA CommitPreservesIInv ==
  ASSUME IInv, NEW s \in Slots, Commit(s)
  PROVE  IInv'
<1> USE DEF Places, InTransaction, Ended, HoldsKey, KnowsKeyIsNew, HasDraft
<1>1. TypeOK'
  BY CommitTypeOK
<1>2. pc[s] = "commit" /\ key[s] \in IdemKeys /\ owner[key[s]] = s /\ draft[s] \in Drafts
  BY DEF IInv, TypeOK, Commit, RequestIsKnown, KeyIsHeld
<1>3. /\ UNCHANGED << key, body, seen, draft >>
      /\ \A l \in Locks : owner'[l] = (IF owner[l] = s THEN None ELSE owner[l])
      /\ pc' = [pc EXCEPT ![s] = "replying"]
      /\ payments' = payments \cup {NewPayment(s)}
  BY ReleaseLocksEffect DEF IInv, Commit, Goto
<1>4. NewPayment(s).id = s /\ NewPayment(s).key = key[s]
  BY DEF NewPayment
<1>5. ASSUME NEW q \in QrCodes, owner[q] # s
      PROVE  qr'[q] = qr[q]
  BY <1>2, <1>5 DEF IInv, TypeOK, Commit, RedeemQr, QrIsHeld, Drafts
<1>6. ASSUME NEW w \in Wallets, owner[w] # s
      PROVE  wallet'[w] = wallet[w]
  BY <1>2, <1>6 DEF IInv, TypeOK, Commit, DebitWallet, WalletIsHeld, Drafts
<1>7. ASSUME NEW t \in Slots
      PROVE  (RequestIsKnown(t) /\ KeyIsHeld(t) /\ KeyIsNew(t) /\ QrIsHeld(t) /\ WalletIsHeld(t))'
  <2>1. CASE t = s
    <3>1. pc'[t] = "replying"
      BY <1>3, <2>1 DEF IInv, TypeOK
    <3> QED BY <3>1 DEF RequestIsKnown, KeyIsHeld, KeyIsNew, QrIsHeld, WalletIsHeld
  <2>2. CASE t # s
    <3>1. pc'[t] = pc[t]
      BY <1>3, <2>2 DEF IInv, TypeOK
    <3>2. RequestIsKnown(t)'
      BY <1>3, <3>1 DEF IInv, RequestIsKnown
    <3>3. KeyIsHeld(t)'
      BY <1>3, <2>2, <3>1 DEF IInv, KeyIsHeld, RequestIsKnown, Locks
    <3>4. KeyIsNew(t)'
      <4>1. CASE pc[t] \in KnowsKeyIsNew
        <5>1. key[t] # key[s]
          BY <1>2, <2>2, <4>1 DEF IInv, KeyIsHeld
        <5> QED BY <1>3, <1>4, <3>1, <5>1 DEF IInv, KeyIsNew
      <4>2. CASE pc[t] \notin KnowsKeyIsNew
        BY <3>1, <4>2 DEF KeyIsNew
      <4> QED BY <4>1, <4>2
    <3>5. draft[t].qr \in QrCodes \cup {None} /\ draft[t].wallet \in Wallets \cup {None}
      BY DEF IInv, TypeOK, Drafts
    <3>6. QrIsHeld(t)'
      BY <1>3, <1>5, <2>2, <3>1, <3>5 DEF IInv, QrIsHeld, Locks
    <3>7. WalletIsHeld(t)'
      BY <1>3, <1>6, <2>2, <3>1, <3>5 DEF IInv, WalletIsHeld, Locks
    <3> QED BY <3>2, <3>3, <3>4, <3>6, <3>7
  <2> QED BY <2>1, <2>2
<1>8. CreatorHasCommitted'
  BY <1>2, <1>3, <1>4 DEF IInv, TypeOK, CreatorHasCommitted, PaymentRows
<1>9. OnePaymentPerKey'
  BY <1>2, <1>3, <1>4 DEF IInv, OnePaymentPerKey, KeyIsNew
<1>10. NoOverdraft'
  <2>1. draft[s].wallet # None => draft[s].amount <= wallet[draft[s].wallet].balance
    BY <1>2 DEF IInv, WalletIsHeld
  <2> QED BY <1>2, <2>1 DEF IInv, TypeOK, NoOverdraft, Commit, DebitWallet, Drafts
<1> QED BY <1>1, <1>7, <1>8, <1>9, <1>10 DEF IInv

-----------------------------------------------------------------------------
(* The inductive invariant, and what follows from it. *)

\* Nothing is held and nothing is paid when the system starts.
LEMMA InitIInv == Init => IInv
<1> SUFFICES ASSUME Init PROVE IInv
  OBVIOUS
<1>1. TypeOK
  BY NoDraftType, AmountsAssumption DEF Init, TypeOK, Places, NoReply
<1>2. ASSUME NEW s \in Slots
      PROVE  RequestIsKnown(s) /\ KeyIsHeld(s) /\ KeyIsNew(s) /\ QrIsHeld(s) /\ WalletIsHeld(s)
  BY DEF Init, RequestIsKnown, KeyIsHeld, KeyIsNew, QrIsHeld, WalletIsHeld,
         InTransaction, HoldsKey, KnowsKeyIsNew, HasDraft
<1>3. CreatorHasCommitted /\ OnePaymentPerKey /\ NoOverdraft
  BY AmountsAssumption DEF Init, CreatorHasCommitted, OnePaymentPerKey, NoOverdraft
<1> QED BY <1>1, <1>2, <1>3 DEF IInv

\* Every step keeps the invariant.
LEMMA NextIInv == IInv /\ [Next]_vars => IInv'
<1> SUFFICES ASSUME IInv, [Next]_vars PROVE IInv'
  OBVIOUS
<1>1. CASE UNCHANGED vars
  BY <1>1 DEF vars, dbVars, IInv, TypeOK, RequestIsKnown, KeyIsHeld, KeyIsNew, QrIsHeld,
              WalletIsHeld, CreatorHasCommitted, OnePaymentPerKey, NoOverdraft
<1>2. ASSUME NEW s \in Slots, NEW k \in IdemKeys, NEW b \in Bodies, Receive(s, k, b)
      PROVE  IInv'
  BY <1>2, ReceivePreservesIInv
<1>3. ASSUME NEW s \in Slots,
             Unauthorized(s) \/ Conflict(s) \/ Refuse(s) \/ RefuseMethod(s) \/ LedgerCheckFails(s)
      PROVE  IInv'
  <2>1. \E answer : Respond(s, answer, None)
    BY <1>3 DEF Unauthorized, Conflict, Refuse, RefuseMethod, LedgerCheckFails
  <2> QED BY <2>1, RespondPreservesIInv
<1>4. ASSUME NEW s \in Slots, Replay(s)
      PROVE  IInv'
  <2>1. PICK p \in payments : Respond(s, AnswerOf(p), p.id)
    BY <1>4 DEF Replay, PaymentsOf
  <2>2. p.id \in Slots
    BY DEF IInv, TypeOK, PaymentRows
  <2> QED BY <2>1, <2>2, RespondPreservesIInv
<1>5. ASSUME NEW s \in Slots, Abort(s)
      PROVE  IInv'
  <2>1. /\ DOMAIN reply' = Slots
        /\ \A t \in Slots : reply'[t].payment \in Slots \cup {None}
    BY <1>5 DEF IInv, TypeOK, Abort
  <2>2. "lost" \in {"replying"} \cup Ended
    BY DEF Ended
  <2> QED BY <1>5, <2>1, <2>2, LeavePreservesIInv DEF Abort
<1>6. ASSUME NEW s \in Slots, Serve(s)
      PROVE  IInv'
  BY <1>3, <1>4, <1>6, LockKeyPreservesIInv, FreshPreservesIInv, AdmitPreservesIInv,
     PayUnlockedPreservesIInv, PayByQrPreservesIInv, PayByRfCardPreservesIInv,
     InsertRowsPreservesIInv, CommitPreservesIInv, EndPreservesIInv
  DEF Serve
<1>7. CASE Step
  BY <1>2, <1>3, <1>5, <1>6, <1>7, EndPreservesIInv DEF Step
<1> QED BY <1>1, <1>7 DEF Next, Over

\* The inductive invariant holds in every reachable state: it is true at the
\* start and every action of every handler keeps it.
THEOREM Invariance == Spec => []IInv
BY InitIInv, NextIInv, PTL DEF Spec

\* The state is well typed in every reachable state, for every value of the
\* constants.
THEOREM TypeCorrect == Spec => []TypeOK
BY Invariance, PTL DEF IInv

\* A (device, Idempotency-Key) pair never has two payments, whatever the
\* interleaving of its requests, their aborts and their retries.
THEOREM PaymentPerKeyIsUnique == Spec => []OnePaymentPerKey
BY Invariance, PTL DEF IInv

\* The advisory lock and the lookup keep every INSERT away from the unique
\* index: two slots about to insert hold different keys, and new ones.
THEOREM InsertsNeverCollide == Spec => []DuplicateKeyFree
<1>1. IInv => DuplicateKeyFree
  <2> SUFFICES ASSUME IInv, NEW s \in Slots, pc[s] \in HasDraft
               PROVE  /\ PaymentsOf(key[s]) = {}
                      /\ \A t \in Slots \ {s} : pc[t] \in HasDraft => key[t] # key[s]
    BY DEF DuplicateKeyFree, HasDraft
  <2>1. PaymentsOf(key[s]) = {}
    BY DEF IInv, KeyIsNew, KnowsKeyIsNew, HasDraft, PaymentsOf
  <2>2. ASSUME NEW t \in Slots \ {s}, pc[t] \in HasDraft
        PROVE  key[t] # key[s]
    BY <2>2 DEF IInv, KeyIsHeld, HoldsKey, HasDraft
  <2> QED BY <2>1, <2>2
<1> QED BY <1>1, Invariance, PTL

\* No wallet is ever overdrawn: the row lock makes the balance that was
\* compared with the price the balance that is debited.
THEOREM WalletsAreNeverOverdrawn == Spec => []NoOverdraft
BY Invariance, PTL DEF IInv

-----------------------------------------------------------------------------
(* Every redemption of a QR code is a payment and is counted. *)

QrInv == IsFiniteSet(payments) /\ QrUsageIsRedemptions

\* Only Commit changes what QrInv speaks of.
LEMMA NextLeavesQr ==
  ASSUME Next
  PROVE  UNCHANGED << payments, qr >> \/ \E s \in Slots : Commit(s)
BY DEF Next, Step, Over, Serve, vars, dbVars, Receive, Unauthorized, LockKey, Replay, Conflict,
       Fresh, Refuse, Admit, RefuseMethod, PayByCard, PayByQr, PayByInvalidRfCard, PayByRfCard,
       Prepare, InsertRows, LedgerCheckFails, Deliver, Abort, LoseReply, Respond

\* A commit that redeems a code adds one payment and one use.
LEMMA CommitPreservesQrInv ==
  ASSUME IInv, QrInv, NEW s \in Slots, Commit(s)
  PROVE  QrInv'
<1> DEFINE new == NewPayment(s)
           d   == draft[s]
<1>1. pc[s] = "commit" /\ payments' = payments \cup {new} /\ d \in Drafts
  BY DEF IInv, TypeOK, Commit
<1>2. new.id = s /\ new.qr = d.qr /\ new.status = d.status
  BY DEF NewPayment
<1>3. new \notin payments
  BY <1>1, <1>2 DEF IInv, CreatorHasCommitted, Ended
<1>4. IsFiniteSet(payments')
  BY <1>1, FS_AddElement DEF QrInv
<1>5. d.qr # None => /\ d.status = "SUCCESS"
                     /\ d.usage = qr[d.qr].usage + 1
                     /\ d.usage <= UsageLimit[d.qr]
  BY <1>1 DEF IInv, QrIsHeld, HasDraft
<1> HIDE DEF new
<1>6. ASSUME NEW q \in QrCodes
      PROVE  /\ qr'[q].usage = Cardinality(RedemptionsOf(q)')
             /\ qr'[q].usage <= UsageLimit[q]
             /\ qr'[q].status = "USED" <=> qr'[q].usage = UsageLimit[q]
             /\ \A p \in RedemptionsOf(q)' : p.status = "SUCCESS"
  <2>1. /\ qr[q].usage = Cardinality(RedemptionsOf(q))
        /\ qr[q].usage <= UsageLimit[q]
        /\ qr[q].status = "USED" <=> qr[q].usage = UsageLimit[q]
        /\ \A p \in RedemptionsOf(q) : p.status = "SUCCESS"
    BY DEF QrInv, QrUsageIsRedemptions
  <2>2. CASE d.qr # q
    <3>1. qr'[q] = qr[q]
      BY <1>1, <2>2 DEF IInv, TypeOK, Commit, RedeemQr
    <3>2. RedemptionsOf(q)' = RedemptionsOf(q)
      BY <1>1, <1>2, <2>2 DEF RedemptionsOf
    <3> QED BY <2>1, <3>1, <3>2
  <2>3. CASE d.qr = q
    <3>1. q # None /\ qr[q].usage \in Nat /\ UsageLimit[q] \in Nat
      BY LocksAssumption, AmountsAssumption DEF IInv, TypeOK
    <3>2. /\ qr'[q].usage = d.usage
          /\ qr'[q].status = (IF d.usage >= UsageLimit[q] THEN "USED" ELSE "ACTIVE")
      BY <1>1, <2>3, <3>1 DEF IInv, TypeOK, Commit, RedeemQr
    <3>3. RedemptionsOf(q)' = RedemptionsOf(q) \cup {new}
      BY <1>1, <1>2, <2>3 DEF RedemptionsOf
    <3>4. IsFiniteSet(RedemptionsOf(q)) /\ new \notin RedemptionsOf(q)
      BY <1>3, FS_Subset DEF QrInv, RedemptionsOf
    <3>5. Cardinality(RedemptionsOf(q)') = Cardinality(RedemptionsOf(q)) + 1
      BY <3>3, <3>4, FS_AddElement
    <3>6. qr'[q].usage = Cardinality(RedemptionsOf(q)') /\ qr'[q].usage <= UsageLimit[q]
      BY <1>5, <2>1, <2>3, <3>1, <3>2, <3>5
    <3>7. qr'[q].status = "USED" <=> qr'[q].usage = UsageLimit[q]
      BY <1>5, <2>3, <3>1, <3>2
    <3>8. \A p \in RedemptionsOf(q)' : p.status = "SUCCESS"
      BY <1>2, <1>5, <2>1, <2>3, <3>1, <3>3
    <3> QED BY <3>6, <3>7, <3>8
  <2> QED BY <2>2, <2>3
<1> QED BY <1>4, <1>6 DEF QrInv, QrUsageIsRedemptions

\* Codes are counted from the start on, and every step keeps the count.
LEMMA QrInvariance == Spec => []QrInv
<1>1. Init => QrInv
  <2> SUFFICES ASSUME Init PROVE QrInv
    OBVIOUS
  <2>1. \A q \in QrCodes : RedemptionsOf(q) = {}
    BY DEF Init, RedemptionsOf
  <2>2. \A q \in QrCodes : UsageLimit[q] \in Nat \ {0}
    BY AmountsAssumption
  <2>3. \A q \in QrCodes : qr[q].usage = 0 /\ qr[q].status = "ACTIVE"
    BY DEF Init
  <2>4. IsFiniteSet(payments) /\ Cardinality({}) = 0
    BY FS_EmptySet DEF Init
  <2> QED BY <2>1, <2>2, <2>3, <2>4 DEF QrInv, QrUsageIsRedemptions
<1>2. IInv /\ QrInv /\ [Next]_vars => QrInv'
  <2> SUFFICES ASSUME IInv, QrInv, [Next]_vars PROVE QrInv'
    OBVIOUS
  <2>1. CASE UNCHANGED << payments, qr >>
    BY <2>1 DEF QrInv, QrUsageIsRedemptions, RedemptionsOf
  <2>2. CASE \E s \in Slots : Commit(s)
    BY <2>2, CommitPreservesQrInv
  <2> QED BY <2>1, <2>2, NextLeavesQr DEF vars, dbVars
<1> QED BY <1>1, <1>2, Invariance, PTL DEF Spec

\* A QR code is never used more often than its limit, every use of it is a
\* SUCCESS payment, and it is USED exactly when the limit is reached.
THEOREM QrCodesAreNeverOverused == Spec => []QrUsageIsRedemptions
BY QrInvariance, PTL DEF QrInv

-----------------------------------------------------------------------------
(* A payment a client was told of is committed and is the client's own. *)

NothingToldYet ==
  \A s \in Slots : pc[s] \in {"idle"} \cup InTransaction => reply[s].payment = None

RepliesInv == RepliesAreDurable /\ NothingToldYet

\* A step that tells nobody of a payment it does not have.
LEMMA QuietStepKeepsReplies ==
  ASSUME IInv, RepliesInv, NEW s \in Slots, NEW place \in Places, Goto(s, place),
         payments \subseteq payments',
         pc[s] = "idle" \/ UNCHANGED << key, body >>,
         \A t \in Slots \ {s} : key'[t] = key[t] /\ body'[t] = body[t],
         \A t \in Slots : reply'[t] = reply[t] \/ reply'[t].payment = None,
         place \in InTransaction => pc[s] \in {"idle"} \cup InTransaction,
         place # "idle"
  PROVE  RepliesInv'
<1>1. NothingToldYet'
  BY DEF IInv, TypeOK, RepliesInv, NothingToldYet, Goto
<1>2. ASSUME NEW t \in Slots, reply'[t].payment # None
      PROVE  \E p \in payments' :
               /\ p.id = reply'[t].payment
               /\ p.key = key'[t] /\ p.body = body'[t]
               /\ reply'[t].answer = AnswerOf(p)
  <2>1. reply'[t] = reply[t]
    BY <1>2
  <2>2. key'[t] = key[t] /\ body'[t] = body[t]
    BY <1>2, <2>1 DEF RepliesInv, NothingToldYet
  <2>3. PICK p \in payments :
               /\ p.id = reply[t].payment
               /\ p.key = key[t] /\ p.body = body[t]
               /\ reply[t].answer = AnswerOf(p)
    BY <1>2, <2>1 DEF RepliesInv, RepliesAreDurable
  <2> QED BY <2>1, <2>2, <2>3
<1> QED BY <1>1, <1>2 DEF RepliesInv, RepliesAreDurable

\* A step that tells slot s of a payment that is committed when it does.
LEMMA TellingStepKeepsReplies ==
  ASSUME IInv, RepliesInv, NEW s \in Slots, Goto(s, "replying"),
         payments \subseteq payments', UNCHANGED << key, body >>,
         NEW p \in payments', p.key = key[s], p.body = body[s],
         reply' = [reply EXCEPT ![s] = [answer |-> AnswerOf(p), payment |-> p.id]]
  PROVE  RepliesInv'
<1>1. NothingToldYet'
  BY DEF IInv, TypeOK, RepliesInv, NothingToldYet, Goto, InTransaction
<1>2. ASSUME NEW t \in Slots, reply'[t].payment # None
      PROVE  \E r \in payments' :
               /\ r.id = reply'[t].payment
               /\ r.key = key'[t] /\ r.body = body'[t]
               /\ reply'[t].answer = AnswerOf(r)
  <2>1. CASE t = s
    <3>1. reply'[t] = [answer |-> AnswerOf(p), payment |-> p.id]
      BY <2>1 DEF IInv, TypeOK
    <3> QED BY <2>1, <3>1
  <2>2. CASE t # s
    <3>1. reply'[t] = reply[t]
      BY <2>2 DEF IInv, TypeOK
    <3> QED BY <1>2, <3>1 DEF RepliesInv, RepliesAreDurable
  <2> QED BY <2>1, <2>2
<1> QED BY <1>1, <1>2 DEF RepliesInv, RepliesAreDurable

\* A refusal tells of no payment.
LEMMA RefusalKeepsReplies ==
  ASSUME IInv, RepliesInv, NEW s \in Slots, NEW answer, Respond(s, answer, None)
  PROVE  RepliesInv'
<1>1. \A t \in Slots : reply'[t] = reply[t] \/ reply'[t].payment = None
  BY DEF IInv, TypeOK, Respond
<1>2. "replying" \in Places /\ "replying" \notin InTransaction
  BY DEF Places, InTransaction
<1> QED BY <1>1, <1>2, QuietStepKeepsReplies DEF Respond, dbVars

\* Every step keeps what clients were told true.
LEMMA NextRepliesInv == IInv /\ RepliesInv /\ [Next]_vars => RepliesInv'
<1> SUFFICES ASSUME IInv, RepliesInv, [Next]_vars PROVE RepliesInv'
  OBVIOUS
<1> USE DEF Places, InTransaction, Ended
<1>1. CASE UNCHANGED vars
  BY <1>1 DEF vars, dbVars, RepliesInv, RepliesAreDurable, NothingToldYet
<1>2. ASSUME NEW s \in Slots, NEW k \in IdemKeys, NEW b \in Bodies, Receive(s, k, b)
      PROVE  RepliesInv'
  <2>1. \A t \in Slots \ {s} : key'[t] = key[t] /\ body'[t] = body[t]
    BY <1>2 DEF IInv, TypeOK, Receive
  <2> QED BY <1>2, <2>1, QuietStepKeepsReplies DEF Receive, dbVars
<1>3. ASSUME NEW s \in Slots,
             Unauthorized(s) \/ Conflict(s) \/ Refuse(s) \/ RefuseMethod(s) \/ LedgerCheckFails(s)
      PROVE  RepliesInv'
  <2>1. \E answer : Respond(s, answer, None)
    BY <1>3 DEF Unauthorized, Conflict, Refuse, RefuseMethod, LedgerCheckFails
  <2> QED BY <2>1, RefusalKeepsReplies
<1>4. ASSUME NEW s \in Slots, Replay(s)
      PROVE  RepliesInv'
  <2>1. PICK p \in payments : p.key = key[s] /\ p.body = body[s] /\ Respond(s, AnswerOf(p), p.id)
    BY <1>4 DEF Replay, PaymentsOf
  <2> QED BY <2>1, TellingStepKeepsReplies DEF Respond, dbVars
<1>5. ASSUME NEW s \in Slots, Commit(s)
      PROVE  RepliesInv'
  <2>1. /\ NewPayment(s).key = key[s] /\ NewPayment(s).body = body[s] /\ NewPayment(s).id = s
        /\ NewPayment(s) \in payments'
    BY <1>5 DEF NewPayment, Commit
  <2> QED BY <1>5, <2>1, TellingStepKeepsReplies DEF Commit
<1>6. ASSUME NEW s \in Slots,
             \/ LockKey(s) \/ Fresh(s) \/ Admit(s) \/ InsertRows(s)
             \/ Abort(s) \/ Deliver(s) \/ LoseReply(s)
      PROVE  RepliesInv'
  <2>1. \E place \in Places :
          /\ Goto(s, place) /\ place # "idle"
          /\ place \in InTransaction => pc[s] \in InTransaction
    BY <1>6 DEF LockKey, Fresh, Admit, InsertRows, Abort, Deliver, LoseReply
  <2>2. payments' = payments /\ key' = key /\ body' = body /\ reply' = reply
    BY <1>6 DEF LockKey, Fresh, Admit, InsertRows, Abort, Deliver, LoseReply, dbVars
  <2> QED BY <2>1, <2>2, QuietStepKeepsReplies
<1>7. ASSUME NEW s \in Slots,
             PayByCard(s) \/ PayByQr(s) \/ PayByInvalidRfCard(s) \/ PayByRfCard(s)
      PROVE  RepliesInv'
  <2>1. pc[s] = "method" /\ Goto(s, "insert")
    BY <1>7 DEF PayByCard, PayByQr, PayByInvalidRfCard, PayByRfCard, Prepare
  <2>2. payments' = payments /\ key' = key /\ body' = body /\ reply' = reply
    BY <1>7 DEF PayByCard, PayByQr, PayByInvalidRfCard, PayByRfCard, Prepare, dbVars
  <2> QED BY <2>1, <2>2, QuietStepKeepsReplies
<1>8. ASSUME NEW s \in Slots, Serve(s)
      PROVE  RepliesInv'
  BY <1>3, <1>4, <1>5, <1>6, <1>7, <1>8 DEF Serve
<1>9. CASE Step
  BY <1>2, <1>3, <1>6, <1>8, <1>9 DEF Step
<1> QED BY <1>1, <1>9 DEF Next, Over

\* The payment an answer names is committed, belongs to the request's key and
\* body, and the answer is the one its row calls for, now and ever after.
THEOREM AnswersAreDurable == Spec => []RepliesAreDurable
<1>1. Init => RepliesInv
  BY DEF Init, RepliesInv, RepliesAreDurable, NothingToldYet, NoReply
<1>2. RepliesInv => RepliesAreDurable
  BY DEF RepliesInv
<1> QED BY <1>1, <1>2, NextRepliesInv, Invariance, PTL DEF Spec
=============================================================================
