------------------------ MODULE PaymentContractProofs ------------------------
(***************************************************************************)
(* Payments implements its contract: every transaction is one atomic step   *)
(* of PaymentContract, whatever runs beside it.  On the way: no committed   *)
(* payment is financially partial, money moves only with its ledger, and    *)
(* each wallet's balance is its first one less the sum of its ledger.       *)
(***************************************************************************)
EXTENDS PaymentsProofs, FiniteSums

-----------------------------------------------------------------------------
(***************************************************************************)
(* What a request's draft says.  IInv knows what a draft spends; this is    *)
(* what it was computed from: the body, what the guards saw, and the        *)
(* committed row the transaction still holds.                               *)
(***************************************************************************)
CardDraft(s) ==
  /\ body[s].method = "CARD" /\ body[s].scenario \in Scenarios
  /\ LET outcome == CardOutcome(body[s].scenario)
     IN  draft[s] = PlainDraft(s, outcome[1], outcome[2])

CodeDraft(s) ==
  /\ body[s].method = "QR" /\ body[s].qr \in QrCodes
  /\ owner[body[s].qr] = s
  /\ draft[s] = QrDraft(s, body[s].qr)

BadRfDraft(s) ==
  /\ body[s].method = "RF_CARD" /\ body[s].rf \in Wallets /\ ~seen[s].cardValid
  /\ draft[s] = PlainDraft(s, "FAILED", "RF_CARD_INVALID")

GoodRfDraft(s) ==
  /\ body[s].method = "RF_CARD" /\ body[s].rf \in Wallets /\ seen[s].cardValid
  /\ owner[body[s].rf] = s
  /\ draft[s] = RfDraft(s, body[s].rf)

Decided(s) == CardDraft(s) \/ CodeDraft(s) \/ BadRfDraft(s) \/ GoodRfDraft(s)

WasAdmitted(s) ==
  pc[s] \in {"method", "insert", "commit"} =>
    seen[s] \in Facts /\ PyRefusal(seen[s], body[s]) = Admitted

IsDecided(s) == pc[s] \in HasDraft => Decided(s)

PassedLedger(s) == pc[s] = "commit" => LedgerCheckHolds(draft[s])

DraftInv == \A s \in Slots : WasAdmitted(s) /\ IsDecided(s) /\ PassedLedger(s)

-----------------------------------------------------------------------------
(* DraftInv is preserved. *)

\* A step of another request changes neither what s has nor the rows it holds.
LEMMA OthersKeepDraft ==
  ASSUME DraftInv, NEW t \in Slots,
         pc'[t] = pc[t], body'[t] = body[t], seen'[t] = seen[t], draft'[t] = draft[t],
         \A l \in Locks : owner[l] = t => owner'[l] = t,
         \A q \in QrCodes : owner[q] = t => qr'[q] = qr[q],
         \A w \in Wallets : owner[w] = t => wallet'[w] = wallet[w]
  PROVE  (WasAdmitted(t) /\ IsDecided(t) /\ PassedLedger(t))'
<1>1. WasAdmitted(t)' /\ PassedLedger(t)'
  BY DEF DraftInv, WasAdmitted, PassedLedger, LedgerCheckHolds
<1>2. \A status, error : PlainDraft(t, status, error)' = PlainDraft(t, status, error)
  BY DEF PlainDraft
<1>3. ASSUME CardDraft(t) \/ BadRfDraft(t)
      PROVE  (CardDraft(t) \/ BadRfDraft(t))'
  BY <1>2, <1>3 DEF CardDraft, BadRfDraft
<1>4. ASSUME CodeDraft(t)
      PROVE  CodeDraft(t)'
  <2>1. body[t].qr \in QrCodes /\ body[t].qr \in Locks /\ owner[body[t].qr] = t
    BY <1>4 DEF CodeDraft, Locks
  <2>2. QrDraft(t, body[t].qr)' = QrDraft(t, body[t].qr)
    BY <1>2, <2>1 DEF QrDraft, Redeemable
  <2> QED BY <1>4, <2>1, <2>2 DEF CodeDraft
<1>5. ASSUME GoodRfDraft(t)
      PROVE  GoodRfDraft(t)'
  <2>1. body[t].rf \in Wallets /\ body[t].rf \in Locks /\ owner[body[t].rf] = t
    BY <1>5 DEF GoodRfDraft, Locks
  <2>2. RfDraft(t, body[t].rf)' = RfDraft(t, body[t].rf)
    BY <1>2, <2>1 DEF RfDraft
  <2> QED BY <1>5, <2>1, <2>2 DEF GoodRfDraft
<1>6. IsDecided(t)'
  BY <1>3, <1>4, <1>5 DEF DraftInv, IsDecided, Decided
<1> QED BY <1>1, <1>6

\* A request that is in none of the places DraftInv speaks of.
LEMMA NothingDecided ==
  ASSUME NEW s \in Slots, pc[s] \notin {"method", "insert", "commit"}
  PROVE  WasAdmitted(s) /\ IsDecided(s) /\ PassedLedger(s)
BY DEF WasAdmitted, IsDecided, PassedLedger, HasDraft

\* A step of s that writes no table, drops no lock of others and brings s to
\* where DraftInv asks for nothing.
LEMMA QuietStepKeepsDraft ==
  ASSUME IInv, DraftInv, NEW s \in Slots,
         NEW place \in Places \ {"method", "insert", "commit"}, Goto(s, place),
         UNCHANGED << qr, wallet >>,
         \A t \in Slots \ {s} : body'[t] = body[t] /\ seen'[t] = seen[t] /\ draft'[t] = draft[t],
         \A l \in Locks, t \in Slots \ {s} : owner[l] = t => owner'[l] = t
  PROVE  DraftInv'
<1>1. pc'[s] = place /\ \A t \in Slots \ {s} : pc'[t] = pc[t]
  BY DEF IInv, TypeOK, Goto
<1>2. (WasAdmitted(s) /\ IsDecided(s) /\ PassedLedger(s))'
  BY <1>1 DEF WasAdmitted, IsDecided, PassedLedger, HasDraft
<1>3. ASSUME NEW t \in Slots \ {s}
      PROVE  (WasAdmitted(t) /\ IsDecided(t) /\ PassedLedger(t))'
  BY <1>1, OthersKeepDraft
<1> QED BY <1>2, <1>3 DEF DraftInv

\* A draft is made from what the transaction saw and holds.
LEMMA PrepareKeepsDraft ==
  ASSUME IInv, DraftInv, NEW s \in Slots, pc[s] = "method", NEW d, Prepare(s, d),
         Decided(s)',
         \A l \in Locks, t \in Slots \ {s} : owner[l] = t => owner'[l] = t
  PROVE  DraftInv'
<1>1. /\ pc'[s] = "insert" /\ \A t \in Slots \ {s} : pc'[t] = pc[t] /\ draft'[t] = draft[t]
      /\ UNCHANGED << qr, wallet, body, seen >>
  BY DEF IInv, TypeOK, Prepare, Goto, dbVars
<1>2. WasAdmitted(s)' /\ IsDecided(s)' /\ PassedLedger(s)'
  BY <1>1 DEF DraftInv, WasAdmitted, IsDecided, PassedLedger
<1>3. ASSUME NEW t \in Slots \ {s}
      PROVE  (WasAdmitted(t) /\ IsDecided(t) /\ PassedLedger(t))'
  BY <1>1, OthersKeepDraft
<1> QED BY <1>2, <1>3 DEF DraftInv

\* The four outcomes of the method branch.
LEMMA PayKeepsDraft ==
  ASSUME IInv, DraftInv, NEW s \in Slots,
         PayByCard(s) \/ PayByQr(s) \/ PayByInvalidRfCard(s) \/ PayByRfCard(s)
  PROVE  DraftInv'
<1>1. pc[s] = "method" /\ body[s] \in Bodies
  BY DEF IInv, RequestIsKnown, InTransaction, PayByCard, PayByQr, PayByInvalidRfCard, PayByRfCard
<1>2. ASSUME NEW d, Prepare(s, d)
      PROVE  /\ draft'[s] = d /\ UNCHANGED << qr, wallet, body, seen >>
             /\ \A status, error : PlainDraft(s, status, error)' = PlainDraft(s, status, error)
             /\ \A q \in QrCodes : QrDraft(s, q)' = QrDraft(s, q)
             /\ \A w \in Wallets : RfDraft(s, w)' = RfDraft(s, w)
  BY <1>2 DEF IInv, TypeOK, Prepare, dbVars, PlainDraft, QrDraft, Redeemable, RfDraft
<1>3. CASE PayByCard(s)
  <2>1. CardDraft(s)'
    BY <1>2, <1>3 DEF PayByCard, CardDraft
  <2> QED BY <1>1, <1>3, <2>1, PrepareKeepsDraft DEF PayByCard, Decided
<1>4. CASE PayByInvalidRfCard(s)
  <2>1. BadRfDraft(s)'
    BY <1>2, <1>4 DEF PayByInvalidRfCard, BadRfDraft
  <2> QED BY <1>1, <1>4, <2>1, PrepareKeepsDraft DEF PayByInvalidRfCard, Decided
<1>5. CASE PayByQr(s)
  <2>1. body[s].qr \in QrCodes /\ body[s].qr \in Locks
    BY <1>1, <1>5, BodiesAssumption DEF PayByQr, Locks
  <2>2. /\ owner'[body[s].qr] = s
        /\ \A l \in Locks, t \in Slots : owner[l] = t => owner'[l] = t
    BY <1>5, <2>1, TakeLockEffect DEF PayByQr, IInv
  <2>3. CodeDraft(s)'
    BY <1>2, <1>5, <2>1, <2>2 DEF PayByQr, CodeDraft
  <2> QED BY <1>1, <1>5, <2>2, <2>3, PrepareKeepsDraft DEF PayByQr, Decided
<1>6. CASE PayByRfCard(s)
  <2>1. body[s].rf \in Wallets /\ body[s].rf \in Locks
    BY <1>6 DEF PayByRfCard, Locks
  <2>2. /\ owner'[body[s].rf] = s
        /\ \A l \in Locks, t \in Slots : owner[l] = t => owner'[l] = t
    BY <1>6, <2>1, TakeLockEffect DEF PayByRfCard, IInv
  <2>3. GoodRfDraft(s)'
    BY <1>2, <1>6, <2>1, <2>2 DEF PayByRfCard, GoodRfDraft
  <2> QED BY <1>1, <1>6, <2>2, <2>3, PrepareKeepsDraft DEF PayByRfCard, Decided
<1> QED BY <1>3, <1>4, <1>5, <1>6

\* A commit writes only rows whose lock it holds, so no other draft ages.
LEMMA CommitKeepsDraft ==
  ASSUME IInv, DraftInv, NEW s \in Slots, Commit(s)
  PROVE  DraftInv'
<1>1. pc[s] = "commit" /\ draft[s] \in Drafts
  BY DEF IInv, TypeOK, Commit
<1>2. /\ UNCHANGED << body, seen, draft >>
      /\ pc'[s] = "replying" /\ \A t \in Slots \ {s} : pc'[t] = pc[t]
  BY DEF IInv, TypeOK, Commit, Goto
<1>3. \A l \in Locks, t \in Slots \ {s} : owner[l] = t => owner'[l] = t
  BY ReleaseLocksEffect DEF IInv, Commit
<1>4. ASSUME NEW q \in QrCodes, owner[q] # s
      PROVE  qr'[q] = qr[q]
  BY <1>1, <1>4 DEF IInv, TypeOK, Commit, RedeemQr, QrIsHeld, Drafts, HasDraft
<1>5. ASSUME NEW w \in Wallets, owner[w] # s
      PROVE  wallet'[w] = wallet[w]
  BY <1>1, <1>5 DEF IInv, TypeOK, Commit, DebitWallet, WalletIsHeld, Drafts, HasDraft
<1>6. ASSUME NEW t \in Slots \ {s}
      PROVE  (WasAdmitted(t) /\ IsDecided(t) /\ PassedLedger(t))'
  BY <1>2, <1>3, <1>4, <1>5, OthersKeepDraft
<1>7. (WasAdmitted(s) /\ IsDecided(s) /\ PassedLedger(s))'
  BY <1>2 DEF WasAdmitted, IsDecided, PassedLedger, HasDraft
<1> QED BY <1>6, <1>7 DEF DraftInv

\* The guards admit, and the INSERTs pass the ledger's CHECK.
LEMMA AdvanceKeepsDraft ==
  ASSUME IInv, DraftInv, NEW s \in Slots, Admit(s) \/ InsertRows(s)
  PROVE  DraftInv'
<1>1. /\ UNCHANGED << qr, wallet, owner, body, draft >>
      /\ \A t \in Slots \ {s} : pc'[t] = pc[t] /\ seen'[t] = seen[t]
  BY DEF IInv, TypeOK, Admit, InsertRows, Goto, dbVars
<1>2. ASSUME NEW t \in Slots \ {s}
      PROVE  (WasAdmitted(t) /\ IsDecided(t) /\ PassedLedger(t))'
  BY <1>1, OthersKeepDraft
<1>3. CASE Admit(s)
  <2>1. pc'[s] = "method" /\ seen'[s] \in Facts /\ PyRefusal(seen'[s], body'[s]) = Admitted
    BY <1>3 DEF IInv, TypeOK, Admit, Goto
  <2>2. (WasAdmitted(s) /\ IsDecided(s) /\ PassedLedger(s))'
    BY <2>1 DEF WasAdmitted, IsDecided, PassedLedger, HasDraft
  <2> QED BY <1>2, <2>2 DEF DraftInv
<1>4. CASE InsertRows(s)
  <2>1. /\ pc[s] = "insert" /\ pc'[s] = "commit" /\ seen' = seen
        /\ LedgerCheckHolds(draft[s])
    BY <1>4 DEF IInv, TypeOK, InsertRows, Goto
  <2>2. WasAdmitted(s)' /\ PassedLedger(s)'
    BY <1>1, <2>1 DEF DraftInv, WasAdmitted, PassedLedger, LedgerCheckHolds
  <2>3. IsDecided(s)'
    BY <1>1, <2>1 DEF DraftInv, IsDecided, HasDraft, Decided, CardDraft, CodeDraft,
                      BadRfDraft, GoodRfDraft, PlainDraft, QrDraft, Redeemable, RfDraft
  <2> QED BY <1>2, <2>2, <2>3 DEF DraftInv
<1> QED BY <1>3, <1>4

\* Every step leaves each draft true to what it was computed from.
LEMMA NextDraftInv == IInv /\ DraftInv /\ [Next]_vars => DraftInv'
<1> SUFFICES ASSUME IInv, DraftInv, [Next]_vars PROVE DraftInv'
  OBVIOUS
<1>1. CASE UNCHANGED vars
  BY <1>1, OthersKeepDraft DEF vars, dbVars, DraftInv
<1>2. ASSUME NEW s \in Slots,
             \/ \E answer, payment : Respond(s, answer, payment)
             \/ Abort(s)
      PROVE  DraftInv'
  <2>1. PICK place \in {"replying", "lost"} : Goto(s, place)
    BY <1>2 DEF Respond, Abort
  <2>2. /\ ReleaseLocks(s) /\ UNCHANGED << qr, wallet, body, seen, draft >>
    BY <1>2 DEF Respond, Abort, dbVars
  <2>3. \A l \in Locks, t \in Slots \ {s} : owner[l] = t => owner'[l] = t
    BY <2>2, ReleaseLocksEffect DEF IInv
  <2> QED BY <2>1, <2>2, <2>3, QuietStepKeepsDraft DEF Places, Ended
<1>3. ASSUME NEW s \in Slots, Replay(s)
      PROVE  DraftInv'
  BY <1>2, <1>3 DEF Replay
<1>4. ASSUME NEW s \in Slots,
             Unauthorized(s) \/ Conflict(s) \/ Refuse(s) \/ RefuseMethod(s) \/ LedgerCheckFails(s)
      PROVE  DraftInv'
  BY <1>2, <1>4 DEF Unauthorized, Conflict, Refuse, RefuseMethod, LedgerCheckFails
<1>5. ASSUME NEW s \in Slots,
             \/ Fresh(s) \/ Deliver(s) \/ LoseReply(s)
             \/ \E k \in IdemKeys, b \in Bodies : Receive(s, k, b)
      PROVE  DraftInv'
  <2>1. PICK place \in {"guards", "answered", "lost", "locking"} : Goto(s, place)
    BY <1>5 DEF Fresh, Deliver, LoseReply, Receive
  <2>2. /\ UNCHANGED << qr, wallet, owner, seen, draft >>
        /\ \A t \in Slots \ {s} : body'[t] = body[t]
    BY <1>5 DEF IInv, TypeOK, Fresh, Deliver, LoseReply, Receive, dbVars
  <2> QED BY <2>1, <2>2, QuietStepKeepsDraft DEF Places, InTransaction, Ended
<1>6. ASSUME NEW s \in Slots, LockKey(s)
      PROVE  DraftInv'
  <2>1. key[s] \in Locks
    BY <1>6 DEF IInv, RequestIsKnown, LockKey, InTransaction, Locks
  <2>2. /\ Goto(s, "lookup") /\ UNCHANGED << qr, wallet, body, seen, draft >>
        /\ \A l \in Locks, t \in Slots : owner[l] = t => owner'[l] = t
    BY <1>6, <2>1, TakeLockEffect DEF IInv, LockKey, dbVars
  <2> QED BY <2>2, QuietStepKeepsDraft DEF Places, InTransaction
<1>7. ASSUME NEW s \in Slots, Serve(s)
      PROVE  DraftInv'
  BY <1>3, <1>4, <1>5, <1>6, <1>7, PayKeepsDraft, AdvanceKeepsDraft, CommitKeepsDraft DEF Serve
<1>8. CASE Step
  BY <1>2, <1>4, <1>5, <1>7, <1>8 DEF Step
<1> QED BY <1>1, <1>8 DEF Next, Over

\* What a transaction decided is still what it would decide, until it ends.
LEMMA DraftInvariance == Spec => []DraftInv
<1>1. Init => DraftInv
  BY NothingDecided DEF Init, DraftInv
<1> QED BY <1>1, NextDraftInv, Invariance, PTL DEF Spec

-----------------------------------------------------------------------------
(* What a commit writes belongs to the payment it writes. *)

\* A draft debits a wallet exactly when it is the SUCCESS of an RF card, and
\* then the wallet of the body.
LEMMA DraftDebits ==
  ASSUME IInv, DraftInv, NEW s \in Slots, pc[s] \in HasDraft
  PROVE  IF body[s].method = "RF_CARD" /\ draft[s].status = "SUCCESS"
         THEN draft[s].wallet = body[s].rf /\ draft[s].wallet \in Wallets
         ELSE draft[s].wallet = None
<1>1. seen[s] \in Facts /\ Decided(s)
  BY DEF DraftInv, WasAdmitted, IsDecided, HasDraft
<1>2. CASE CardDraft(s) \/ BadRfDraft(s)
  BY <1>2 DEF CardDraft, BadRfDraft, PlainDraft, NoDraft
<1>3. CASE CodeDraft(s)
  BY <1>3, <1>1, QrDraftType DEF CodeDraft, IInv
<1>4. CASE GoodRfDraft(s)
  <2>1. /\ draft[s].status \in {"FAILED", "SUCCESS"}
        /\ draft[s].status = "FAILED" => draft[s].wallet = None
        /\ draft[s].status = "SUCCESS" => draft[s].wallet = body[s].rf
    BY <1>4 DEF GoodRfDraft, RfDraft, PlainDraft, NoDraft
  <2> QED BY <1>4, <2>1 DEF GoodRfDraft
<1> QED BY <1>1, <1>2, <1>3, <1>4 DEF Decided

\* Only Commit writes the tables of money.
LEMMA NextLeavesMoney ==
  ASSUME Next
  PROVE  UNCHANGED dbVars \/ \E s \in Slots : Commit(s)
BY DEF Next, Step, Over, Serve, vars, dbVars, Receive, Unauthorized, LockKey, Replay, Conflict,
       Fresh, Refuse, Admit, RefuseMethod, PayByCard, PayByQr, PayByInvalidRfCard, PayByRfCard,
       Prepare, InsertRows, LedgerCheckFails, Deliver, Abort, LoseReply, Respond

\* A commit writes a payment together with all that hangs on it.
LEMMA CommitKeepsWhole ==
  ASSUME IInv, DraftInv, FinancialStateIsWhole, NEW s \in Slots, Commit(s)
  PROVE  FinancialStateIsWhole'
<1> PICK new : new = NewPayment(s)
  OBVIOUS
<1>1. /\ pc[s] = "commit" /\ payments' = payments \cup {new}
      /\ children' = children \cup {[table |-> t, payment |-> s] : t \in ChildTablesOf(new)}
  BY DEF Commit
<1>2. /\ new.id = s /\ new.body = body[s] /\ new.status = draft[s].status
      /\ new.amount = draft[s].amount
  BY DEF NewPayment
<1>3. \A p \in payments : p.id # s
  BY <1>1 DEF IInv, CreatorHasCommitted, Ended
<1>4. \A r \in children \cup ledger : r.payment # s
  BY <1>3 DEF FinancialStateIsWhole
<1>5. ledger' = ledger \cup
        (IF draft[s].wallet = None THEN {}
         ELSE {[wallet |-> draft[s].wallet, payment |-> s, amount |-> draft[s].amount]})
  BY DEF Commit, DebitWallet
<1>6. IF new.body.method = "RF_CARD" /\ new.status = "SUCCESS"
      THEN draft[s].wallet = new.body.rf /\ draft[s].wallet # None
      ELSE draft[s].wallet = None
  BY <1>1, <1>2, DraftDebits, LocksAssumption DEF HasDraft
<1>7. ASSUME NEW p \in payments
      PROVE  /\ HasChild(p, "start_rights")' <=> p.status = "SUCCESS"
             /\ HasChild(p, "provider_transactions")' <=> p.body.method = "CARD"
             /\ {l \in ledger' : l.payment = p.id} = {l \in ledger : l.payment = p.id}
  <2>1. p.id # s
    BY <1>3
  <2>2. \A t : HasChild(p, t)' <=> HasChild(p, t)
    BY <1>1, <2>1 DEF HasChild
  <2>3. {l \in ledger' : l.payment = p.id} = {l \in ledger : l.payment = p.id}
    BY <1>5, <2>1
  <2> QED BY <2>2, <2>3 DEF FinancialStateIsWhole
<1>8. /\ HasChild(new, "start_rights")' <=> new.status = "SUCCESS"
      /\ HasChild(new, "provider_transactions")' <=> new.body.method = "CARD"
  <2>1. ASSUME NEW t
        PROVE  HasChild(new, t)' <=> t \in ChildTablesOf(new)
    <3>1. HasChild(new, t)' <=> [table |-> t, payment |-> s] \in children'
      BY <1>2 DEF HasChild
    <3>2. [table |-> t, payment |-> s].payment = s
      OBVIOUS
    <3>3. [table |-> t, payment |-> s] \notin children
      BY <3>2, <1>4
    <3>4. \A u : [table |-> t, payment |-> s] = [table |-> u, payment |-> s] => t = u
      OBVIOUS
    <3> QED BY <1>1, <3>1, <3>3, <3>4
  <2> QED BY <2>1 DEF ChildTablesOf
<1>9. {l \in ledger' : l.payment = new.id} =
        IF new.body.method = "RF_CARD" /\ new.status = "SUCCESS"
        THEN {[wallet |-> new.body.rf, payment |-> new.id, amount |-> new.amount]}
        ELSE {}
  BY <1>2, <1>4, <1>5, <1>6
<1>10. \A r \in children' \cup ledger' : \E p \in payments' : p.id = r.payment
  <2>1. \A r \in children \cup ledger : \E p \in payments' : p.id = r.payment
    BY <1>1 DEF FinancialStateIsWhole
  <2>2. \A r : r.payment = s => \E p \in payments' : p.id = r.payment
    BY <1>1, <1>2
  <2>3. \A r \in (children' \cup ledger') \ (children \cup ledger) : r.payment = s
    BY <1>1, <1>5
  <2> QED BY <2>1, <2>2, <2>3
<1> QED BY <1>1, <1>7, <1>8, <1>9, <1>10 DEF FinancialStateIsWhole

\* No committed payment is financially partial: its start right, provider row
\* and debit are there exactly when its method and status call for them.
THEOREM PaymentsAreWhole == Spec => []FinancialStateIsWhole
<1>1. Init => FinancialStateIsWhole
  BY DEF Init, FinancialStateIsWhole
<1>2. IInv /\ DraftInv /\ FinancialStateIsWhole /\ [Next]_vars => FinancialStateIsWhole'
  <2> SUFFICES ASSUME IInv, DraftInv, FinancialStateIsWhole, [Next]_vars
               PROVE  FinancialStateIsWhole'
    OBVIOUS
  <2>1. CASE UNCHANGED dbVars
    BY <2>1 DEF dbVars, FinancialStateIsWhole, HasChild
  <2>2. CASE \E s \in Slots : Commit(s)
    BY <2>2, CommitKeepsWhole
  <2> QED BY <2>1, <2>2, NextLeavesMoney DEF vars
<1> QED BY <1>1, <1>2, Invariance, DraftInvariance, PTL DEF Spec

\* A wallet that a commit changes is debited by the row the commit writes.
LEMMA CommitMovesMoney ==
  ASSUME IInv, DraftInv, FinancialStateIsWhole, NEW s \in Slots, Commit(s),
         NEW w \in Wallets, wallet'[w] # wallet[w]
  PROVE  \E l \in ledger' \ ledger :
           /\ ledger' = ledger \cup {l}
           /\ l.wallet = w /\ l.amount > 0
           /\ wallet'[w].balance = wallet[w].balance - l.amount
           /\ \E p \in payments' \ payments : p.id = l.payment /\ p.status = "SUCCESS"
<1> DEFINE d == draft[s]
           l == [wallet |-> d.wallet, payment |-> s, amount |-> d.amount]
<1>1. pc[s] = "commit" /\ d \in Drafts
  BY DEF IInv, TypeOK, Commit
<1>2. d.wallet = w /\ d.wallet # None
  BY DEF IInv, TypeOK, Commit, DebitWallet
<1>3. d.status = "SUCCESS" /\ d.amount > 0
  BY <1>1, <1>2 DEF IInv, WalletIsHeld, HasDraft, DraftInv, PassedLedger, LedgerCheckHolds
<1>4. /\ ledger' = ledger \cup {l}
      /\ wallet'[w].balance = wallet[w].balance - d.amount
  BY <1>2 DEF IInv, TypeOK, Commit, DebitWallet
<1>5. NewPayment(s) \in payments' /\ NewPayment(s).id = s /\ NewPayment(s).status = d.status
  BY DEF Commit, NewPayment
<1>6. \A p \in payments : p.id # s
  BY <1>1 DEF IInv, CreatorHasCommitted, Ended
<1>7. l \notin ledger
  BY <1>6 DEF FinancialStateIsWhole
<1>8. l.wallet = w /\ l.payment = s /\ l.amount = d.amount
  BY <1>2
<1>9. NewPayment(s) \in payments' \ payments
  BY <1>5, <1>6
<1> HIDE DEF l, d
<1> QED BY <1>3, <1>4, <1>5, <1>7, <1>8, <1>9

\* A wallet changes only in the step that commits its debit and the SUCCESS
\* payment the debit belongs to.
THEOREM MoneyAlwaysMovesWithItsLedger == Spec => MoneyMovesWithItsLedger
<1>1. IInv /\ DraftInv /\ FinancialStateIsWhole /\ [Next]_vars =>
        [\A w \in Wallets : wallet'[w] # wallet[w] =>
           \E l \in ledger' \ ledger :
             /\ ledger' = ledger \cup {l}
             /\ l.wallet = w /\ l.amount > 0
             /\ wallet'[w].balance = wallet[w].balance - l.amount
             /\ \E p \in payments' \ payments : p.id = l.payment /\ p.status = "SUCCESS"]_vars
  <2> SUFFICES ASSUME IInv, DraftInv, FinancialStateIsWhole, Next,
                      NEW w \in Wallets, wallet'[w] # wallet[w]
               PROVE  \E l \in ledger' \ ledger :
                        /\ ledger' = ledger \cup {l}
                        /\ l.wallet = w /\ l.amount > 0
                        /\ wallet'[w].balance = wallet[w].balance - l.amount
                        /\ \E p \in payments' \ payments : p.id = l.payment /\ p.status = "SUCCESS"
    OBVIOUS
  <2>1. PICK s \in Slots : Commit(s)
    BY NextLeavesMoney DEF dbVars
  <2> QED BY <2>1, CommitMovesMoney
<1> QED BY <1>1, Invariance, DraftInvariance, PaymentsAreWhole, PTL DEF Spec, MoneyMovesWithItsLedger

-----------------------------------------------------------------------------
(* A wallet's books: what its ledger debits is what its balance lost.       *)

Debits == [wallet : Wallets, payment : Slots, amount : Nat]

Amounts == [l \in Debits |-> l.amount]

LEMMA SumOfAmounts ==
  ASSUME NEW S \in SUBSET Debits, IsFiniteSet(S)
  PROVE  AmountOf(S) = Sum(Amounts, S)
<1> DEFINE Adds(h) == h = [T \in SUBSET S |->
                             IF T = {} THEN 0 ELSE Chosen(T).amount + h[T \ {Chosen(T)}]]
           fold == CHOOSE h : Adds(h)
<1>1. AmountOf(S) = fold[S]
  BY DEF AmountOf, MapThenSumSet, MapThenFoldSet, Chosen
<1>2. ASSUME NEW h PROVE Adds(h) <=> IsSum(h, Amounts, S)
  <2>1. \A T \in SUBSET S : T # {} => Amounts[Chosen(T)] = Chosen(T).amount
    BY ChosenIsIn DEF Amounts
  <2>2. [T \in SUBSET S |-> IF T = {} THEN 0 ELSE Chosen(T).amount + h[T \ {Chosen(T)}]]
          = [T \in SUBSET S |-> IF T = {} THEN 0 ELSE Amounts[Chosen(T)] + h[T \ {Chosen(T)}]]
    BY <2>1
  <2> QED
    BY <2>2 DEF IsSum
<1>3. \E h : Adds(h)
  <2> HIDE DEF Adds
  <2> QED
    BY <1>2, SumExists
<1>4. Adds(fold)
  BY <1>3
<1>5. IsSum(fold, Amounts, S)
  <2> HIDE DEF Adds, fold
  <2> QED
    BY <1>2, <1>4
<1> HIDE DEF fold
<1> QED
  BY <1>1, <1>5, SumIsSum

BooksInv == IsFiniteSet(ledger) /\ WalletMatchesLedger

LEMMA CommitKeepsBooks ==
  ASSUME IInv, DraftInv, FinancialStateIsWhole, BooksInv, NEW s \in Slots, Commit(s)
  PROVE  BooksInv'
<1> PICK d, new : d = draft[s] /\ new = [wallet |-> d.wallet, payment |-> s, amount |-> d.amount]
  OBVIOUS
<1>1. pc[s] = "commit" /\ d \in Drafts
  BY DEF IInv, TypeOK, Commit
<1>2. CASE d.wallet = None
  <2>1. wallet' = wallet /\ ledger' = ledger
    BY <1>2 DEF Commit, DebitWallet
  <2> QED
    BY <2>1 DEF BooksInv, WalletMatchesLedger, DebitsOf
<1>3. CASE d.wallet # None
  <2>1. d.wallet \in Wallets /\ d.amount \in Nat /\ new \in Debits
    BY <1>1, <1>3 DEF Drafts, Debits
  <2>2. /\ ledger' = ledger \cup {new}
        /\ wallet' = [wallet EXCEPT ![d.wallet] =
                        [balance |-> @.balance - d.amount, version |-> @.version + 1]]
    BY <1>3 DEF Commit, DebitWallet
  <2>3. new \notin ledger
    <3>1. \A p \in payments : p.id # s
      BY <1>1 DEF IInv, CreatorHasCommitted, Ended
    <3> QED
      BY <3>1 DEF FinancialStateIsWhole
  <2>4. IsFiniteSet(ledger')
    BY <2>2, FS_AddElement DEF BooksInv
  <2>5. ASSUME NEW w \in Wallets
        PROVE  /\ wallet'[w].version = Cardinality(DebitsOf(w)')
               /\ wallet'[w].balance + AmountOf(DebitsOf(w)') = Opening[w]
    <3>1. /\ wallet[w].version = Cardinality(DebitsOf(w))
          /\ wallet[w].balance + AmountOf(DebitsOf(w)) = Opening[w]
      BY DEF BooksInv, WalletMatchesLedger
    <3>2. /\ DebitsOf(w) \in SUBSET Debits /\ IsFiniteSet(DebitsOf(w)) /\ new \notin DebitsOf(w)
      BY <2>3, FS_Subset DEF BooksInv, IInv, TypeOK, DebitsOf, Debits
    <3>3. wallet[w].balance \in Int /\ wallet[w].version \in Nat /\ Opening[w] \in Nat
      BY AmountsAssumption DEF IInv, TypeOK
    <3>4. CASE d.wallet # w
      <4>1. wallet'[w] = wallet[w]
        BY <2>2, <3>4 DEF IInv, TypeOK
      <4>2. DebitsOf(w)' = DebitsOf(w)
        BY <2>2, <3>4 DEF DebitsOf
      <4> QED
        BY <3>1, <4>1, <4>2
    <3>5. CASE d.wallet = w
      <4>1. DebitsOf(w)' = DebitsOf(w) \cup {new}
        BY <2>2, <3>5 DEF DebitsOf
      <4>2. Cardinality(DebitsOf(w)') = Cardinality(DebitsOf(w)) + 1
        <5>1. IsFiniteSet(DebitsOf(w)) /\ new \notin DebitsOf(w)
          BY <3>2
        <5> QED
          BY <4>1, <5>1, FS_AddElement
      <4>3. Sum(Amounts, DebitsOf(w)') = d.amount + Sum(Amounts, DebitsOf(w))
        <5>1. \A l \in DebitsOf(w) \cup {new} : Amounts[l] \in Int
          BY <2>1, <3>2 DEF Amounts, Debits
        <5>2. Amounts[new] = d.amount
          BY <2>1 DEF Amounts
        <5> QED
          BY <3>2, <4>1, <5>1, <5>2, SumWith
      <4>4. DebitsOf(w)' \in SUBSET Debits /\ IsFiniteSet(DebitsOf(w)')
        BY <2>1, <3>2, <4>1, FS_AddElement
      <4>5. PICK before, after :
              /\ before = AmountOf(DebitsOf(w))
              /\ after = AmountOf(DebitsOf(w)')
        OBVIOUS
      <4>6. before \in Int /\ after = d.amount + before
        <5>1. before = Sum(Amounts, DebitsOf(w)) /\ after = Sum(Amounts, DebitsOf(w)')
          BY <3>2, <4>4, <4>5, SumOfAmounts
        <5>2. \A l \in DebitsOf(w) : Amounts[l] \in Int
          BY <3>2 DEF Amounts, Debits
        <5> QED
          BY <3>2, <4>3, <5>1, <5>2, SumType
      <4>7. /\ wallet'[w].balance = wallet[w].balance - d.amount
            /\ wallet'[w].version = wallet[w].version + 1
        BY <2>2, <3>5 DEF IInv, TypeOK
      <4>8. wallet'[w].balance + after = Opening[w]
        BY <2>1, <3>1, <3>3, <4>5, <4>6, <4>7
      <4> QED
        BY <3>1, <4>2, <4>5, <4>7, <4>8
    <3> QED
      BY <3>4, <3>5
  <2> QED
    BY <2>4, <2>5 DEF BooksInv, WalletMatchesLedger
<1> QED
  BY <1>2, <1>3

\* payments.py debits a wallet relative to the row it locked: whatever runs
\* beside it, balance and version are the opening less every ledger row.
THEOREM WalletsMatchTheirLedger == Spec => []WalletMatchesLedger
<1>1. Init => BooksInv
  <2> SUFFICES ASSUME Init PROVE BooksInv
    OBVIOUS
  <2>1. \A w \in Wallets : /\ DebitsOf(w) = {} /\ wallet[w].version = 0
                           /\ wallet[w].balance = Opening[w] /\ Opening[w] \in Nat
    BY AmountsAssumption DEF Init, DebitsOf
  <2>2. IsFiniteSet({}) /\ Cardinality({}) = 0 /\ {} \in SUBSET Debits
    BY FS_EmptySet
  <2>3. AmountOf({}) = 0
    BY <2>2, SumOfAmounts, SumOfNone
  <2>4. IsFiniteSet(ledger)
    BY <2>2 DEF Init
  <2>5. ASSUME NEW w \in Wallets
        PROVE  /\ wallet[w].version = Cardinality(DebitsOf(w))
               /\ wallet[w].balance + AmountOf(DebitsOf(w)) = Opening[w]
    <3>1. DebitsOf(w) = {}
      BY <2>1
    <3>2. Cardinality(DebitsOf(w)) = 0 /\ AmountOf(DebitsOf(w)) = 0
      BY <2>2, <2>3, <3>1
    <3> QED
      BY <2>1, <3>2
  <2> QED
    BY <2>4, <2>5 DEF BooksInv, WalletMatchesLedger
<1>2. IInv /\ DraftInv /\ FinancialStateIsWhole /\ BooksInv /\ [Next]_vars => BooksInv'
  <2> SUFFICES ASSUME IInv, DraftInv, FinancialStateIsWhole, BooksInv, [Next]_vars
               PROVE  BooksInv'
    OBVIOUS
  <2>1. CASE UNCHANGED dbVars
    BY <2>1 DEF dbVars, BooksInv, WalletMatchesLedger, DebitsOf
  <2>2. CASE \E s \in Slots : Commit(s)
    BY <2>2, CommitKeepsBooks
  <2> QED
    BY <2>1, <2>2, NextLeavesMoney DEF vars
<1>3. BooksInv => WalletMatchesLedger
  BY DEF BooksInv
<1> QED
  BY <1>1, <1>2, <1>3, Invariance, DraftInvariance, PaymentsAreWhole, PTL DEF Spec

-----------------------------------------------------------------------------
(***************************************************************************)
(* The refinement.  The contract's operators on guards are those of         *)
(* Payments, and its state is a view of the tables and of the handlers.     *)
(***************************************************************************)
Client == [s \in Slots |-> IF pc[s] \in InTransaction THEN "waiting" ELSE pc[s]]
Used == [q \in QrCodes |-> qr[q].usage]
Funds == [w \in Wallets |-> wallet[w].balance]

\* Both modules extend PaymentGuards, so its operators agree.
LEMMA ContractGuards ==
  ASSUME NEW f, NEW b
  PROVE  Contract!PyRefusal(f, b) = PyRefusal(f, b) /\ Contract!MethodRefusal(b) = MethodRefusal(b)
<1>1. Contract!PyRefusal(f, b) = PyRefusal(f, b)
  BY DEF PyRefusal, Contract!PyRefusal, FirstRefusal, Contract!FirstRefusal,
    DeviceChecks, Contract!DeviceChecks, PyTargetChecks, Contract!PyTargetChecks,
    ProgramChecks, Contract!ProgramChecks, PyPriceCheck, Contract!PyPriceCheck, Check, Contract!Check,
    OfflineAfter, Contract!OfflineAfter, Admitted, Contract!Admitted
<1>2. Contract!MethodRefusal(b) = MethodRefusal(b)
  BY DEF MethodRefusal, Contract!MethodRefusal, FirstRefusal, Contract!FirstRefusal,
    Check, Contract!Check, Scenarios, Contract!Scenarios, UnreadableUid, Contract!UnreadableUid,
    Admitted, Contract!Admitted
<1> QED BY <1>1, <1>2

\* The same for how a row is answered and what a scenario makes of a card.
LEMMA ContractAnswers ==
  ASSUME NEW p, NEW scenario
  PROVE  Contract!AnswerOf(p) = AnswerOf(p) /\ Contract!CardOutcome(scenario) = CardOutcome(scenario)
BY DEF AnswerOf, Contract!AnswerOf, CardOutcome, Contract!CardOutcome

\* What a client sees when its handler moves.
LEMMA ClientMoves ==
  ASSUME IInv, NEW s \in Slots, NEW place, Goto(s, place)
  PROVE  /\ Client' = [Client EXCEPT ![s] = IF place \in InTransaction THEN "waiting" ELSE place]
         /\ Client[s] = (IF pc[s] \in InTransaction THEN "waiting" ELSE pc[s])
BY DEF IInv, TypeOK, Goto, Client

\* Within the transaction the client waits, and sees nothing of it.
LEMMA QuietStepStutters ==
  ASSUME IInv, NEW s \in Slots, NEW place \in InTransaction, pc[s] \in InTransaction,
         Goto(s, place), UNCHANGED << payments, qr, wallet, key, body, reply >>
  PROVE  UNCHANGED Contract!vars
<1>1. Client' = Client
  BY DEF IInv, TypeOK, Goto, Client
<1>2. Used' = Used /\ Funds' = Funds
  BY DEF Used, Funds
<1> QED BY <1>1, <1>2 DEF Contract!vars, Client, Used, Funds

\* An answer without a payment row of its own is the contract's Tell.
LEMMA RespondTells ==
  ASSUME IInv, NEW s \in Slots, NEW answer, NEW payment, Respond(s, answer, payment)
  PROVE  Contract!Tell(s, answer, payment) /\ UNCHANGED << payments, Used, Funds >>
<1>1. Client' = [Client EXCEPT ![s] = "replying"]
  BY ClientMoves DEF Respond, InTransaction
<1>2. UNCHANGED << payments, Used, Funds, key, body >>
  BY DEF Respond, dbVars, Used, Funds
<1>3. reply' = [reply EXCEPT ![s] = [answer |-> answer, payment |-> payment]]
  BY DEF Respond
<1> QED BY <1>1, <1>2, <1>3 DEF Contract!Tell, Contract!Become, Client

\* A request inside its transaction waits; once its key is known to be new,
\* it is new for the contract.
LEMMA Waiting ==
  ASSUME NEW s \in Slots, pc[s] \in InTransaction
  PROVE  Client[s] = "waiting"
BY DEF Client

\* Past its lookup, a request has a new key for the contract too.
LEMMA KeyIsNewThere ==
  ASSUME IInv, NEW s \in Slots, pc[s] \in KnowsKeyIsNew
  PROVE  Contract!NewKey(s)
<1>1. Client[s] = "waiting"
  BY Waiting DEF KnowsKeyIsNew, InTransaction
<1>2. \A p \in payments : p.key # key[s]
  BY DEF IInv, KeyIsNew
<1> QED BY <1>1, <1>2 DEF Contract!NewKey, Client

\* A refusal is one of those the contract lists.
LEMMA RefusalTurnsAway ==
  ASSUME IInv, DraftInv, NEW s \in Slots,
         Refuse(s) \/ RefuseMethod(s) \/ LedgerCheckFails(s)
  PROVE  Contract!TurnAway(s)
<1>1. pc[s] \in KnowsKeyIsNew /\ pc[s] \in InTransaction
  BY DEF Refuse, RefuseMethod, LedgerCheckFails, KnowsKeyIsNew, InTransaction
<1>2. Contract!NewKey(s)
  BY <1>1, KeyIsNewThere
<1>3. \E code \in Contract!Refusals(body[s]) \ {Contract!Admitted} : Respond(s, code, None)
  <2>1. CASE Refuse(s)
    <3>1. PICK f \in Facts : PyRefusal(f, body[s]) # Admitted /\ Respond(s, PyRefusal(f, body[s]), None)
      BY <2>1 DEF Refuse
    <3>2. Contract!PyRefusal(f, body[s]) = PyRefusal(f, body[s])
      BY ContractGuards
    <3>3. PyRefusal(f, body[s]) \in Contract!Refusals(body[s])
      BY <3>2 DEF Contract!Refusals
    <3> QED BY <3>1, <3>3 DEF Admitted, Contract!Admitted
  <2>2. CASE RefuseMethod(s)
    <3>1. Contract!MethodRefusal(body[s]) = MethodRefusal(body[s])
      BY ContractGuards
    <3>2. MethodRefusal(body[s]) \in Contract!Refusals(body[s])
      BY <3>1 DEF Contract!Refusals
    <3> QED BY <2>2, <3>2 DEF RefuseMethod, Admitted, Contract!Admitted
  <2>3. CASE LedgerCheckFails(s)
    <3>1. pc[s] = "insert" /\ ~LedgerCheckHolds(draft[s]) /\ Respond(s, "INTERNAL_ERROR", None)
      BY <2>3 DEF LedgerCheckFails
    <3>2. /\ seen[s] \in Facts /\ seen[s].price \in Nat /\ Decided(s)
          /\ draft[s].wallet # None /\ draft[s].amount \in Nat /\ ~(draft[s].amount > 0)
      BY <3>1, FactsAssumption
      DEF IInv, TypeOK, Drafts, DraftInv, WasAdmitted, IsDecided, HasDraft, LedgerCheckHolds
    <3>3. GoodRfDraft(s)
      <4>1. ASSUME CardDraft(s) \/ BadRfDraft(s)
            PROVE  FALSE
        BY <3>2, <4>1 DEF CardDraft, BadRfDraft, PlainDraft, NoDraft
      <4>2. ASSUME CodeDraft(s)
            PROVE  FALSE
        BY <3>2, <4>2, QrDraftType DEF CodeDraft, IInv
      <4> QED BY <3>2, <4>1, <4>2 DEF Decided
    <3>4. body[s].method = "RF_CARD" /\ draft[s].amount = seen[s].price
      BY <3>3 DEF GoodRfDraft, RfDraft, PlainDraft, NoDraft
    <3>5. "INTERNAL_ERROR" \in Contract!Refusals(body[s])
      BY <3>2, <3>4 DEF Contract!Refusals
    <3> QED BY <3>1, <3>5 DEF Contract!Admitted
  <2> QED BY <2>1, <2>2, <2>3
<1>4. PICK code \in Contract!Refusals(body[s]) \ {Contract!Admitted} : Respond(s, code, None)
  BY <1>3
<1>5. Contract!Tell(s, code, None) /\ UNCHANGED << payments, Used, Funds >>
  BY <1>4, RespondTells
<1> QED BY <1>2, <1>4, <1>5 DEF Contract!TurnAway, Used, Funds

\* A key with a payment is told of it, or that its body differs.
LEMMA LookupRepeats ==
  ASSUME IInv, NEW s \in Slots, Replay(s) \/ Conflict(s)
  PROVE  Contract!Repeat(s)
<1>1. Client[s] = "waiting"
  BY Waiting DEF Replay, Conflict, InTransaction
<1>2. CASE Replay(s)
  <2>1. PICK p \in payments : p.key = key[s] /\ p.body = body[s] /\ Respond(s, AnswerOf(p), p.id)
    BY <1>2 DEF Replay, PaymentsOf
  <2>2. Contract!AnswerOf(p) = AnswerOf(p)
    BY ContractAnswers
  <2>3. Contract!Tell(s, AnswerOf(p), p.id) /\ UNCHANGED << payments, Used, Funds >>
    BY <2>1, RespondTells
  <2>4. UNCHANGED payments /\ UNCHANGED Used /\ UNCHANGED Funds
    BY <2>3
  <2> HIDE DEF Client
  <2> QED BY <1>1, <2>1, <2>2, <2>3, <2>4 DEF Contract!Repeat, Client, Used, Funds
<1>3. CASE Conflict(s)
  <2>1. PICK p \in payments : p.key = key[s] /\ p.body # body[s]
    BY <1>3 DEF Conflict, PaymentsOf
  <2>2. Respond(s, "IDEMPOTENCY_CONFLICT", None)
    BY <1>3 DEF Conflict
  <2>3. Contract!Tell(s, "IDEMPOTENCY_CONFLICT", None) /\ UNCHANGED << payments, Used, Funds >>
    BY <2>2, RespondTells
  <2> QED BY <1>1, <2>1, <2>3 DEF Contract!Repeat, Client, Used, Funds
<1> QED BY <1>2, <1>3

\* What a commit does, in the contract's words.
LEMMA CommitRecords ==
  ASSUME IInv, NEW s \in Slots, Commit(s)
  PROVE  /\ payments' = payments \cup {NewPayment(s)}
         /\ reply' = [reply EXCEPT ![s] = [answer |-> Contract!AnswerOf(NewPayment(s)),
                                          payment |-> NewPayment(s).id]]
         /\ Client' = [Client EXCEPT ![s] = "replying"]
         /\ UNCHANGED << key, body >>
<1>1. Client' = [Client EXCEPT ![s] = "replying"]
  BY ClientMoves DEF Commit, InTransaction
<1>2. reply' = [reply EXCEPT ![s] = [answer |-> AnswerOf(NewPayment(s)), payment |-> s]]
  BY DEF Commit
<1>3. Contract!AnswerOf(NewPayment(s)) = AnswerOf(NewPayment(s)) /\ NewPayment(s).id = s
  BY ContractAnswers DEF NewPayment
<1> QED BY <1>1, <1>2, <1>3 DEF Commit

\* A draft that spends nothing leaves codes and wallets alone.
LEMMA FreeCommitSpendsNothing ==
  ASSUME NEW s \in Slots, Commit(s), draft[s].qr = None, draft[s].wallet = None
  PROVE  Used' = Used /\ Funds' = Funds
BY DEF Commit, RedeemQr, DebitWallet, Used, Funds

\* A commit of a draft that spends nothing is a free payment.
LEMMA CommitPaysFree ==
  ASSUME IInv, NEW s \in Slots, Commit(s), NEW f, NEW b, b = body[s],
         NEW o \in Contract!FreeOutcomes(f, b),
         draft[s].status = o[1], draft[s].error = o[2], draft[s].amount = f.price,
         draft[s].qr = None, draft[s].wallet = None
  PROVE  Contract!PayFree(s, f)
<1>1. Contract!Row(s, o[1], o[2], f.price, None, None) = NewPayment(s)
  BY DEF Contract!Row, NewPayment
<1>2. o \in Contract!FreeOutcomes(f, body[s])
  OBVIOUS
<1>3. Used' = Used /\ Funds' = Funds
  BY FreeCommitSpendsNothing
<1> QED BY <1>1, <1>2, <1>3, CommitRecords
  DEF Contract!PayFree, Contract!Record, Contract!Tell, Contract!Become, Client, Used, Funds

\* Each committed draft is a payment the contract allows at this moment,
\* because the rows it was computed from are still held.
LEMMA CommitPays ==
  ASSUME IInv, QrInv, DraftInv, NEW s \in Slots, Commit(s)
  PROVE  Contract!Pay(s)
<1>0. PICK f, b : f = seen[s] /\ b = body[s]
  OBVIOUS
<1> USE <1>0
<1>1. /\ pc[s] = "commit" /\ b \in Bodies /\ f \in Facts
      /\ PyRefusal(f, b) = Admitted /\ Decided(s) /\ LedgerCheckHolds(draft[s])
  BY DEF IInv, Commit, RequestIsKnown, InTransaction, DraftInv, WasAdmitted, IsDecided,
         PassedLedger, HasDraft
<1>2. Contract!NewKey(s)
  BY <1>1, KeyIsNewThere DEF KnowsKeyIsNew
<1>3. Contract!PyRefusal(f, b) = Contract!Admitted
  BY <1>1, ContractGuards DEF Admitted, Contract!Admitted
<1>4. Contract!MethodRefusal(b) = Contract!Admitted
  <2>1. ~(b.method = "CARD" /\ b.scenario \notin Scenarios)
    BY <1>1 DEF Decided, CardDraft, CodeDraft, BadRfDraft, GoodRfDraft
  <2>2. ~(b.method = "RF_CARD" /\ b.rf \in {None, UnreadableUid})
    BY <1>1, LocksAssumption DEF Decided, CardDraft, CodeDraft, BadRfDraft, GoodRfDraft
  <2>3. MethodRefusal(b) = Admitted
    <3> DEFINE checks ==
          << Check(b.method = "CARD" /\ b.scenario \notin Scenarios, "INVALID_TEST_SCENARIO"),
             Check(b.method = "RF_CARD" /\ b.rf \in {None, UnreadableUid}, "INVALID_RF_UID") >>
    <3>1. DOMAIN checks = 1 .. 2
      OBVIOUS
    <3>2. ~checks[1].refuses /\ ~checks[2].refuses
      BY <2>1, <2>2 DEF Check
    <3>3. MethodRefusal(b) = FirstRefusal(checks)
      BY DEF MethodRefusal
    <3> HIDE DEF checks
    <3> QED BY <3>1, <3>2, <3>3 DEF FirstRefusal
  <2> QED BY <2>3, ContractGuards DEF Admitted, Contract!Admitted
<1>5. Contract!PayFree(s, f) \/ Contract!PayWithQr(s, f) \/ Contract!PayWithCardBalance(s, f)
  <2>1. CASE CardDraft(s)
    <3> DEFINE o == CardOutcome(b.scenario)
    <3>1. /\ b.method = "CARD" /\ draft[s].status = o[1] /\ draft[s].error = o[2]
          /\ draft[s].amount = f.price /\ draft[s].qr = None /\ draft[s].wallet = None
      BY <2>1 DEF CardDraft, PlainDraft, NoDraft
    <3>2. o \in Contract!FreeOutcomes(f, b)
      BY <3>1, ContractAnswers DEF Contract!FreeOutcomes
    <3> HIDE DEF o
    <3> QED BY <3>1, <3>2, CommitPaysFree
  <2>2. CASE CodeDraft(s) /\ Redeemable(s, b.qr)
    <3> DEFINE q == b.qr
    <3>1. /\ q \in QrCodes /\ q # None /\ b.method = "QR" /\ f.qrInDate
          /\ Used[q] < UsageLimit[q] /\ qr[q].usage \in Nat
      BY <2>2, LocksAssumption DEF CodeDraft, Redeemable, Used, IInv, TypeOK
    <3>2. /\ draft[s].status = "SUCCESS" /\ draft[s].error = None /\ draft[s].amount = QrAmount[q]
          /\ draft[s].qr = q /\ draft[s].usage = qr[q].usage + 1 /\ draft[s].wallet = None
      BY <2>2 DEF CodeDraft, QrDraft, NoDraft
    <3> HIDE DEF q
    <3>3. Contract!Row(s, "SUCCESS", None, QrAmount[q], q, None) = NewPayment(s)
      BY <3>2 DEF Contract!Row, NewPayment
    <3>4. Used' = [Used EXCEPT ![q] = Used[q] + 1]
      <4>1. qr' = [qr EXCEPT ![q] = [usage |-> draft[s].usage,
                     status |-> IF draft[s].usage >= UsageLimit[q] THEN "USED" ELSE "ACTIVE"]]
        BY <3>1, <3>2 DEF Commit, RedeemQr
      <4>2. qr'[q].usage = qr[q].usage + 1 /\ \A r \in QrCodes \ {q} : qr'[r] = qr[r]
        BY <3>1, <3>2, <4>1 DEF IInv, TypeOK
      <4> QED BY <3>1, <4>2 DEF Used
    <3>5. Funds' = Funds
      BY <3>2 DEF Commit, DebitWallet, Funds
    <3>6. Contract!PayWithQr(s, f)
      BY <3>1, <3>3, <3>4, <3>5, CommitRecords
      DEF Contract!PayWithQr, Contract!Record, Contract!Tell, Contract!Become,
          Client, Used, Funds, q
    <3> QED BY <3>6
  <2>3. CASE CodeDraft(s) /\ ~Redeemable(s, b.qr)
    <3>1. /\ b.method = "QR" /\ b.qr \in QrCodes
          /\ draft[s].status = "FAILED" /\ draft[s].error = "QR_INVALID"
          /\ draft[s].amount = f.price /\ draft[s].qr = None /\ draft[s].wallet = None
      BY <2>3 DEF CodeDraft, QrDraft, PlainDraft, NoDraft
    <3>2. ~(f.qrInDate /\ Used[b.qr] < UsageLimit[b.qr])
      <4>1. /\ qr[b.qr].status \in {"ACTIVE", "USED"}
            /\ qr[b.qr].status = "USED" => qr[b.qr].usage = UsageLimit[b.qr]
            /\ UsageLimit[b.qr] \in Nat
        BY <3>1, AmountsAssumption DEF IInv, TypeOK, QrInv, QrUsageIsRedemptions
      <4> QED BY <2>3, <3>1, <4>1 DEF Redeemable, Used
    <3>3. << "FAILED", "QR_INVALID" >> \in Contract!FreeOutcomes(f, b)
      BY <3>1, <3>2 DEF Contract!FreeOutcomes, Used
    <3> QED BY <3>1, <3>3, CommitPaysFree
  <2>4. CASE BadRfDraft(s)
    <3>1. /\ b.method = "RF_CARD" /\ ~f.cardValid
          /\ draft[s].status = "FAILED" /\ draft[s].error = "RF_CARD_INVALID"
          /\ draft[s].amount = f.price /\ draft[s].qr = None /\ draft[s].wallet = None
      BY <2>4 DEF BadRfDraft, PlainDraft, NoDraft
    <3>2. << "FAILED", "RF_CARD_INVALID" >> \in Contract!FreeOutcomes(f, b)
      BY <3>1 DEF Contract!FreeOutcomes
    <3> QED BY <3>1, <3>2, CommitPaysFree
  <2>5. CASE GoodRfDraft(s) /\ wallet[b.rf].balance < f.price
    <3>1. /\ b.method = "RF_CARD" /\ b.rf \in Wallets /\ f.cardValid /\ Funds[b.rf] < f.price
          /\ draft[s].status = "FAILED" /\ draft[s].error = "RF_INSUFFICIENT_BALANCE"
          /\ draft[s].amount = f.price /\ draft[s].qr = None /\ draft[s].wallet = None
      BY <2>5 DEF GoodRfDraft, RfDraft, PlainDraft, NoDraft, Funds
    <3>2. << "FAILED", "RF_INSUFFICIENT_BALANCE" >> \in Contract!FreeOutcomes(f, b)
      BY <3>1 DEF Contract!FreeOutcomes, Funds
    <3> QED BY <3>1, <3>2, CommitPaysFree
  <2>6. CASE GoodRfDraft(s) /\ ~(wallet[b.rf].balance < f.price)
    <3> DEFINE w == b.rf
    <3>1. /\ w \in Wallets /\ w # None /\ b.method = "RF_CARD" /\ f.cardValid
          /\ wallet[w].balance \in Int /\ f.price \in Nat
      BY <1>1, <2>6, LocksAssumption, FactsAssumption DEF GoodRfDraft, IInv, TypeOK
    <3>2. /\ draft[s].status = "SUCCESS" /\ draft[s].error = None /\ draft[s].amount = f.price
          /\ draft[s].qr = None /\ draft[s].wallet = w
      BY <2>6 DEF GoodRfDraft, RfDraft, PlainDraft, NoDraft
    <3>3. f.price > 0 /\ Funds[w] >= f.price
      BY <1>1, <2>6, <3>1, <3>2 DEF LedgerCheckHolds, Funds
    <3> HIDE DEF w
    <3>4. Contract!Row(s, "SUCCESS", None, f.price, None, w) = NewPayment(s)
      BY <3>2 DEF Contract!Row, NewPayment
    <3>5. Funds' = [Funds EXCEPT ![w] = Funds[w] - f.price]
      <4>1. wallet' = [wallet EXCEPT ![w] = [balance |-> wallet[w].balance - draft[s].amount,
                                             version |-> wallet[w].version + 1]]
        BY <3>1, <3>2 DEF Commit, DebitWallet
      <4>2. /\ wallet'[w].balance = wallet[w].balance - f.price
            /\ \A v \in Wallets \ {w} : wallet'[v] = wallet[v]
        BY <3>1, <3>2, <4>1 DEF IInv, TypeOK
      <4> QED BY <3>1, <4>2 DEF Funds
    <3>6. Used' = Used
      BY <3>2 DEF Commit, RedeemQr, Used
    <3>7. Contract!PayWithCardBalance(s, f)
      BY <3>1, <3>3, <3>4, <3>5, <3>6, CommitRecords
      DEF Contract!PayWithCardBalance, Contract!Record, Contract!Tell, Contract!Become,
          Client, Used, Funds, w
    <3> QED BY <3>7
  <2> QED BY <1>1, <2>1, <2>2, <2>3, <2>4, <2>5, <2>6 DEF Decided
<1> QED BY <1>1, <1>2, <1>3, <1>4, <1>5 DEF Contract!Pay

-----------------------------------------------------------------------------
(* Every behaviour of the transactions is one of the contract. *)

\* Nothing is paid and nobody has called: the contract starts like that too.
LEMMA InitContract == Init => Contract!Init
<1> SUFFICES ASSUME Init PROVE Contract!Init
  OBVIOUS
<1>1. Client = [s \in Slots |-> "idle"]
  BY DEF Init, Client, InTransaction
<1>2. Used = [q \in QrCodes |-> 0]
  BY DEF Init, Used
<1>3. Funds = Opening
  BY AmountsAssumption DEF Init, Funds
<1> QED BY <1>1, <1>2, <1>3 DEF Init, Contract!Init, Client, Used, Funds, NoReply

\* Arrivals, answers and losses are the contract's own.
LEMMA ClientStepsAreTheContracts ==
  ASSUME IInv, NEW s \in Slots
  PROVE  /\ \A k \in IdemKeys, b \in Bodies : Receive(s, k, b) => Contract!Send(s, k, b)
         /\ Unauthorized(s) => Contract!SendUnauthorized(s)
         /\ Abort(s) \/ LoseReply(s) => Contract!Lose(s)
         /\ Deliver(s) => Contract!Hear(s)
<1>1. \A place : Goto(s, place) =>
        Client' = [Client EXCEPT ![s] = IF place \in InTransaction THEN "waiting" ELSE place]
  BY ClientMoves
<1>2. Client[s] = (IF pc[s] \in InTransaction THEN "waiting" ELSE pc[s])
  BY DEF Client
<1>3. UNCHANGED dbVars => UNCHANGED << payments, Used, Funds >>
  BY DEF dbVars, Used, Funds
<1>4. ASSUME NEW k \in IdemKeys, NEW b \in Bodies, Receive(s, k, b)
      PROVE  Contract!Send(s, k, b)
  <2>1. Client[s] = "idle" /\ Client' = [Client EXCEPT ![s] = "waiting"]
    BY <1>1, <1>2, <1>4 DEF Receive, InTransaction
  <2> QED BY <1>3, <1>4, <2>1 DEF Receive, Contract!Send, Contract!Become, Client, Used, Funds
<1>5. ASSUME Unauthorized(s)
      PROVE  Contract!SendUnauthorized(s)
  <2>1. Client[s] = "idle"
    BY <1>2, <1>5 DEF Unauthorized, InTransaction
  <2>2. Contract!Tell(s, "INVALID_DEVICE_CREDENTIAL", None) /\ UNCHANGED << payments, Used, Funds >>
    BY <1>5, RespondTells DEF Unauthorized
  <2> QED BY <2>1, <2>2 DEF Contract!SendUnauthorized, Client, Used, Funds
<1>6. ASSUME Abort(s) \/ LoseReply(s)
      PROVE  Contract!Lose(s)
  <2>1. Client[s] \in {"waiting", "replying"} /\ Client' = [Client EXCEPT ![s] = "lost"]
    BY <1>1, <1>2, <1>6 DEF Abort, LoseReply, InTransaction
  <2> QED BY <1>3, <1>6, <2>1
    DEF Abort, LoseReply, Contract!Lose, Contract!Become, Client, Used, Funds
<1>7. ASSUME Deliver(s)
      PROVE  Contract!Hear(s)
  <2>1. Client[s] = "replying" /\ Client' = [Client EXCEPT ![s] = "answered"]
    BY <1>1, <1>2, <1>7 DEF Deliver, InTransaction
  <2> QED BY <1>3, <1>7, <2>1 DEF Deliver, Contract!Hear, Contract!Become, Client, Used, Funds
<1> QED BY <1>4, <1>5, <1>6, <1>7

\* Up to the commit a transaction shows nothing of itself.
LEMMA InnerStepsStutter ==
  ASSUME IInv, NEW s \in Slots,
         \/ LockKey(s) \/ Fresh(s) \/ Admit(s) \/ InsertRows(s)
         \/ PayByCard(s) \/ PayByQr(s) \/ PayByInvalidRfCard(s) \/ PayByRfCard(s)
  PROVE  UNCHANGED Contract!vars
<1>1. pc[s] \in InTransaction
  BY DEF InTransaction, LockKey, Fresh, Admit, InsertRows, PayByCard, PayByQr,
         PayByInvalidRfCard, PayByRfCard
<1>2. \E place \in InTransaction : Goto(s, place)
  BY DEF InTransaction, LockKey, Fresh, Admit, InsertRows, PayByCard, PayByQr,
         PayByInvalidRfCard, PayByRfCard, Prepare
<1>3. UNCHANGED << payments, qr, wallet, key, body, reply >>
  BY DEF LockKey, Fresh, Admit, InsertRows, PayByCard, PayByQr,
         PayByInvalidRfCard, PayByRfCard, Prepare, dbVars
<1> QED BY <1>1, <1>2, <1>3, QuietStepStutters

\* Every step is one of the contract or invisible to it.
LEMMA NextImplements ==
  IInv /\ QrInv /\ DraftInv /\ [Next]_vars => [Contract!Next]_Contract!vars
<1> SUFFICES ASSUME IInv, QrInv, DraftInv, [Next]_vars
             PROVE  Contract!Next \/ UNCHANGED Contract!vars
  BY DEF Contract!vars
<1>1. CASE UNCHANGED vars
  BY <1>1 DEF vars, dbVars, Contract!vars
<1>2. ASSUME NEW s \in Slots, NEW k \in IdemKeys, NEW b \in Bodies, Receive(s, k, b)
      PROVE  Contract!Next
  <2>1. Contract!Send(s, k, b)
    BY <1>2, ClientStepsAreTheContracts
  <2> QED BY <2>1 DEF Contract!Next
<1>3. ASSUME NEW s \in Slots, Unauthorized(s) \/ Abort(s) \/ LoseReply(s) \/ Deliver(s)
      PROVE  Contract!Next
  <2>1. Contract!SendUnauthorized(s) \/ Contract!Lose(s) \/ Contract!Hear(s)
    BY <1>3, ClientStepsAreTheContracts
  <2> QED BY <2>1 DEF Contract!Next
<1>4. ASSUME NEW s \in Slots, Serve(s)
      PROVE  Contract!Next \/ UNCHANGED Contract!vars
  <2>1. CASE Replay(s) \/ Conflict(s)
    <3>1. Contract!Repeat(s)
      BY <2>1, LookupRepeats
    <3> QED BY <3>1 DEF Contract!Next
  <2>2. CASE Refuse(s) \/ RefuseMethod(s) \/ LedgerCheckFails(s)
    <3>1. Contract!TurnAway(s)
      BY <2>2, RefusalTurnsAway
    <3> QED BY <3>1 DEF Contract!Next
  <2>3. CASE Commit(s)
    <3>1. Contract!Pay(s)
      BY <2>3, CommitPays
    <3> QED BY <3>1 DEF Contract!Next
  <2> QED BY <1>3, <1>4, <2>1, <2>2, <2>3, InnerStepsStutter DEF Serve
<1>5. CASE Step
  BY <1>2, <1>3, <1>4, <1>5 DEF Step
<1>6. CASE Over
  BY <1>1, <1>6 DEF Over
<1> QED BY <1>1, <1>5, <1>6 DEF Next

\* The transactions implement the contract: whatever interleaves, crashes or
\* is retried, clients see requests that are decided one at a time.
THEOREM TransactionsImplementTheContract == Spec => ImplementsContract
BY InitContract, NextImplements, Invariance, QrInvariance, DraftInvariance, PTL
DEF Spec, ImplementsContract, Contract!Spec
=============================================================================
