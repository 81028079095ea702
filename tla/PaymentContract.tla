--------------------------- MODULE PaymentContract ---------------------------
(***************************************************************************)
(* What the payment endpoint promises its clients, whatever runs behind it: *)
(* each request is decided in one atomic step.  A key that has a payment    *)
(* gets that payment again, or a conflict when the body differs; a new key  *)
(* is refused with no effect, or gets one payment that takes exactly what   *)
(* it costs from the QR code or the wallet it names.  A request may instead *)
(* be lost, before its decision (no effect) or after it (the effect stays,  *)
(* the client may retry).                                                   *)
(***************************************************************************)
EXTENDS PaymentGuards

CONSTANTS Slots, IdemKeys, QrCodes, Wallets, Bodies, Facts, UsageLimit, QrAmount, Opening

VARIABLES
  payments,   \* the payments that exist
  used,       \* [QrCodes -> how often each was redeemed]
  funds,      \* [Wallets -> balance]
  client,     \* where each request is for the one who sent it
  key, body, reply

vars == << payments, used, funds, client, key, body, reply >>

Init ==
  /\ payments = {}
  /\ used = [q \in QrCodes |-> 0]
  /\ funds = Opening
  /\ client = [s \in Slots |-> "idle"]
  /\ key = [s \in Slots |-> None]
  /\ body = [s \in Slots |-> None]
  /\ reply = [s \in Slots |-> [answer |-> "NONE", payment |-> None]]

Become(s, place) == client' = [client EXCEPT ![s] = place]

Tell(s, answer, payment) ==
  /\ reply' = [reply EXCEPT ![s] = [answer |-> answer, payment |-> payment]]
  /\ Become(s, "replying")
  /\ UNCHANGED << key, body >>

Send(s, k, b) ==
  /\ client[s] = "idle"
  /\ key' = [key EXCEPT ![s] = k]
  /\ body' = [body EXCEPT ![s] = b]
  /\ Become(s, "waiting")
  /\ UNCHANGED << payments, used, funds, reply >>

SendUnauthorized(s) ==
  /\ client[s] = "idle"
  /\ Tell(s, "INVALID_DEVICE_CREDENTIAL", None)
  /\ UNCHANGED << payments, used, funds >>

\* The key has a payment already: it is told again, or the body conflicts.
Repeat(s) ==
  /\ client[s] = "waiting"
  /\ \E p \in payments :
       /\ p.key = key[s]
       /\ IF p.body = body[s] THEN Tell(s, AnswerOf(p), p.id)
                              ELSE Tell(s, "IDEMPOTENCY_CONFLICT", None)
  /\ UNCHANGED << payments, used, funds >>

NewKey(s) == client[s] = "waiting" /\ \A p \in payments : p.key # key[s]

\* Why a request may be turned away without any effect.
Refusals(b) ==
  {PyRefusal(f, b) : f \in Facts} \cup {MethodRefusal(b)}
    \cup {IF b.method = "RF_CARD" /\ \E f \in Facts : f.price = 0
          THEN "INTERNAL_ERROR" ELSE Admitted}

TurnAway(s) ==
  /\ NewKey(s)
  /\ \E code \in Refusals(body[s]) \ {Admitted} : Tell(s, code, None)
  /\ UNCHANGED << payments, used, funds >>

Row(s, status, error, amount, q, w) ==
  [id |-> s, key |-> key[s], body |-> body[s], status |-> status,
   error |-> error, amount |-> amount, qr |-> q, wallet |-> w]

\* A payment that takes nothing from anyone.
FreeOutcomes(f, b) ==
  CASE b.method = "CARD"    -> {CardOutcome(b.scenario)}
    [] b.method = "QR"      -> IF f.qrInDate /\ used[b.qr] < UsageLimit[b.qr] THEN {}
                               ELSE {<< "FAILED", "QR_INVALID" >>}
    [] b.method = "RF_CARD" -> IF ~f.cardValid THEN {<< "FAILED", "RF_CARD_INVALID" >>}
                               ELSE IF funds[b.rf] < f.price
                               THEN {<< "FAILED", "RF_INSUFFICIENT_BALANCE" >>} ELSE {}

Record(s, p) ==
  /\ payments' = payments \cup {p}
  /\ Tell(s, AnswerOf(p), p.id)

PayFree(s, f) ==
  /\ \E o \in FreeOutcomes(f, body[s]) : Record(s, Row(s, o[1], o[2], f.price, None, None))
  /\ UNCHANGED << used, funds >>

PayWithQr(s, f) ==
  LET q == body[s].qr IN
  /\ body[s].method = "QR" /\ f.qrInDate /\ used[q] < UsageLimit[q]
  /\ used' = [used EXCEPT ![q] = @ + 1]
  /\ Record(s, Row(s, "SUCCESS", None, QrAmount[q], q, None))
  /\ UNCHANGED funds

PayWithCardBalance(s, f) ==
  LET w == body[s].rf IN
  /\ body[s].method = "RF_CARD" /\ f.cardValid /\ f.price > 0 /\ funds[w] >= f.price
  /\ funds' = [funds EXCEPT ![w] = @ - f.price]
  /\ Record(s, Row(s, "SUCCESS", None, f.price, None, w))
  /\ UNCHANGED used

Pay(s) ==
  /\ NewKey(s)
  /\ MethodRefusal(body[s]) = Admitted
  /\ \E f \in Facts :
       /\ PyRefusal(f, body[s]) = Admitted
       /\ PayFree(s, f) \/ PayWithQr(s, f) \/ PayWithCardBalance(s, f)

Lose(s) ==
  /\ client[s] \in {"waiting", "replying"}
  /\ Become(s, "lost")
  /\ UNCHANGED << payments, used, funds, key, body, reply >>

Hear(s) ==
  /\ client[s] = "replying"
  /\ Become(s, "answered")
  /\ UNCHANGED << payments, used, funds, key, body, reply >>

Next ==
  \E s \in Slots :
    \/ \E k \in IdemKeys, b \in Bodies : Send(s, k, b)
    \/ SendUnauthorized(s) \/ Repeat(s) \/ TurnAway(s) \/ Pay(s) \/ Lose(s) \/ Hear(s)

Spec == Init /\ [][Next]_vars
=============================================================================
