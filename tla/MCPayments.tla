----------------------------- MODULE MCPayments -----------------------------
(* Payments on small instances: the constants of the runs. *)
EXTENDS Payments, TLC

CONSTANTS k1, k2, q1, w1

\* A program costs 2; the wallet holds 3, so it pays for one of two.
MCOpening == [w \in Wallets |-> 3]
MCQrAmount == [q \in QrCodes |-> 2]
MCUsageLimitOne == [q \in QrCodes |-> 1]
MCUsageLimitTwo == [q \in QrCodes |-> 2]

Body(method, qrCode, rf, scenario) ==
  [method |-> method, program |-> method # "QR", version |-> 1,
   price |-> IF method = "QR" THEN None ELSE 2,
   qr |-> qrCode, rf |-> rf, scenario |-> scenario]

CardBody(scenario) == Body("CARD", None, None, scenario)
QrBody == Body("QR", q1, None, None)
RfBody == Body("RF_CARD", None, w1, None)

MoneyBodies == {QrBody, RfBody}
\* Every card outcome and every way a method refuses; an RF body with no
\* displayed price, which the Python chain admits when the program is free.
OutcomeBodies ==
  MoneyBodies \cup {CardBody(x) : x \in Scenarios \cup {"TEST_UNKNOWN"}}
    \cup {Body("RF_CARD", None, UnreadableUid, None),
          Body("QR", None, None, None),
          [RfBody EXCEPT !.price = None]}

GoodFacts ==
  [station |-> TRUE, lastSeenAge |-> OfflineAfter, bay |-> TRUE, maintenance |-> FALSE,
   published |-> 1, acknowledged |-> 1, busy |-> FALSE, qrHere |-> TRUE,
   programActive |-> TRUE, entitled |-> TRUE, methodEnabled |-> TRUE, price |-> 2,
   qrInDate |-> TRUE, cardValid |-> TRUE]

OfflineFacts == [GoodFacts EXCEPT !.lastSeenAge = OfflineAfter + 1]
StaleFacts == [GoodFacts EXCEPT !.qrInDate = FALSE, !.cardValid = FALSE]
FreeFacts == [GoodFacts EXCEPT !.price = 0]

MCFacts == {GoodFacts, StaleFacts}
AllFacts == {GoodFacts, OfflineFacts, StaleFacts, FreeFacts}

SlotSymmetry == Permutations(Slots)
=============================================================================
