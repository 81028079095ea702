--------------------------- MODULE PaymentGuards ---------------------------
(***************************************************************************)
(* The admission decision of POST /api/v1/device/payments: the chain of     *)
(* guards both stacks run between the idempotency lookup and the payment    *)
(* method, and the code each guard refuses with.                            *)
(*                                                                          *)
(* A guard is one SQL statement with a READ COMMITTED snapshot of its own,  *)
(* over a table the payment transaction never writes.  What the chain has   *)
(* seen is therefore a record "f" with one field per statement; the fields  *)
(* may have been read at different moments.  A request body is a record     *)
(* "b".  Both are data only: the module has no state.                       *)
(***************************************************************************)
EXTENDS Integers, Sequences

CONSTANT None      \* SQL NULL, an absent row, an absent JSON member

\* Seconds after which a device without a heartbeat counts as offline.
OfflineAfter == 120

\* The body of the request (its hash is the body itself: SHA-256 and HMAC
\* are taken to be injective).  "rf" is the card the UID names, the wallet
\* standing for its card; UnreadableUid is a UID that fails normalize_uid.
UnreadableUid == "unreadable"

Methods == {"CARD", "QR", "RF_CARD"}

Scenarios == {"TEST_SUCCESS", "TEST_FAILED", "TEST_CANCELLED", "TEST_TIMEOUT",
              "TEST_INSUFFICIENT_FUNDS", "TEST_PROVIDER_ERROR"}

\* The outcome of the chain when no guard refuses.
Admitted == "ADMITTED"

Check(refuses, code) == [refuses |-> refuses, code |-> code]

\* The code of the first check that refuses, in the order of the chain.
FirstRefusal(checks) ==
  IF \E i \in DOMAIN checks : checks[i].refuses
  THEN checks[CHOOSE i \in DOMAIN checks :
                /\ checks[i].refuses
                /\ \A j \in 1 .. i - 1 : ~checks[j].refuses].code
  ELSE Admitted

\* Mutation: a device is offline at the limit already.
DeviceChecksAtLimit(f, b) ==
  << Check(~f.station, "DEVICE_NOT_OPERATIONAL"),
     Check(f.lastSeenAge = None \/ f.lastSeenAge >= OfflineAfter, "DEVICE_OFFLINE"),
     Check(~f.bay, "DEVICE_NOT_ASSIGNED"),
     Check(f.maintenance, "DEVICE_IN_MAINTENANCE"),
     Check(f.published = None \/ f.published # b.version, "CONFIGURATION_NOT_ACKNOWLEDGED"),
     Check(f.busy, "WASH_BAY_BUSY") >>

(***************************************************************************)
(* Guards on the device, its bay and its configuration, the same statements *)
(* in the same order in the two stacks.  The device row is ACTIVE here:     *)
(* authenticate_device refused every other one before.                      *)
(***************************************************************************)
DeviceChecks(f, b) ==
  << Check(~f.station, "DEVICE_NOT_OPERATIONAL"),
     Check(f.lastSeenAge = None \/ f.lastSeenAge > OfflineAfter, "DEVICE_OFFLINE"),
     Check(~f.bay, "DEVICE_NOT_ASSIGNED"),
     Check(f.maintenance, "DEVICE_IN_MAINTENANCE"),
     Check(\/ f.published = None
           \/ f.published # b.version
           \/ f.acknowledged # f.published, "CONFIGURATION_NOT_ACKNOWLEDGED"),
     Check(f.busy, "WASH_BAY_BUSY") >>

\* Guards on the program and how it may be paid for.
ProgramChecks(f) ==
  << Check(~f.programActive, "PROGRAM_NOT_AVAILABLE"),
     Check(~f.entitled, "ENTITLEMENT_REQUIRED"),
     Check(~f.methodEnabled, "PAYMENT_METHOD_NOT_AVAILABLE") >>

(***************************************************************************)
(* The Python chain.  An absent QR token is hashed as the empty string,     *)
(* which no stored code has; an absent displayed price counts as 0.         *)
(***************************************************************************)
PyTargetChecks(f, b) ==
  << Check(b.method = "QR" /\ (b.qr = None \/ ~f.qrHere), "QR_NOT_FOUND"),
     Check(b.method # "QR" /\ ~b.program, "STATION_PROGRAM_REQUIRED") >>

PyPriceCheck(f, b) ==
  Check(/\ b.method \in {"CARD", "RF_CARD"}
        /\ (IF b.price = None THEN 0 ELSE b.price) # f.price,
        "PROGRAM_PRICE_CHANGED")

PyRefusal(f, b) ==
  FirstRefusal(DeviceChecks(f, b) \o PyTargetChecks(f, b) \o ProgramChecks(f)
               \o << PyPriceCheck(f, b) >>)

(***************************************************************************)
(* The Go chain.  An absent token or price is a nil pointer and refused.    *)
(***************************************************************************)
GoTargetChecks(f, b) ==
  << Check(b.method = "QR" /\ b.qr = None, "QR_TOKEN_REQUIRED"),
     Check(b.method = "QR" /\ ~f.qrHere, "QR_NOT_FOUND"),
     Check(b.method # "QR" /\ ~b.program, "STATION_PROGRAM_REQUIRED") >>

\* Mutation: the price is compared for cards only.
GoPriceCheckCardOnly(f, b) ==
  Check(b.method = "CARD" /\ (b.price = None \/ b.price # f.price), "PROGRAM_PRICE_CHANGED")

GoPriceCheck(f, b) ==
  Check(/\ b.method \in {"CARD", "RF_CARD"}
        /\ (b.price = None \/ b.price # f.price),
        "PROGRAM_PRICE_CHANGED")

GoRefusal(f, b) ==
  FirstRefusal(DeviceChecks(f, b) \o GoTargetChecks(f, b) \o ProgramChecks(f)
               \o << GoPriceCheck(f, b) >>)

(***************************************************************************)
(* Refusals by the payment method itself, after the chain and before any    *)
(* row is locked: an unknown card scenario, an RF UID that does not parse.  *)
(* A method outside Methods never comes this far, since the schema's CHECK  *)
(* lets no program_payment_methods row name one.                            *)
(***************************************************************************)
MethodRefusal(b) ==
  FirstRefusal(
    << Check(b.method = "CARD" /\ b.scenario \notin Scenarios, "INVALID_TEST_SCENARIO"),
       Check(b.method = "RF_CARD" /\ b.rf \in {None, UnreadableUid}, "INVALID_RF_UID") >>)

\* What a card payment's test scenario makes of it: status and error code.
CardOutcome(scenario) ==
  CASE scenario = "TEST_SUCCESS"            -> << "SUCCESS", None >>
    [] scenario = "TEST_FAILED"             -> << "FAILED", "CARD_DECLINED" >>
    [] scenario = "TEST_CANCELLED"          -> << "CANCELLED", "CARD_CANCELLED" >>
    [] scenario = "TEST_TIMEOUT"            -> << "PENDING", None >>
    [] scenario = "TEST_INSUFFICIENT_FUNDS" -> << "FAILED", "INSUFFICIENT_FUNDS" >>
    [] scenario = "TEST_PROVIDER_ERROR"     -> << "FAILED", "PROVIDER_ERROR" >>

\* How the route answers for a payment row, new or replayed.
AnswerOf(p) ==
  CASE p.status = "SUCCESS" -> "OK"
    [] p.status = "PENDING" -> "ACCEPTED"
    [] p.status \in {"FAILED", "CANCELLED"} -> p.error
=============================================================================
