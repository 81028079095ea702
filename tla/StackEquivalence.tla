-------------------------- MODULE StackEquivalence --------------------------
(***************************************************************************)
(* The admission chains of the Python and of the Go stack side by side, on  *)
(* every body and every combination of facts of the instance.  A state is   *)
(* one input; nothing changes it.                                           *)
(***************************************************************************)
EXTENDS PaymentGuards

CONSTANTS Bodies, Facts    \* the inputs to compare on

ASSUME InputsAssumption ==
  /\ None \notin Int
  /\ Facts \subseteq
       [station : BOOLEAN, lastSeenAge : Nat \cup {None}, bay : BOOLEAN,
        maintenance : BOOLEAN, published : Nat \cup {None}, acknowledged : Nat \cup {None},
        busy : BOOLEAN, qrHere : BOOLEAN, programActive : BOOLEAN, entitled : BOOLEAN,
        methodEnabled : BOOLEAN, price : Nat]
  /\ \A b \in Bodies :
       /\ b.program \in BOOLEAN /\ b.version \in Nat
       /\ b.price \in Int \cup {None} /\ b.method \in Methods

VARIABLES facts, request

Init == facts \in Facts /\ request \in Bodies
Next == UNCHANGED << facts, request >>
Spec == Init /\ [][Next]_<< facts, request >>

Operational ==
  /\ facts.station /\ facts.bay /\ ~facts.maintenance /\ ~facts.busy
  /\ facts.lastSeenAge \in 0 .. OfflineAfter
  /\ {facts.published, facts.acknowledged} = {request.version}

Sellable ==
  /\ facts.programActive /\ facts.entitled /\ facts.methodEnabled
  /\ IF request.method = "QR" THEN request.qr # None /\ facts.qrHere
     ELSE request.program /\ request.price = facts.price

\* An absent displayed price counts as 0 in Python, where it would buy a free
\* program, and is refused in Go.
FreeForTheSilent ==
  request.method # "QR" /\ request.price = None /\ facts.price = 0

(***************************************************************************)
(* The chain admits a payment exactly when the device is in service and     *)
(* idle, the client's configuration is the published and acknowledged one,  *)
(* and the program may be sold this way at the price the client showed; a   *)
(* heartbeat exactly OfflineAfter old still counts.  The one exception is a *)
(* free program asked for without a price.                                  *)
(***************************************************************************)
AdmitsExactlyTheOperational ==
  ~FreeForTheSilent => (PyRefusal(facts, request) = Admitted <=> Operational /\ Sellable)

\* The two stacks give the same answer, both admit or both refuse with the same
\* code, but for two kinds of request: a QR body without a token, and no
\* displayed price for a free program.
StacksAgreeOnUsualRequests ==
  ~FreeForTheSilent /\ (request.method = "QR" => request.qr # None) =>
    PyRefusal(facts, request) = GoRefusal(facts, request)

\* docs/methodology.md calls the stacks correctness-equivalent: one request
\* against one database state gets one answer from both.
StacksAgree == PyRefusal(facts, request) = GoRefusal(facts, request)
=============================================================================
