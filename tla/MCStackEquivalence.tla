------------------------- MODULE MCStackEquivalence -------------------------
(* Every combination of facts around its boundaries, and twelve bodies. *)
EXTENDS StackEquivalence

CONSTANT q1

MCFacts ==
  [station : BOOLEAN, lastSeenAge : {None, OfflineAfter, OfflineAfter + 1}, bay : BOOLEAN,
   maintenance : BOOLEAN, published : {None, 1, 2}, acknowledged : {None, 1},
   busy : BOOLEAN, qrHere : BOOLEAN, programActive : BOOLEAN, entitled : BOOLEAN,
   methodEnabled : BOOLEAN, price : {0, 2}]

Body(method, program, price, qrCode) ==
  [method |-> method, program |-> program, version |-> 1, price |-> price, qr |-> qrCode]

MCBodies ==
  {Body("CARD", TRUE, p, None) : p \in {None, 0, 2, 3}}
    \cup {Body("RF_CARD", x, p, None) : x \in BOOLEAN, p \in {None, 0, 2}}
    \cup {Body("QR", FALSE, None, q) : q \in {None, q1}}
=============================================================================
