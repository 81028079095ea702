----------------------- MODULE StackEquivalenceProofs -----------------------
(* The two chains of guards, for every request body and every state.        *)
EXTENDS StackEquivalence, TLAPS

\* The check that decides is the one before which none refuses.
LEMMA FirstDecides ==
  ASSUME NEW checks, NEW n \in Nat, DOMAIN checks = 1 .. n, NEW i \in 1 .. n,
         checks[i].refuses, \A j \in 1 .. i - 1 : ~checks[j].refuses
  PROVE  FirstRefusal(checks) = checks[i].code
<1> DEFINE Least(k) == checks[k].refuses /\ \A j \in 1 .. k - 1 : ~checks[j].refuses
<1>1. \A k \in 1 .. n : Least(k) => k = i
  <2> SUFFICES ASSUME NEW k \in 1 .. n, Least(k), k # i PROVE FALSE
    OBVIOUS
  <2>1. CASE k < i
    <3>1. k \in 1 .. i - 1
      BY <2>1
    <3> QED
      BY <3>1
  <2>2. CASE i < k
    <3>1. i \in 1 .. k - 1
      BY <2>2
    <3> QED
      BY <3>1
  <2> QED
    BY <2>1, <2>2
<1>2. (CHOOSE k \in DOMAIN checks : Least(k)) = i
  BY <1>1
<1> QED
  BY <1>2 DEF FirstRefusal

LEMMA NoneRefuses ==
  ASSUME NEW checks, \A j \in DOMAIN checks : ~checks[j].refuses
  PROVE  FirstRefusal(checks) = Admitted
BY DEF FirstRefusal

-----------------------------------------------------------------------------
\* The checks of the two chains, in order.
PyChain(f, b) == DeviceChecks(f, b) \o PyTargetChecks(f, b) \o ProgramChecks(f)
                 \o << PyPriceCheck(f, b) >>
GoChain(f, b) == DeviceChecks(f, b) \o GoTargetChecks(f, b) \o ProgramChecks(f)
                 \o << GoPriceCheck(f, b) >>

LEMMA PyChainIs ==
  ASSUME NEW f, NEW b
  PROVE  /\ DOMAIN PyChain(f, b) = 1 .. 12
         /\ \A i \in 1 .. 6 : PyChain(f, b)[i] = DeviceChecks(f, b)[i]
         /\ \A i \in 7 .. 8 : PyChain(f, b)[i] = PyTargetChecks(f, b)[i - 6]
         /\ \A i \in 9 .. 11 : PyChain(f, b)[i] = ProgramChecks(f)[i - 8]
         /\ PyChain(f, b)[12] = PyPriceCheck(f, b)
<1> USE DEF PyChain, DeviceChecks, PyTargetChecks, ProgramChecks
<1>1. DOMAIN PyChain(f, b) = 1 .. 12
  OBVIOUS
<1>2. \A i \in 1 .. 6 : PyChain(f, b)[i] = DeviceChecks(f, b)[i]
  OBVIOUS
<1>3. \A i \in 7 .. 8 : PyChain(f, b)[i] = PyTargetChecks(f, b)[i - 6]
  OBVIOUS
<1>4. \A i \in 9 .. 11 : PyChain(f, b)[i] = ProgramChecks(f)[i - 8]
  OBVIOUS
<1>5. PyChain(f, b)[12] = PyPriceCheck(f, b)
  OBVIOUS
<1> QED
  BY <1>1, <1>2, <1>3, <1>4, <1>5

LEMMA GoChainIs ==
  ASSUME NEW f, NEW b
  PROVE  /\ DOMAIN GoChain(f, b) = 1 .. 13
         /\ \A i \in 1 .. 6 : GoChain(f, b)[i] = DeviceChecks(f, b)[i]
         /\ \A i \in 7 .. 9 : GoChain(f, b)[i] = GoTargetChecks(f, b)[i - 6]
         /\ \A i \in 10 .. 12 : GoChain(f, b)[i] = ProgramChecks(f)[i - 9]
         /\ GoChain(f, b)[13] = GoPriceCheck(f, b)
<1> USE DEF GoChain, DeviceChecks, GoTargetChecks, ProgramChecks
<1>1. DOMAIN GoChain(f, b) = 1 .. 13
  OBVIOUS
<1>2. \A i \in 1 .. 6 : GoChain(f, b)[i] = DeviceChecks(f, b)[i]
  OBVIOUS
<1>3. \A i \in 7 .. 9 : GoChain(f, b)[i] = GoTargetChecks(f, b)[i - 6]
  OBVIOUS
<1>4. \A i \in 10 .. 12 : GoChain(f, b)[i] = ProgramChecks(f)[i - 9]
  OBVIOUS
<1>5. GoChain(f, b)[13] = GoPriceCheck(f, b)
  OBVIOUS
<1> QED
  BY <1>1, <1>2, <1>3, <1>4, <1>5

\* A chain of twelve checks has a first one that refuses, or none.
LEMMA FirstOfTwelve ==
  ASSUME NEW checks
  PROVE  \/ \A j \in 1 .. 12 : ~checks[j].refuses
         \/ \E i \in 1 .. 12 : checks[i].refuses /\ \A j \in 1 .. i - 1 : ~checks[j].refuses
<1> DEFINE R(i) == checks[i].refuses
<1> HIDE DEF R
<1>1. \/ \A j \in 1 .. 12 : ~R(j)
      \/ \E i \in 1 .. 12 : R(i) /\ \A j \in 1 .. i - 1 : ~R(j)
  OBVIOUS
<1> QED
  BY <1>1 DEF R

\* The requests on which the theorem of agreement is about.
Usual(f, b) ==
  /\ ~(b.method # "QR" /\ b.price = None /\ f.price = 0)
  /\ b.method = "QR" => b.qr # None

\* Where the chains meet: the Go chain has one check more, of the token.
LEMMA ChainsAlike ==
  ASSUME NEW f, NEW b, None \notin Int, f.price \in Nat, b.price \in Int \cup {None}, Usual(f, b)
  PROVE  /\ \A i \in 1 .. 6 : GoChain(f, b)[i] = PyChain(f, b)[i]
         /\ ~GoChain(f, b)[7].refuses
         /\ \A i \in 7 .. 12 : /\ GoChain(f, b)[i + 1].refuses <=> PyChain(f, b)[i].refuses
                               /\ GoChain(f, b)[i + 1].code = PyChain(f, b)[i].code
<1> DEFINE py == PyChain(f, b)
           go == GoChain(f, b)
<1>1. /\ \A i \in 1 .. 6 : py[i] = DeviceChecks(f, b)[i]
      /\ py[7] = PyTargetChecks(f, b)[1] /\ py[8] = PyTargetChecks(f, b)[2]
      /\ py[9] = ProgramChecks(f)[1] /\ py[10] = ProgramChecks(f)[2]
      /\ py[11] = ProgramChecks(f)[3] /\ py[12] = PyPriceCheck(f, b)
  BY PyChainIs
<1>2. /\ \A i \in 1 .. 6 : go[i] = DeviceChecks(f, b)[i]
      /\ go[7] = GoTargetChecks(f, b)[1] /\ go[8] = GoTargetChecks(f, b)[2]
      /\ go[9] = GoTargetChecks(f, b)[3]
      /\ go[10] = ProgramChecks(f)[1] /\ go[11] = ProgramChecks(f)[2]
      /\ go[12] = ProgramChecks(f)[3] /\ go[13] = GoPriceCheck(f, b)
  BY GoChainIs
<1> HIDE DEF py, go
<1>3. \A i \in 1 .. 6 : go[i] = py[i]
  BY <1>1, <1>2
<1>4. ~go[7].refuses
  <2>1. GoTargetChecks(f, b)[1].refuses <=> b.method = "QR" /\ b.qr = None
    BY DEF GoTargetChecks, Check
  <2>2. ~(b.method = "QR" /\ b.qr = None)
    BY DEF Usual
  <2>3. ~GoTargetChecks(f, b)[1].refuses
    BY <2>1, <2>2
  <2> QED
    BY <1>2, <2>3
<1>5. (go[8].refuses <=> py[7].refuses) /\ go[8].code = py[7].code
  BY <1>1, <1>2 DEF PyTargetChecks, GoTargetChecks, Check, Usual
<1>6. (go[9].refuses <=> py[8].refuses) /\ go[9].code = py[8].code
  BY <1>1, <1>2 DEF PyTargetChecks, GoTargetChecks, Check
<1>7. go[10] = py[9] /\ go[11] = py[10] /\ go[12] = py[11]
  BY <1>1, <1>2
<1>8. (go[13].refuses <=> py[12].refuses) /\ go[13].code = py[12].code
  BY <1>1, <1>2 DEF PyPriceCheck, GoPriceCheck, Check, Usual
<1>9. \A i \in 7 .. 12 : (go[i + 1].refuses <=> py[i].refuses) /\ go[i + 1].code = py[i].code
  BY <1>5, <1>6, <1>7, <1>8
<1> QED
  BY <1>3, <1>4, <1>9 DEF py, go

LEMMA SameRefusal ==
  ASSUME NEW f, NEW b, None \notin Int, f.price \in Nat, b.price \in Int \cup {None}, Usual(f, b)
  PROVE  PyRefusal(f, b) = GoRefusal(f, b)
<1> DEFINE py == PyChain(f, b)
           go == GoChain(f, b)
<1>1. PyRefusal(f, b) = FirstRefusal(py) /\ GoRefusal(f, b) = FirstRefusal(go)
  BY DEF PyRefusal, GoRefusal, PyChain, GoChain
<1>2. DOMAIN py = 1 .. 12 /\ DOMAIN go = 1 .. 13
  BY PyChainIs, GoChainIs
<1>3. /\ \A i \in 1 .. 6 : go[i] = py[i]
      /\ ~go[7].refuses
      /\ \A i \in 7 .. 12 : (go[i + 1].refuses <=> py[i].refuses) /\ go[i + 1].code = py[i].code
  BY ChainsAlike
<1> HIDE DEF py, go
<1>4. CASE \A j \in 1 .. 12 : ~py[j].refuses
  <2>1. \A j \in 1 .. 13 : j \in 1 .. 6 \/ j = 7 \/ (j - 1 \in 7 .. 12 /\ (j - 1) + 1 = j)
    OBVIOUS
  <2>2. \A j \in 1 .. 13 : ~go[j].refuses
    BY <1>3, <1>4, <2>1
  <2> QED
    BY <1>1, <1>2, <1>4, <2>2, NoneRefuses
<1>5. ASSUME NEW i \in 1 .. 12, py[i].refuses, \A j \in 1 .. i - 1 : ~py[j].refuses
      PROVE  FirstRefusal(py) = FirstRefusal(go)
  <2>1. FirstRefusal(py) = py[i].code
    BY <1>2, <1>5, FirstDecides
  <2>2. CASE i \in 1 .. 6
    <3>1. go[i].refuses /\ go[i].code = py[i].code /\ i \in 1 .. 13
      BY <1>3, <1>5, <2>2
    <3>2. ASSUME NEW j \in 1 .. i - 1 PROVE ~go[j].refuses
      <4>1. j \in 1 .. 6
        BY <2>2
      <4> QED
        BY <1>3, <1>5, <4>1
    <3> QED
      BY <1>2, <2>1, <3>1, <3>2, FirstDecides
  <2>3. CASE i \in 7 .. 12
    <3>1. go[i + 1].refuses /\ go[i + 1].code = py[i].code /\ i + 1 \in 1 .. 13
      BY <1>3, <1>5, <2>3
    <3>2. ASSUME NEW j \in 1 .. (i + 1) - 1 PROVE ~go[j].refuses
      <4>1. CASE j \in 1 .. 6
        BY <1>3, <1>5, <2>3, <4>1
      <4>2. CASE j = 7
        BY <1>3, <4>2
      <4>3. CASE j \in 8 .. i
        <5>1. j - 1 \in 7 .. 12 /\ j - 1 \in 1 .. i - 1 /\ (j - 1) + 1 = j
          BY <2>3, <4>3
        <5> QED
          BY <1>3, <1>5, <5>1
      <4> QED
        BY <2>3, <4>1, <4>2, <4>3
    <3> QED
      BY <1>2, <2>1, <3>1, <3>2, FirstDecides
  <2> QED
    BY <2>2, <2>3
<1> QED
  BY <1>1, <1>4, <1>5, FirstOfTwelve

\* create_payment and CreatePayment: on a usual request the two chains of
\* guards admit together or refuse with one code, whatever they read.
THEOREM StacksAgreeOnUsual == Spec => []StacksAgreeOnUsualRequests
<1>1. facts \in Facts /\ request \in Bodies => StacksAgreeOnUsualRequests
  BY InputsAssumption, SameRefusal DEF StacksAgreeOnUsualRequests, Usual, FreeForTheSilent
<1>2. Init => facts \in Facts /\ request \in Bodies
  BY DEF Init
<1>3. facts \in Facts /\ request \in Bodies /\ [Next]_<< facts, request >>
        => (facts \in Facts /\ request \in Bodies)'
  BY DEF Next
<1> QED
  BY <1>1, <1>2, <1>3, PTL DEF Spec

LEMMA AdmittedIsOperational ==
  ASSUME InputsAssumption, facts \in Facts, request \in Bodies, ~FreeForTheSilent
  PROVE  PyRefusal(facts, request) = Admitted <=> Operational /\ Sellable
<1> DEFINE py == PyChain(facts, request)
           D == DeviceChecks(facts, request)
           T == PyTargetChecks(facts, request)
           P == ProgramChecks(facts)
<1>1. PyRefusal(facts, request) = FirstRefusal(py)
  BY DEF PyRefusal, PyChain
<1>2. /\ DOMAIN py = 1 .. 12
      /\ \A i \in 1 .. 6 : py[i] = D[i]
      /\ \A i \in 7 .. 8 : py[i] = T[i - 6]
      /\ \A i \in 9 .. 11 : py[i] = P[i - 8]
      /\ py[12] = PyPriceCheck(facts, request)
  BY PyChainIs
<1> HIDE DEF py
<1>2a. DOMAIN py = 1 .. 12
  BY <1>2
<1>3. /\ \A i \in 1 .. 6 : D[i].code # Admitted
      /\ \A i \in 1 .. 2 : T[i].code # Admitted
      /\ \A i \in 1 .. 3 : P[i].code # Admitted
      /\ PyPriceCheck(facts, request).code # Admitted
  BY DEF DeviceChecks, PyTargetChecks, ProgramChecks, PyPriceCheck, Check, Admitted
<1>4. \A i \in 1 .. 12 : i \in 1 .. 6 \/ i \in 7 .. 8 \/ i \in 9 .. 11 \/ i = 12
  OBVIOUS
<1>5. \A i \in 7 .. 8 : i - 6 \in 1 .. 2
  OBVIOUS
<1>6. \A i \in 9 .. 11 : i - 8 \in 1 .. 3
  OBVIOUS
<1>7. \A i \in 1 .. 12 : py[i].code # Admitted
  BY <1>2, <1>3, <1>4, <1>5, <1>6
<1>8. FirstRefusal(py) = Admitted <=> \A i \in 1 .. 12 : ~py[i].refuses
  <2>1. (\A i \in 1 .. 12 : ~py[i].refuses) => FirstRefusal(py) = Admitted
    BY <1>2a, NoneRefuses
  <2>2. ASSUME NEW i \in 1 .. 12, py[i].refuses, \A j \in 1 .. i - 1 : ~py[j].refuses
        PROVE  FirstRefusal(py) # Admitted
    <3>1. 12 \in Nat
      OBVIOUS
    <3>2. FirstRefusal(py) = py[i].code
      BY <1>2a, <2>2, <3>1, FirstDecides
    <3>3. py[i].code # Admitted
      BY <1>7
    <3> QED
      BY <3>2, <3>3
  <2> QED
    BY <2>1, <2>2, FirstOfTwelve
<1>9. (\A i \in 1 .. 12 : ~py[i].refuses) <=>
        /\ \A i \in 1 .. 6 : ~D[i].refuses
        /\ ~T[1].refuses /\ ~T[2].refuses
        /\ ~P[1].refuses /\ ~P[2].refuses /\ ~P[3].refuses
        /\ ~PyPriceCheck(facts, request).refuses
  <2>1. /\ py[1] = D[1] /\ py[2] = D[2] /\ py[3] = D[3] /\ py[4] = D[4] /\ py[5] = D[5] /\ py[6] = D[6]
        /\ py[7] = T[1] /\ py[8] = T[2] /\ py[9] = P[1] /\ py[10] = P[2] /\ py[11] = P[3]
        /\ py[12] = PyPriceCheck(facts, request)
    BY <1>2
  <2> HIDE DEF D, T, P
  <2> QED
    BY <2>1
<1>10. (\A i \in 1 .. 6 : ~D[i].refuses) <=> Operational
  <2>1. /\ D[1].refuses <=> ~facts.station
        /\ D[2].refuses <=> facts.lastSeenAge = None \/ facts.lastSeenAge > OfflineAfter
        /\ D[3].refuses <=> ~facts.bay
        /\ D[4].refuses <=> facts.maintenance
        /\ D[5].refuses <=> \/ facts.published = None
                            \/ facts.published # request.version
                            \/ facts.acknowledged # facts.published
        /\ D[6].refuses <=> facts.busy
    BY InputsAssumption DEF DeviceChecks, Check
  <2>2. facts.lastSeenAge \in 0 .. OfflineAfter
          <=> ~(facts.lastSeenAge = None \/ facts.lastSeenAge > OfflineAfter)
    BY InputsAssumption DEF OfflineAfter
  <2>3. {facts.published, facts.acknowledged} = {request.version}
          <=> ~(\/ facts.published = None
                \/ facts.published # request.version
                \/ facts.acknowledged # facts.published)
    BY InputsAssumption
  <2>4. (\A i \in 1 .. 6 : ~D[i].refuses)
          <=> /\ ~D[1].refuses /\ ~D[2].refuses /\ ~D[3].refuses
              /\ ~D[4].refuses /\ ~D[5].refuses /\ ~D[6].refuses
    <3> HIDE DEF D
    <3> QED
      OBVIOUS
  <2> HIDE DEF D
  <2> QED
    BY <2>1, <2>2, <2>3, <2>4 DEF Operational
<1>11. /\ (~P[1].refuses /\ ~P[2].refuses /\ ~P[3].refuses)
          <=> facts.programActive /\ facts.entitled /\ facts.methodEnabled
  BY InputsAssumption DEF ProgramChecks, Check
<1>12. (~T[1].refuses /\ ~T[2].refuses /\ ~PyPriceCheck(facts, request).refuses)
         <=> IF request.method = "QR" THEN request.qr # None /\ facts.qrHere
             ELSE request.program /\ request.price = facts.price
  <2>1. /\ T[1].refuses <=> request.method = "QR" /\ (request.qr = None \/ ~facts.qrHere)
        /\ T[2].refuses <=> request.method # "QR" /\ ~request.program
    BY DEF PyTargetChecks, Check
  <2>2. PyPriceCheck(facts, request).refuses
          <=> /\ request.method \in {"CARD", "RF_CARD"}
              /\ (IF request.price = None THEN 0 ELSE request.price) # facts.price
    BY DEF PyPriceCheck, Check
  <2>3. (IF request.price = None THEN 0 ELSE request.price) = facts.price
          <=> request.price = facts.price \/ (request.price = None /\ facts.price = 0)
    BY InputsAssumption
  <2>5. request.method # "QR" => ~(request.price = None /\ facts.price = 0)
    BY DEF FreeForTheSilent
  <2>4. request.method \in {"CARD", "RF_CARD"} <=> request.method # "QR"
    BY InputsAssumption DEF Methods
  <2> HIDE DEF T
  <2> QED
    BY <2>1, <2>2, <2>3, <2>4, <2>5
<1> QED
  BY <1>1, <1>8, <1>9, <1>10, <1>11, <1>12 DEF Sellable

\* The Python chain admits exactly the payments of a device in service for a
\* program that may be sold so, at the price shown (unless it is free and none
\* is shown): no guard is missing, shadowed by another or off by one.
THEOREM AdmitsExactly == Spec => []AdmitsExactlyTheOperational
<1>1. facts \in Facts /\ request \in Bodies => AdmitsExactlyTheOperational
  BY InputsAssumption, AdmittedIsOperational DEF AdmitsExactlyTheOperational
<1>2. Init => facts \in Facts /\ request \in Bodies
  BY DEF Init
<1>3. facts \in Facts /\ request \in Bodies /\ [Next]_<< facts, request >>
        => (facts \in Facts /\ request \in Bodies)'
  BY DEF Next
<1> QED
  BY <1>1, <1>2, <1>3, PTL DEF Spec
=============================================================================
