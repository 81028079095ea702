SPECIFICATION FairSpec
CONSTANTS
  None = None
  k1 = k1
  k2 = k2
  q1 = q1
  w1 = w1
  Slots = {s1, s2}
  IdemKeys = {k1}
  QrCodes = {q1}
  Wallets = {w1}
  Bodies <- OutcomeBodies
  Facts <- AllFacts
  UsageLimit <- MCUsageLimitTwo
  QrAmount <- MCQrAmount
  Opening <- MCOpening
PROPERTIES
  EveryRequestEnds
  ImplementsContract
