SPECIFICATION Spec
CONSTANTS
  None = None
  k1 = k1
  k2 = k2
  q1 = q1
  w1 = w1
  Slots = {s1, s2, s3}
  IdemKeys = {k1, k2}
  QrCodes = {q1}
  Wallets = {w1}
  Bodies <- MoneyBodies
  Facts <- MCFacts
  UsageLimit <- MCUsageLimitOne
  QrAmount <- MCQrAmount
  Opening <- MCOpening
INVARIANTS
  TypeOK
  OnePaymentPerKey
  DuplicateKeyFree
  RepliesAreDurable
  QrUsageIsRedemptions
  NoOverdraft
  WalletMatchesLedger
  FinancialStateIsWhole
