\* Prisma repositories: retries and other commands, every port may throw, one crash.
SPECIFICATION Spec
CONSTANTS
  Requests = {r1, r2, r3}
  Nodes = {n1, n2}
  Tenants = {t1, t2}
  Keys = {k1}
  Payloads = {low, high, listed}
  t1 = t1
  t2 = t2
  k1 = k1
  low = low
  high = high
  listed = listed
  NoKey = NoKey
  NoPayment = NoPayment
  NoPayload = NoPayload
  Commands <- KeyedCommands
  Gate <- MCGate
  Durable = TRUE
  Unreliable = {"accounts", "payments", "ledger", "audit", "rail"}
  RailAnswers = {"accepted", "rejected"}
  MaxCrashes = 1
SYMMETRY Symmetry
INVARIANTS
  TypeOK
  AtMostOneEntryPerKey
  AtMostOnePayoutPerKey
  ReplayMatchesResponse
  PayoutIsCovered
  AuditTellsTheTruth
  AnswerIsAudited
  UnlinkedEntryIsReported
  OnlyAllowedMoves
  Stages
PROPERTIES
  StaysInLifecycle
  PaysOnce
