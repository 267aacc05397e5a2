\* Two retries of a failed key: the one that fails reopens what the other completed.
SPECIFICATION Spec
CONSTANTS
  Requests = {r1, r2, r3}
  Nodes = {n1}
  Tenants = {t1}
  Keys = {k1}
  Payloads = {low}
  t1 = t1
  t2 = t2
  k1 = k1
  low = low
  high = high
  listed = listed
  NoKey = NoKey
  NoPayment = NoPayment
  NoPayload = NoPayload
  Commands <- Retries
  Gate <- MCGate
  Durable = FALSE
  Unreliable = {"rail"}
  RailAnswers = {"accepted"}
  MaxCrashes = 0
INVARIANT
  AnswersAreKept
