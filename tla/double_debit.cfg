\* A rail call that throws, then a retry: the in-memory repositories book the key twice.
SPECIFICATION Spec
CONSTANTS
  Requests = {r1, r2}
  Nodes = {n1}
  Tenants = {t1}
  Keys = {k1}
  Payloads = {low}
  t1 = t1
  t2 = t2
  k1 = k1
  low = low
  high = high
  listed = listed
  NoKey = NoKey
  NoPayment = NoPayment
  NoPayload = NoPayload
  Commands <- Retries
  Gate <- MCGate
  Durable = FALSE
  Unreliable = {"rail"}
  RailAnswers = {"accepted"}
  MaxCrashes = 0
INVARIANT
  AtMostOneEntryPerKey
