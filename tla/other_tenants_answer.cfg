\* A replay returns the payment of another tenant.
SPECIFICATION Spec
CONSTANTS
  Requests = {r1, r2, r3}
  Nodes = {n1}
  Tenants = {t1, t2}
  Keys = {k1}
  Payloads = {low}
  t1 = t1
  t2 = t2
  k1 = k1
  low = low
  high = high
  listed = listed
  NoKey = NoKey
  NoPayment = NoPayment
  NoPayload = NoPayload
  Commands <- Retries
  Gate <- MCGate
  Durable = FALSE
  Unreliable = {}
  RailAnswers = {"accepted"}
  MaxCrashes = 0
INVARIANT
  ReplayMatchesResponse
