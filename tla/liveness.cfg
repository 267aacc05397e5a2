\* Every call ends and every lock is released; the rail never throws but always decides.
SPECIFICATION FairSpec
CONSTANTS
  Requests = {r1, r2}
  Nodes = {n1}
  Tenants = {t1}
  Keys = {k1}
  Payloads = {low, high, listed}
  t1 = t1
  t2 = t2
  k1 = k1
  low = low
  high = high
  listed = listed
  NoKey = NoKey
  NoPayment = NoPayment
  NoPayload = NoPayload
  Commands <- AllCommands
  Gate <- MCGate
  Durable = TRUE
  Unreliable = {"accounts", "payments", "ledger", "audit"}
  RailAnswers = {"accepted", "rejected"}
  MaxCrashes = 1
PROPERTIES
  EveryCallEnds
  LocksAreReleased
