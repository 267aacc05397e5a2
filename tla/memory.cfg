\* In-memory repositories, as the API wires them; accounts may be missing, the rail may throw.
SPECIFICATION Spec
CONSTANTS
  Requests = {r1, r2, r3}
  Nodes = {n1}
  Tenants = {t1}
  Keys = {k1}
  Payloads = {low, high, listed}
  t1 = t1
  t2 = t2
  k1 = k1
  low = low
  high = high
  listed = listed
  NoKey = NoKey
  NoPayment = NoPayment
  NoPayload = NoPayload
  Commands <- AllCommands
  Gate <- MCGate
  Durable = FALSE
  Unreliable = {"rail"}
  RailAnswers = {"accepted", "rejected"}
  MaxCrashes = 1
SYMMETRY Symmetry
INVARIANTS
  SingleFlight
  OneUntilFailure
  ReplaysAreAnswered
