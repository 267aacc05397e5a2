\* The gate on the limits of its rules; allocations of small amounts.
SPECIFICATION Spec
CONSTANTS
  NoAmount = NoAmount
  Contexts <- MCContexts
  Splits <- MCSplits
  Exchanges <- MCExchanges
INVARIANTS
  StrictestRuleWins
  RiskNeverHelps
  AllocationIsExact
  SharesAreFair
  RefundsMirrorCharges
  QuotesAreFair
  MachineFollowsTable
CHECK_DEADLOCK FALSE
