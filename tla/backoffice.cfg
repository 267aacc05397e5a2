CONSTANTS
  small = small
  barred = barred
  unknown = unknown
  unreadable = unreadable
  Home = a
  Tenants = {a, b}
  Keys = {k}
  Bodies = {small, barred, unknown, unreadable}
  WellFormed = {small, barred, unknown}
  Outcome <- MCOutcome
  MaxRequests = 3
SPECIFICATION Spec
CHECK_DEADLOCK FALSE
INVARIANTS
  PanelsAreCurrent
  RefusedMeansNothingDone
  CountersCount
