CONSTANTS
  USD = USD
  SAR = SAR
  JPY = JPY
  Sources = {USD, SAR}
  Targets = {USD, JPY}
  Fallback <- MCFallback
  First <- MCFirst
  maxRetries = 1
  MaxCalls = 3
SPECIFICATION FairSpec
INVARIANTS
  FallbackIsLastResort
  PanelShowsForm
PROPERTIES
  EveryQuoteEnds
