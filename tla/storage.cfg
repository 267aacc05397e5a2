CONSTANTS
  p1 = p1
  p2 = p2
  p3 = p3
  a = a
  b = b
  k = k
  q = q
  None = None
  Payments = {p1, p2, p3}
  Tenants = {a, b}
  Keys = {k}
  TenantOf <- MCTenantOf
  KeyOf <- MCKeyOf
  QuoteOf <- MCQuoteOf
  CorrelationOf <- MCCorrelationOf
  PageSize = 2
  MaxTime = 1
SPECIFICATION Spec
INVARIANTS
  ReadsAgree
  QueriesAgree
  TrailsAgree
