\* Both repositories, with and without payments of a tenant that overlap; Prisma's calls throw.
SPECIFICATION Spec
CONSTANTS
  p1 = p1
  p2 = p2
  p3 = p3
  p4 = p4
  t1 = t1
  t2 = t2
  Payments = {p1, p2, p3}
  Tenants = {t1, t2}
  TenantOf <- MCTenantOf
  PerPayment = 2
  Throws = TRUE
  MaxTime = 1
  Genesis = Genesis
INVARIANTS
  TypeOK
  ParentIsEarlier
  OwnRecordsInOrder
  ReadsSeeOwnRecords
  SerialChainIsLinear
