\* Prisma's repositories and those in memory, as the API wires them.
SPECIFICATION Spec
CONSTANTS
  cash = cash
  wallet = wallet
  rent = rent
  euros = euros
  USD = USD
  EUR = EUR
  x1 = x1
  x2 = x2
  x3 = x3
  Accounts = {cash, wallet, rent, euros}
  Currencies = {USD, EUR}
  TypeOf <- MCTypeOf
  CurrencyOf <- MCCurrencyOf
  Transfers = {x1, x2, x3}
  Commands <- Payments
SYMMETRY Symmetry
INVARIANTS
  EntriesAreWhole
  TrialBalance
