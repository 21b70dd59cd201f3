SPECIFICATION ForecastSpec
CHECK_DEADLOCK FALSE
CONSTANTS
  a1 = a1
  nil = nil
  Nil = nil
  NoCredit = NoCredit
  Accounts = {a1}
  Owner <- NilOwner
  CreditIds = {k1, k2}
  Applications <- UnequalLoans
  MaxBalance = 2
  MaxFines = 1
  Horizon = 2
  MaxFaults = 0
  Asked = a1
  Days = 1
SYMMETRY Symmetry
INVARIANTS
  NeverCountedTwice
  UncountedWasCollected
