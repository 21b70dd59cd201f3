SPECIFICATION FairSpec
CONSTANTS
  a1 = a1
  alice = alice
  nil = nil
  Nil = nil
  NoCredit = NoCredit
  Accounts = {a1}
  Owner <- AliceOwner
  CreditIds = {k1}
  Applications <- EvenLoans
  MaxBalance = 2
  MaxFines = 1
  Horizon = 3
  MaxFaults = 0
PROPERTIES
  CollectsWhenFunded
