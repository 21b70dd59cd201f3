SPECIFICATION FairSpec
CONSTANTS
  a1 = a1
  alice = alice
  nil = nil
  Nil = nil
  NoCredit = NoCredit
  Accounts = {a1}
  Owner <- NilOwner
  CreditIds = {k1}
  Applications <- AllLoans
  MaxBalance = 3
  MaxFines = 2
  Horizon = 4
  MaxFaults = 2
INVARIANTS
  TypeOK
  InstallmentsMatchLedger
  PaidInOrder
  NoRowPaidAgain
  FinesOnlyOnOverdue
  CopyIsCurrent
  DebtCoversLoan
PROPERTIES
  ImplementsLoanBook
  CollectsWhenFunded
