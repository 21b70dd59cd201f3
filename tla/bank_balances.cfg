SPECIFICATION BankSpec
CONSTANTS
  nil = nil
  bob = bob
  a1 = a1
  a2 = a2
  n1 = n1
  n2 = n2
  NoRow = NoRow
  None = None
  NoCredit = NoCredit
  Nil = nil
  Users = {nil, bob}
  Accounts = {a1, a2}
  LoanAccounts = {a1}
  Numbers = {n1, n2}
  Currencies = {"RUB"}
  Requests = {r1, r2}
  Opening <- MCOpening
  Calls <- BankCalls
  Applications <- TwoInstallments
  CreditIds = {k1}
  MaxBalance = 3
  MaxFines = 1
  Horizon = 2
  MaxFaults = 1
SYMMETRY Symmetry
CHECK_DEADLOCK FALSE
INVARIANTS
  NoOverdraft
  UntaintedBankBalances
PROPERTIES
  SchedulerKeepsItsPromises
