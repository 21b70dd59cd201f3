SPECIFICATION AuditSpec
CONSTANTS
  alice = alice
  bob = bob
  a1 = a1
  a2 = a2
  a3 = a3
  a4 = a4
  n1 = n1
  n2 = n2
  n3 = n3
  NoRow = NoRow
  None = None
  Requests = {r1, r2}
  MaxBalance = 3
  Users <- MCUsers
  Accounts <- MCAccounts4
  Numbers <- MCNumbers
  Currencies <- MCCurrencies
  Opening <- MCOpening
  Calls <- DepositCalls
SYMMETRY Symmetry
INVARIANTS
  LedgerExplainsBalances
