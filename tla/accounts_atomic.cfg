SPECIFICATION CarefulSpec
CONSTANTS
  alice = alice
  bob = bob
  a1 = a1
  a2 = a2
  a3 = a3
  a4 = a4
  n1 = n1
  n2 = n2
  n3 = n3
  n4 = n4
  NoRow = NoRow
  None = None
  Users = {alice, bob}
  Accounts = {a1, a2, a3, a4}
  Numbers = {n1, n2, n3, n4}
  Currencies = {"RUB"}
  Requests = {r1, r2}
  Opening <- MCOpening
  Calls <- MCCalls
  MaxBalance = 4
PROPERTIES
  ImplementsBankLedger
