SPECIFICATION PoolSpec
CHECK_DEADLOCK FALSE
CONSTANTS
  alice = alice
  a1 = a1
  a2 = a2
  a3 = a3
  n1 = n1
  n2 = n2
  n3 = n3
  NoRow = NoRow
  None = None
  Users = {alice}
  Accounts = {a1, a2, a3}
  Numbers = {n1, n2, n3}
  Currencies = {"RUB"}
  Requests = {r1, r2, r3}
  Opening <- MCOpening
  Calls <- LoadCalls
  MaxBalance = 5
  Slots = 2
INVARIANTS
  ConnectionsReturned
PROPERTIES
  AnsweredUnderLoad
