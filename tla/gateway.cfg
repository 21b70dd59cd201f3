SPECIFICATION GatewaySpec
CHECK_DEADLOCK FALSE
CONSTANTS
  alice = alice
  bob = bob
  new = new
  n1 = n1
  n2 = n2
  n3 = n3
  e1 = e1
  e2 = e2
  e3 = e3
  p1 = p1
  p2 = p2
  a1 = a1
  a2 = a2
  k1 = k1
  k2 = k2
  k3 = k3
  right = right
  wrong = wrong
  NoUser = NoUser
  NoCard = NoCard
  None = None
  UserIds = {alice, bob, new}
  Names = {n1, n2, n3}
  Emails = {e1, e2, e3}
  Passwords = {p1, p2}
  Registered <- MCRegistered
  Requests = {r1, r2, r3}
  Lifetime = 1
  Horizon = 2
  Accounts = {a1, a2}
  Owner <- MCOwner
  CardIds = {k1, k2, k3}
  Cvvs = {right, wrong}
  Opening <- MCOpening
SYMMETRY Symmetry
INVARIANTS
  IdentitiesUnique
  AcceptedRegistrationsStand
  AdmittedHasLoggedIn
  DeletedOnce
PROPERTIES
  CardsChangeByOwner
  DeletionNoticed
