SPECIFICATION FiguresSpec
CHECK_DEADLOCK FALSE
CONSTANTS
  a1 = a1
  a2 = a2
  Accounts = {a1, a2}
  UserAccounts = {a1, a2}
  Requested = {1, 4, 5, 10, 15, 40}
  Exact = 50
  Unit = 40
  MaxBalance = 12
  MaxOps = 5
  BaseLength = 3
  Writers = {w1, w2}
  Bookings <- MCBookings
  Months = {1}
  MonthLength = 2
  Horizon = 4
SYMMETRY Symmetry
INVARIANTS
  ReportIsBetween
  ReportIsFinal
  DriftIsBounded
  GeneratedIsValid
