---------------------------- MODULE FiguresProofs ----------------------------
(***************************************************************************)
(* Amounts and IncomeExpense, for every set of accounts, of amounts, of    *)
(* writers and of bookings, and every length of a month; and Luhn, for     *)
(* every number of digits.                                                 *)
(*                                                                         *)
(* First fractions of a kopeck: balance and transactions drift apart only  *)
(* by halves and by sums too large for float64.  Then reports: a report    *)
(* has counted all rows of its month that were there when it was asked     *)
(* for, none twice, and no other row than of its month.  Last card         *)
(* numbers: the loop of the code computes the check digit of the Luhn      *)
(* algorithm.                                                              *)
(***************************************************************************)
EXTENDS Amounts, IncomeExpense, Luhn, FiniteSums

(* Columns hold whole kopecks; the counters of halves count. *)
TypeOK ==
  /\ balance \in [Accounts -> Int]
  /\ booked \in [Accounts -> Int]
  /\ halvesIn \in [Accounts -> Nat]
  /\ halvesOut \in [Accounts -> Nat]
  /\ coarse \in [Accounts -> Nat]

Inv == TypeOK /\ DriftIsBounded

-----------------------------------------------------------------------------
(* Arithmetic. *)

(* An amount is recorded as a number of kopecks; Half tells the ties. *)
LEMMA RecordedType ==
  ASSUME NEW amount \in Nat
  PROVE  Recorded(amount) \in Int /\ Half(amount) \in {0, 1}
BY DEF Recorded, Half

(* A number of float64 is half a spacing off at most, and up to Exact it   *)
(* is the number itself.                                                   *)
LEMMA FloatsNear ==
  ASSUME NEW tenths \in Nat, NEW f \in Floats(tenths)
  PROVE  /\ f \in Nat
         /\ tenths <= Exact => f = tenths
         /\ 2 * tenths - Unit <= 2 * f
         /\ 2 * f <= 2 * tenths + Unit
<1> DEFINE below == Unit * (tenths \div Unit)
<1>1. Exact \in Nat /\ Unit \in Nat /\ Unit > 0
  BY AmountsAssumption
<1>2. below \in Nat
  <2>1. tenths \div Unit \in Nat
    BY <1>1
  <2> QED
    BY <1>1, <2>1
<1>3. CASE tenths <= Exact
  BY <1>1, <1>3 DEF Floats
<1>4. CASE ~(tenths <= Exact)
  <2>1. f \in {below, below + Unit} /\ 2 * (f - tenths) \in -Unit .. Unit
    BY <1>4 DEF Floats
  <2> HIDE DEF below
  <2> QED
    BY <1>1, <1>2, <1>4, <2>1
<1> QED
  BY <1>3, <1>4

(* A sum that is stored is a float, rounded to kopecks one way or the other.*)
LEMMA StoredNear ==
  ASSUME NEW read \in Nat, NEW change \in Int, read + change \in Nat,
         NEW b \in Stored(read, change)
  PROVE  \E f \in Floats(read + change) : b = (f + 5) \div 10 \/ b = (f + 4) \div 10
BY DEF Stored

(* A credit adds to the balance what is recorded of it, or, if it ends in  *)
(* half a kopeck, one kopeck less; beyond Exact float64 may add its own.   *)
LEMMA CreditDrift ==
  ASSUME NEW a \in Accounts, balance[a] \in Nat, NEW amount \in Nat,
         NEW read \in Read(a), NEW b \in Stored(read, amount)
  PROVE  /\ b \in Nat
         /\ 10 * (balance[a] + Recorded(amount) - Half(amount)) - Coarse(a, amount) <= 10 * b
         /\ 10 * b <= 10 * (balance[a] + Recorded(amount)) + Coarse(a, amount)
<1>1. Exact \in Nat /\ Unit \in Nat
  BY AmountsAssumption
<1>2. /\ read \in Nat
      /\ 10 * balance[a] <= Exact => read = 10 * balance[a]
      /\ 20 * balance[a] - Unit <= 2 * read /\ 2 * read <= 20 * balance[a] + Unit
  BY FloatsNear DEF Read
<1>3. PICK f \in Floats(read + amount) : b = (f + 5) \div 10 \/ b = (f + 4) \div 10
  BY <1>2, StoredNear
<1>4. /\ f \in Nat
      /\ read + amount <= Exact => f = read + amount
      /\ 2 * (read + amount) - Unit <= 2 * f /\ 2 * f <= 2 * (read + amount) + Unit
  BY <1>2, FloatsNear
<1> QED
  BY <1>1, <1>2, <1>3, <1>4 DEF Recorded, Half, Coarse

(* A debit takes off the balance what is recorded of it, or, if it ends in *)
(* half a kopeck, one kopeck less; what the balance covers leaves it at    *)
(* zero or above.                                                          *)
LEMMA DebitDrift ==
  ASSUME NEW a \in Accounts, balance[a] \in Nat, NEW amount \in Nat,
         NEW read \in Read(a), Funds(read, amount), NEW b \in Stored(read, -amount)
  PROVE  /\ b \in Nat
         /\ 10 * (balance[a] - Recorded(amount)) - Coarse(a, -amount) <= 10 * b
         /\ 10 * b <= 10 * (balance[a] - Recorded(amount) + Half(amount)) + Coarse(a, -amount)
<1>1. Exact \in Nat /\ Unit \in Nat
  BY AmountsAssumption
<1>2. /\ read \in Nat
      /\ 10 * balance[a] <= Exact => read = 10 * balance[a]
      /\ 20 * balance[a] - Unit <= 2 * read /\ 2 * read <= 20 * balance[a] + Unit
  BY FloatsNear DEF Read
<1>3. read + (-amount) \in Nat /\ -amount \in Int
  BY <1>2 DEF Funds
<1>4. PICK f \in Floats(read + (-amount)) : b = (f + 5) \div 10 \/ b = (f + 4) \div 10
  BY <1>2, <1>3, StoredNear
<1>5. /\ f \in Nat
      /\ read + (-amount) <= Exact => f = read + (-amount)
      /\ 2 * (read + (-amount)) - Unit <= 2 * f /\ 2 * f <= 2 * (read + (-amount)) + Unit
  BY <1>3, FloatsNear
<1> QED
  BY <1>1, <1>2, <1>3, <1>4, <1>5 DEF Recorded, Half, Coarse

(* The allowance of a write is a number of tenths. *)
LEMMA CoarseType ==
  ASSUME NEW a \in Accounts, NEW change
  PROVE  Coarse(a, change) \in Nat
BY AmountsAssumption DEF Coarse

-----------------------------------------------------------------------------
(* The operations. *)

(* Nothing is stored and nothing booked. *)
LEMMA InitInv == Init => Inv
BY DEF Init, Inv, TypeOK, DriftIsBounded

(* Balances are kopecks, and never below zero. *)
LEMMA BalanceType ==
  ASSUME Inv, NEW a \in Accounts
  PROVE  balance[a] \in Nat
BY DEF Inv, TypeOK, DriftIsBounded

(* A deposit may leave a kopeck less than it books, and counts a half. *)
LEMMA DepositInv ==
  ASSUME Inv, NEW a \in Accounts, NEW amount \in Nat, Deposit(a, amount)
  PROVE  Inv'
<1>1. PICK read \in Read(a) : \E b \in Stored(read, amount) :
        balance' = [balance EXCEPT ![a] = b]
  BY DEF Deposit
<1>2. PICK b \in Stored(read, amount) : balance' = [balance EXCEPT ![a] = b]
  BY <1>1
<1>3. /\ b \in Nat
      /\ 10 * (balance[a] + Recorded(amount) - Half(amount)) - Coarse(a, amount) <= 10 * b
      /\ 10 * b <= 10 * (balance[a] + Recorded(amount)) + Coarse(a, amount)
  BY <1>2, BalanceType, CreditDrift
<1>4. Recorded(amount) \in Int /\ Half(amount) \in {0, 1} /\ Coarse(a, amount) \in Nat
  BY RecordedType, CoarseType
<1>5. TypeOK'
  BY <1>2, <1>3, <1>4 DEF Inv, TypeOK, Deposit
<1>6. DriftIsBounded'
  BY <1>2, <1>3, <1>4 DEF Inv, TypeOK, DriftIsBounded, Deposit
<1> QED  BY <1>5, <1>6 DEF Inv

(* A withdrawal may leave a kopeck more than it books, and counts a half. *)
LEMMA WithdrawInv ==
  ASSUME Inv, NEW a \in Accounts, NEW amount \in Nat, Withdraw(a, amount)
  PROVE  Inv'
<1>1. PICK read \in Read(a) : /\ Funds(read, amount)
                              /\ \E b \in Stored(read, -amount) :
                                   balance' = [balance EXCEPT ![a] = b]
  BY DEF Withdraw
<1>2. PICK b \in Stored(read, -amount) : balance' = [balance EXCEPT ![a] = b]
  BY <1>1
<1>3. /\ b \in Nat
      /\ 10 * (balance[a] - Recorded(amount)) - Coarse(a, -amount) <= 10 * b
      /\ 10 * b <= 10 * (balance[a] - Recorded(amount) + Half(amount)) + Coarse(a, -amount)
  BY <1>1, <1>2, BalanceType, DebitDrift
<1>4. Recorded(amount) \in Int /\ Half(amount) \in {0, 1} /\ Coarse(a, -amount) \in Nat
  BY RecordedType, CoarseType
<1>5. TypeOK'
  BY <1>2, <1>3, <1>4 DEF Inv, TypeOK, Withdraw
<1>6. DriftIsBounded'
  BY <1>2, <1>3, <1>4 DEF Inv, TypeOK, DriftIsBounded, Withdraw
<1> QED  BY <1>5, <1>6 DEF Inv

(* A transfer is a debit of one account and a credit of another. *)
LEMMA TransferInv ==
  ASSUME Inv, NEW from \in Accounts, NEW to \in Accounts, NEW amount \in Nat,
         Transfer(from, to, amount)
  PROVE  Inv'
<1>1. PICK read \in Read(from), readTo \in Read(to) :
        /\ Funds(read, amount)
        /\ \E b \in Stored(read, -amount), c \in Stored(readTo, amount) :
             balance' = [balance EXCEPT ![from] = b, ![to] = c]
  BY DEF Transfer
<1>2. PICK b \in Stored(read, -amount), c \in Stored(readTo, amount) :
        balance' = [balance EXCEPT ![from] = b, ![to] = c]
  BY <1>1
<1>3. /\ b \in Nat
      /\ 10 * (balance[from] - Recorded(amount)) - Coarse(from, -amount) <= 10 * b
      /\ 10 * b <= 10 * (balance[from] - Recorded(amount) + Half(amount))
                     + Coarse(from, -amount)
  BY <1>1, <1>2, BalanceType, DebitDrift
<1>4. /\ c \in Nat
      /\ 10 * (balance[to] + Recorded(amount) - Half(amount)) - Coarse(to, amount) <= 10 * c
      /\ 10 * c <= 10 * (balance[to] + Recorded(amount)) + Coarse(to, amount)
  BY <1>1, <1>2, BalanceType, CreditDrift
<1>5. /\ from # to
      /\ booked' = [booked EXCEPT ![from] = @ - Recorded(amount), ![to] = @ + Recorded(amount)]
      /\ halvesOut' = [halvesOut EXCEPT ![from] = @ + Half(amount)]
      /\ halvesIn' = [halvesIn EXCEPT ![to] = @ + Half(amount)]
      /\ coarse' = [coarse EXCEPT ![from] = @ + Coarse(from, -amount),
                                  ![to] = @ + Coarse(to, amount)]
  BY DEF Transfer
<1>6. /\ Recorded(amount) \in Int /\ Half(amount) \in {0, 1}
      /\ Coarse(from, -amount) \in Nat /\ Coarse(to, amount) \in Nat
  BY RecordedType, CoarseType
<1>7. TypeOK'
  BY <1>2, <1>3, <1>4, <1>5, <1>6 DEF Inv, TypeOK
<1>8. DriftIsBounded'
  <2> SUFFICES ASSUME NEW a \in Accounts
               PROVE  /\ balance'[a] >= 0
                      /\ 10 * (booked'[a] - halvesIn'[a]) - coarse'[a] <= 10 * balance'[a]
                      /\ 10 * balance'[a] <= 10 * (booked'[a] + halvesOut'[a]) + coarse'[a]
    BY DEF DriftIsBounded
  <2>1. CASE a = from
    BY <2>1, <1>2, <1>3, <1>5, <1>6 DEF Inv, TypeOK, DriftIsBounded
  <2>2. CASE a = to
    BY <2>2, <1>2, <1>4, <1>5, <1>6 DEF Inv, TypeOK, DriftIsBounded
  <2>3. CASE a # from /\ a # to
    BY <2>3, <1>2, <1>5 DEF Inv, TypeOK, DriftIsBounded
  <2> QED  BY <2>1, <2>2, <2>3
<1> QED  BY <1>7, <1>8 DEF Inv

(* The invariant is inductive. *)
LEMMA NextInv == Inv /\ [Next]_vars => Inv'
<1> SUFFICES ASSUME Inv, [Next]_vars PROVE Inv'
  OBVIOUS
<1>1. CASE UNCHANGED vars
  BY <1>1 DEF Inv, TypeOK, DriftIsBounded, vars
<1>2. ASSUME NEW a \in Accounts, NEW amount \in Requested,
             \/ Deposit(a, amount)
             \/ Withdraw(a, amount)
             \/ \E b \in Accounts : Transfer(a, b, amount)
      PROVE  Inv'
  <2>1. amount \in Nat
    BY AmountsAssumption
  <2> QED  BY <1>2, <2>1, DepositInv, WithdrawInv, TransferInv
<1> QED  BY <1>1, <1>2 DEF Next

(* Whatever amounts are asked for, in whatever order, and however coarse   *)
(* the sums are beyond Exact: no account is below zero, and it differs     *)
(* from its transactions by no more than a kopeck for each operation that  *)
(* ends in half a kopeck, and the spacing of float64 and a kopeck for each *)
(* write beyond Exact (Deposit, Withdraw and Transfer of AccountService).  *)
THEOREM DriftIsBoundedHolds == Spec => []DriftIsBounded
<1>1. Inv => DriftIsBounded
  BY DEF Inv
<1> QED  BY <1>1, InitInv, NextInv, PTL DEF Spec

-----------------------------------------------------------------------------
(* Totals of rows. *)

(* An instant divides into a month and leaves a remainder if it is after   *)
(* the first one of the month and before the first one of the next month.  *)
LEMMA MonthArithmetic ==
  ASSUME NEW at \in Nat, NEW m \in Nat, NEW len \in Nat \ {0}
  PROVE  (at \div len = m /\ at % len # 0) <=> (at > m * len /\ at < (m + 1) * len)
<1>1. at = len * (at \div len) + (at % len) /\ at % len \in 0 .. len - 1 /\ at \div len \in Nat
  OBVIOUS
<1> DEFINE q == at \div len
           p == at % len
<1>2. q \in Nat /\ p \in Nat /\ p < len /\ at = len * q + p
  BY <1>1
<1> HIDE DEF q, p
<1>3. (m + 1) * len = m * len + len /\ m * len \in Nat /\ len * q \in Nat
  BY <1>2
<1>4. CASE q = m
  <2>1. len * q = m * len
    BY <1>4
  <2> QED
    BY <1>2, <1>3, <1>4, <2>1 DEF q, p
<1>5. CASE q < m
  <2>1. len * (q + 1) <= len * m
    BY <1>2, <1>5
  <2>2. len * (q + 1) = len * q + len /\ len * m = m * len
    BY <1>2
  <2> QED
    BY <1>2, <1>3, <1>5, <2>1, <2>2 DEF q
<1>6. CASE q > m
  <2>1. (m + 1) * len <= len * q
    BY <1>2, <1>6
  <2> QED
    BY <1>2, <1>3, <1>6, <2>1 DEF q
<1> QED
  BY <1>2, <1>4, <1>5, <1>6
(* The total of finitely many rows. *)
LEMMA TotalType ==
  ASSUME NEW some, IsFiniteSet(some), \A row \in some : row.amount \in Int
  PROVE  Total(some) \in Int
<1> DEFINE f == [row \in some |-> row.amount]
<1>1. f \in [some -> Int]
  OBVIOUS
<1> HIDE DEF f
<1>2. SumFunction(f) \in Int
  BY <1>1, SumIsInt
<1> QED
  BY <1>2 DEF Total, f

(* No rows, no money. *)
LEMMA TotalOfNone == Total({}) = 0
<1> DEFINE f == [row \in {} |-> row.amount]
<1>1. f \in [{} -> Int]
  OBVIOUS
<1> HIDE DEF f
<1>2. SumFunction(f) = 0
  BY <1>1, SumOfNone
<1> QED
  BY <1>2 DEF Total, f

(* The totals of two sets of rows without a row in common. *)
LEMMA TotalOfUnion ==
  ASSUME NEW some, IsFiniteSet(some), NEW more, IsFiniteSet(more), some \cap more = {},
         \A row \in some \cup more : row.amount \in Int
  PROVE  Total(some \cup more) = Total(some) + Total(more)
<1> DEFINE both == some \cup more
           f == [row \in both |-> row.amount]
           e == [row \in some |-> row.amount]
           d == [row \in more |-> row.amount]
<1>0. IsFiniteSet(some) /\ IsFiniteSet(more) /\ some \cap more = {}
  OBVIOUS
<1>1. /\ both = some \cup more /\ f \in [both -> Int] /\ e \in [some -> Int] /\ d \in [more -> Int]
  OBVIOUS
<1>3. (\A row \in some : e[row] = f[row]) /\ (\A row \in more : d[row] = f[row])
  OBVIOUS
<1> HIDE DEF both, f, e, d
<1>2. SumFunction(f) = SumFunction(e) + SumFunction(d)
  BY ONLY <1>0, <1>1, <1>3, SumOfUnion
<1> QED
  BY <1>2 DEF Total, both, f, e, d

(* The total of rows none of which is negative, or none positive. *)
LEMMA TotalSign ==
  ASSUME NEW some, IsFiniteSet(some), \A row \in some : row.amount \in Int
  PROVE  /\ (\A row \in some : row.amount >= 0) => Total(some) >= 0
         /\ (\A row \in some : row.amount <= 0) => Total(some) <= 0
<1> DEFINE f == [row \in some |-> row.amount]
<1>1. f \in [some -> Int] /\ \A row \in some : f[row] = row.amount
  OBVIOUS
<1>2. Total(some) = SumFunction(f)
  BY DEF Total
<1> HIDE DEF f
<1>3. SumFunction(f) \in Int
  BY <1>1, SumIsInt
<1>4. ASSUME NEW sign \in {1, -1}, \A row \in some : sign * row.amount >= 0
      PROVE  sign * SumFunction(f) >= 0
  <2>1. \A row \in some : sign * f[row] >= 0
    BY <1>1, <1>4
  <2> QED
    BY <1>1, <2>1, SumSign
<1>5. ASSUME \A row \in some : row.amount >= 0
      PROVE  Total(some) >= 0
  <2>1. \A row \in some : 1 * row.amount >= 0
    BY <1>5
  <2>2. 1 * SumFunction(f) >= 0
    BY <1>4, <2>1
  <2> QED
    BY <1>2, <1>3, <2>2
<1>6. ASSUME \A row \in some : row.amount <= 0
      PROVE  Total(some) <= 0
  <2>1. \A row \in some : (-1) * row.amount >= 0
    BY <1>6
  <2>2. (-1) * SumFunction(f) >= 0
    BY <1>4, <2>1
  <2> QED
    BY <1>2, <1>3, <2>2
<1> QED
  BY <1>5, <1>6

(* More rows, more income and more expense. *)
LEMMA TotalsGrow ==
  ASSUME NEW some, NEW all, some \subseteq all, IsFiniteSet(all),
         \A row \in all : row.amount \in Int
  PROVE  Income(some) <= Income(all) /\ Expense(some) <= Expense(all)
<1> DEFINE in == {row \in some : row.amount > 0}
           moreIn == {row \in all \ some : row.amount > 0}
           out == {row \in some : row.amount < 0}
           moreOut == {row \in all \ some : row.amount < 0}
<1>1. /\ IsFiniteSet(in) /\ IsFiniteSet(moreIn) /\ IsFiniteSet(out) /\ IsFiniteSet(moreOut)
  <2>1. in \subseteq all /\ moreIn \subseteq all /\ out \subseteq all /\ moreOut \subseteq all
    OBVIOUS
  <2> HIDE DEF in, moreIn, out, moreOut
  <2> QED
    BY <2>1, FS_Subset
<1>2. {row \in all : row.amount > 0} = in \cup moreIn /\ in \cap moreIn = {}
  OBVIOUS
<1>3. {row \in all : row.amount < 0} = out \cup moreOut /\ out \cap moreOut = {}
  OBVIOUS
<1>4. /\ \A row \in in \cup moreIn \cup out \cup moreOut : row.amount \in Int
      /\ \A row \in moreIn : row.amount >= 0
      /\ \A row \in moreOut : row.amount <= 0
  OBVIOUS
<1>5. Income(some) = Total(in) /\ Expense(some) = -Total(out)
  BY DEF Income, Expense
<1>6. Income(all) = Total(in \cup moreIn) /\ Expense(all) = -Total(out \cup moreOut)
  BY <1>2, <1>3 DEF Income, Expense
<1> HIDE DEF in, moreIn, out, moreOut
<1>7. Total(in \cup moreIn) = Total(in) + Total(moreIn)
  BY <1>1, <1>2, <1>4, TotalOfUnion
<1>8. Total(out \cup moreOut) = Total(out) + Total(moreOut)
  BY <1>1, <1>3, <1>4, TotalOfUnion
<1>9. Total(moreIn) >= 0 /\ Total(moreOut) <= 0
  BY <1>1, <1>4, TotalSign
<1>10. Total(in) \in Int /\ Total(moreIn) \in Int /\ Total(out) \in Int /\ Total(moreOut) \in Int
  BY <1>1, <1>4, TotalType
<1> QED
  BY <1>5, <1>6, <1>7, <1>8, <1>9, <1>10

(* What the code adds up as expenses: all that is not an income. *)
Incomes(some) == {row \in some : row.amount > 0}

(* Rows of no money are among them. *)
LEMMA ExpenseOfRest ==
  ASSUME NEW some, IsFiniteSet(some), \A row \in some : row.amount \in Int
  PROVE  Expense(some) = -Total(some \ Incomes(some))
<1> DEFINE out == {row \in some : row.amount < 0}
           void == {row \in some : row.amount = 0}
<1>1. some \ Incomes(some) = out \cup void /\ out \cap void = {}
  BY DEF Incomes
<1>2. out \subseteq some /\ void \subseteq some
  OBVIOUS
<1>3. /\ \A row \in void : /\ row.amount \in Int
                           /\ row.amount >= 0 /\ row.amount <= 0
      /\ \A row \in out \cup void : row.amount \in Int
  OBVIOUS
<1>4. Expense(some) = -Total(out)
  BY DEF Expense
<1> HIDE DEF out, void
<1>5. IsFiniteSet(out) /\ IsFiniteSet(void)
  BY <1>2, FS_Subset
<1>6. Total(out \cup void) = Total(out) + Total(void)
  BY <1>1, <1>3, <1>5, TotalOfUnion
<1>7. Total(void) >= 0 /\ Total(void) <= 0
  BY <1>3, <1>5, TotalSign
<1>8. Total(out) \in Int /\ Total(void) \in Int
  BY <1>3, <1>5, TotalType
<1> QED
  BY <1>1, <1>4, <1>6, <1>7, <1>8

-----------------------------------------------------------------------------
(* The inductive invariant.                                                *)

Row == [by : Writers, nth : Nat, acct : UserAccounts, amount : Int, at : Nat]

MonthTypeOK ==
  /\ clock \in Nat
  /\ opened \subseteq UserAccounts
  /\ IsFiniteSet(rows) /\ rows \subseteq Row
  /\ writer \in [Writers -> [stage : {"new", "build", "insert", "done"},
                             left : Seq(Entry), at : Nat]]
  /\ report \in [stage : {"new", "accounts", "transactions", "done", "failed"},
                 month : Nat, toRead : SUBSET UserAccounts, income : Int, expense : Int]
  /\ before \subseteq rows

(* Rows, and rows to come, are on accounts that have been opened. *)
RowsOnOpened ==
  /\ \A row \in rows : row.acct \in opened
  /\ \A w \in Writers : writer[w].stage \in {"build", "insert"} =>
       /\ writer[w].left # <<>>
       /\ \A i \in DOMAIN writer[w].left : writer[w].left[i].acct \in opened

(* Some rows of the month have been counted: each of them is on an account *)
(* that has been read; and each row that was there before is one of them,  *)
(* or on an account that is still to be read.                              *)
Covers(counted) ==
  /\ \A row \in counted : InMonth(row, report.month) /\ row.acct \notin report.toRead
  /\ \A row \in before :
       InMonth(row, report.month) => row \in counted \/ row.acct \in report.toRead

AddsUp(counted) ==
  /\ report.income = Total(Incomes(counted))
  /\ report.stage = "transactions" => report.expense = Total(counted \ Incomes(counted))
  /\ report.stage = "done" => report.expense = -Total(counted \ Incomes(counted))

CountedOK ==
  /\ report.stage = "accounts" => report.income = 0 /\ report.expense = 0
  /\ report.stage \in {"transactions", "done"} =>
       \E counted \in SUBSET rows : Covers(counted) /\ AddsUp(counted)
  /\ report.stage = "done" => report.toRead = {}

(* A quiet month stays as it was. *)
QuietOK ==
  report.stage \in {"accounts", "transactions", "done"} /\ quiet =>
    LET end == StartOfMonth(report.month + 1)
    IN  /\ clock >= end
        /\ \A w \in Writers : writer[w].stage = "insert" => writer[w].at >= end
        /\ \A row \in rows \ before : row.at >= end

MonthInv == MonthTypeOK /\ RowsOnOpened /\ CountedOK /\ QuietOK

-----------------------------------------------------------------------------
(* Money moves. *)

(* Months begin at natural instants. *)
LEMMA StartType ==
  ASSUME NEW m \in Nat
  PROVE  StartOfMonth(m) \in Nat
BY MonthAssumption DEF StartOfMonth

(* What has been counted stays so while rows are added. *)
LEMMA CountedStays ==
  ASSUME CountedOK, rows \subseteq rows', report' = report, before' = before
  PROVE  CountedOK'
<1>1. ASSUME NEW counted \in SUBSET rows, Covers(counted), AddsUp(counted)
      PROVE  \E some \in SUBSET rows' : Covers(some)' /\ AddsUp(some)'
  BY <1>1 DEF Covers, AddsUp, InMonth
<1> QED
  BY <1>1 DEF CountedOK

(* Time passes. *)
LEMMA TickInv == MonthInv /\ Tick => MonthInv'
<1> SUFFICES ASSUME MonthInv, Tick PROVE MonthInv'
  OBVIOUS
<1>1. /\ clock' = clock + 1 /\ opened' = opened /\ rows' = rows /\ writer' = writer
      /\ report' = report /\ before' = before /\ quiet' = quiet
  BY DEF Tick, reportVars
<1>2. MonthTypeOK' /\ RowsOnOpened'
  BY <1>1 DEF MonthInv, MonthTypeOK, RowsOnOpened
<1>3. CountedOK'
  BY <1>1, CountedStays DEF MonthInv
<1>4. report.month + 1 \in Nat /\ clock \in Nat
  BY DEF MonthInv, MonthTypeOK
<1>5. QuietOK'
  BY <1>1, <1>4, StartType DEF MonthInv, QuietOK
<1> QED
  BY <1>2, <1>3, <1>5 DEF MonthInv

(* The user opens another account. *)
LEMMA OpenAccountInv ==
  ASSUME MonthInv, NEW a \in UserAccounts, OpenAccount(a)
  PROVE  MonthInv'
<1>1. /\ clock' = clock /\ opened' = opened \cup {a} /\ rows' = rows /\ writer' = writer
      /\ report' = report /\ before' = before /\ quiet' = quiet
  BY DEF OpenAccount, reportVars
<1>2. MonthTypeOK' /\ RowsOnOpened'
  BY <1>1 DEF MonthInv, MonthTypeOK, RowsOnOpened
<1>3. CountedOK'
  BY <1>1, CountedStays DEF MonthInv
<1>4. QuietOK'
  BY <1>1 DEF MonthInv, QuietOK
<1> QED
  BY <1>2, <1>3, <1>4 DEF MonthInv

(* A writer begins to move money on accounts that are open. *)
LEMMA BeginInv ==
  ASSUME MonthInv, NEW w \in Writers, Begin(w)
  PROVE  MonthInv'
<1>1. /\ clock' = clock /\ opened' = opened /\ rows' = rows
      /\ report' = report /\ before' = before /\ quiet' = quiet
  BY DEF Begin, reportVars
<1>2. PICK entries \in Bookings :
        /\ \A i \in DOMAIN entries : entries[i].acct \in opened
        /\ writer' = [writer EXCEPT ![w] = [@ EXCEPT !.stage = "build", !.left = entries]]
  BY DEF Begin
<1>3. entries \in Seq(Entry) /\ entries # <<>>
  BY MonthAssumption
<1>4. /\ writer'[w].stage = "build" /\ writer'[w].left = entries
      /\ \A v \in Writers \ {w} : writer'[v] = writer[v]
      /\ writer' \in [Writers -> [stage : {"new", "build", "insert", "done"},
                                  left : Seq(Entry), at : Nat]]
  BY <1>2, <1>3 DEF MonthInv, MonthTypeOK
<1>5. MonthTypeOK'
  BY <1>1, <1>4 DEF MonthInv, MonthTypeOK
<1>6. RowsOnOpened'
  BY <1>1, <1>2, <1>3, <1>4 DEF MonthInv, RowsOnOpened
<1>7. CountedOK'
  BY <1>1, CountedStays DEF MonthInv
<1>8. QuietOK'
  BY <1>1, <1>4 DEF MonthInv, QuietOK
<1> QED
  BY <1>5, <1>6, <1>7, <1>8 DEF MonthInv

(* A row that is built now bears the present time. *)
LEMMA BuildInv ==
  ASSUME MonthInv, NEW w \in Writers, BuildTransaction(w)
  PROVE  MonthInv'
<1>1. /\ clock' = clock /\ opened' = opened /\ rows' = rows
      /\ report' = report /\ before' = before /\ quiet' = quiet
  BY DEF BuildTransaction, reportVars
<1>2. /\ writer[w].stage = "build"
      /\ writer' = [writer EXCEPT ![w] = [@ EXCEPT !.stage = "insert", !.at = clock]]
  BY DEF BuildTransaction
<1>3. /\ writer'[w].stage = "insert" /\ writer'[w].left = writer[w].left
      /\ writer'[w].at = clock
      /\ \A v \in Writers \ {w} : writer'[v] = writer[v]
      /\ writer' \in [Writers -> [stage : {"new", "build", "insert", "done"},
                                  left : Seq(Entry), at : Nat]]
  BY <1>2 DEF MonthInv, MonthTypeOK
<1>4. MonthTypeOK'
  BY <1>1, <1>3 DEF MonthInv, MonthTypeOK
<1>5. RowsOnOpened'
  BY <1>1, <1>2, <1>3 DEF MonthInv, RowsOnOpened
<1>6. CountedOK'
  BY <1>1, CountedStays DEF MonthInv
<1>7. QuietOK'
  BY <1>1, <1>3 DEF MonthInv, QuietOK
<1> QED
  BY <1>4, <1>5, <1>6, <1>7 DEF MonthInv

(* A row is inserted, with the time it was built. *)
LEMMA CreateInv ==
  ASSUME MonthInv, NEW w \in Writers, CreateTransaction(w)
  PROVE  MonthInv'
<1> DEFINE entry == Head(writer[w].left)
           left == Tail(writer[w].left)
           row == [by |-> w, nth |-> Len(left), acct |-> entry.acct,
                   amount |-> entry.amount, at |-> writer[w].at]
<1>1. /\ clock' = clock /\ opened' = opened /\ rows' = rows \cup {row}
      /\ report' = report /\ before' = before /\ quiet' = quiet
  BY DEF CreateTransaction, reportVars
<1>2. /\ writer[w].stage = "insert"
      /\ writer' = [writer EXCEPT ![w] =
           [stage |-> IF left = <<>> THEN "done" ELSE "build", left |-> left, at |-> 0]]
  BY DEF CreateTransaction
<1>3. /\ writer[w].left \in Seq(Entry) /\ writer[w].left # <<>>
      /\ writer[w].at \in Nat
      /\ \A i \in DOMAIN writer[w].left : writer[w].left[i].acct \in opened
  BY <1>2 DEF MonthInv, MonthTypeOK, RowsOnOpened
<1>4. /\ entry \in Entry /\ entry.acct \in opened
      /\ left \in Seq(Entry) /\ Len(left) \in Nat
      /\ \A i \in DOMAIN left : left[i].acct \in opened
  BY <1>3
<1>5. row \in Row /\ row.acct \in opened /\ row.at = writer[w].at
  BY <1>3, <1>4 DEF Row, Entry
<1>6. /\ writer'[w].stage \in {"done", "build"} /\ writer'[w].left = left
      /\ writer'[w].stage = "build" => left # <<>>
      /\ \A v \in Writers \ {w} : writer'[v] = writer[v]
      /\ writer' \in [Writers -> [stage : {"new", "build", "insert", "done"},
                                  left : Seq(Entry), at : Nat]]
  <2> HIDE DEF left
  <2> QED
    BY <1>2, <1>4 DEF MonthInv, MonthTypeOK
<1> HIDE DEF entry, left, row
<1>7. MonthTypeOK'
  <2>1. IsFiniteSet(rows \cup {row})
    BY FS_AddElement DEF MonthInv, MonthTypeOK
  <2> QED
    BY <1>1, <1>5, <1>6, <2>1 DEF MonthInv, MonthTypeOK
<1>8. RowsOnOpened'
  BY <1>1, <1>4, <1>5, <1>6 DEF MonthInv, RowsOnOpened
<1>9. CountedOK'
  BY <1>1, CountedStays DEF MonthInv
<1>10. QuietOK'
  BY <1>1, <1>2, <1>5, <1>6 DEF MonthInv, QuietOK
<1> QED
  BY <1>7, <1>8, <1>9, <1>10 DEF MonthInv

(* A writer gives up. *)
LEMMA AbandonInv ==
  ASSUME MonthInv, NEW w \in Writers, Abandon(w)
  PROVE  MonthInv'
<1>1. /\ clock' = clock /\ opened' = opened /\ rows' = rows
      /\ report' = report /\ before' = before /\ quiet' = quiet
      /\ writer' = [writer EXCEPT ![w] = [stage |-> "done", left |-> <<>>, at |-> 0]]
  BY DEF Abandon, reportVars
<1>2. /\ writer'[w].stage = "done"
      /\ \A v \in Writers \ {w} : writer'[v] = writer[v]
      /\ writer' \in [Writers -> [stage : {"new", "build", "insert", "done"},
                                  left : Seq(Entry), at : Nat]]
  BY <1>1 DEF MonthInv, MonthTypeOK
<1>3. MonthTypeOK'
  BY <1>1, <1>2 DEF MonthInv, MonthTypeOK
<1>4. RowsOnOpened'
  BY <1>1, <1>2 DEF MonthInv, RowsOnOpened
<1>5. CountedOK'
  BY <1>1, CountedStays DEF MonthInv
<1>6. QuietOK'
  BY <1>1, <1>2 DEF MonthInv, QuietOK
<1> QED
  BY <1>3, <1>4, <1>5, <1>6 DEF MonthInv

-----------------------------------------------------------------------------
(* The report. *)

(* The report begins: what is there now is what was there before. *)
LEMMA AskInv == MonthInv /\ Ask => MonthInv'
<1> SUFFICES ASSUME MonthInv, Ask PROVE MonthInv'
  OBVIOUS
<1>1. PICK m \in Months :
        /\ report' = [NoReport EXCEPT !.stage = "accounts", !.month = m]
        /\ quiet' = /\ clock >= StartOfMonth(m + 1)
                    /\ \A w \in Writers : writer[w].stage = "insert" =>
                         writer[w].at >= StartOfMonth(m + 1)
  BY DEF Ask
<1>2. /\ clock' = clock /\ opened' = opened /\ rows' = rows /\ writer' = writer
      /\ before' = rows
  BY DEF Ask, bookVars
<1>3. m \in Nat
  BY MonthAssumption
<1>4. report' = [stage |-> "accounts", month |-> m, toRead |-> {}, income |-> 0,
                 expense |-> 0]
  BY <1>1 DEF NoReport
<1>5. MonthTypeOK' /\ RowsOnOpened'
  BY <1>2, <1>3, <1>4 DEF MonthInv, MonthTypeOK, RowsOnOpened
<1>6. CountedOK'
  BY <1>4 DEF CountedOK
<1>7. QuietOK'
  BY <1>1, <1>2, <1>4 DEF QuietOK, StartOfMonth
<1> QED
  BY <1>5, <1>6, <1>7 DEF MonthInv

(* All accounts that are open are to be read: nothing is counted yet. *)
LEMMA GetAccountsInv == MonthInv /\ GetAccountsByUserID => MonthInv'
<1> SUFFICES ASSUME MonthInv, GetAccountsByUserID PROVE MonthInv'
  OBVIOUS
<1>1. /\ clock' = clock /\ opened' = opened /\ rows' = rows /\ writer' = writer
      /\ before' = before /\ quiet' = quiet /\ report.stage = "accounts"
      /\ report' = [report EXCEPT !.stage = "transactions", !.toRead = opened]
  BY DEF GetAccountsByUserID, bookVars
<1>2. /\ report'.stage = "transactions" /\ report'.toRead = opened
      /\ report'.month = report.month /\ report'.income = 0 /\ report'.expense = 0
  BY <1>1 DEF MonthInv, MonthTypeOK, CountedOK
<1>3. MonthTypeOK' /\ RowsOnOpened'
  BY <1>1 DEF MonthInv, MonthTypeOK, RowsOnOpened
<1>4. CountedOK'
  <2>1. Covers({})'
    BY <1>1, <1>2 DEF Covers, MonthInv, MonthTypeOK, RowsOnOpened
  <2>2. Incomes({}) = {} /\ {} \ Incomes({}) = {}
    BY DEF Incomes
  <2>3. AddsUp({})'
    BY <1>2, <2>2, TotalOfNone DEF AddsUp
  <2> QED
    BY <1>2, <2>1, <2>3 DEF CountedOK
<1>5. QuietOK'
  BY <1>1, <1>2 DEF MonthInv, QuietOK
<1> QED
  BY <1>3, <1>4, <1>5 DEF MonthInv

(* The rows of one more account are counted. *)
LEMMA ReadInv == MonthInv /\ ReadTransactions => MonthInv'
<1> SUFFICES ASSUME MonthInv, ReadTransactions PROVE MonthInv'
  OBVIOUS
<1>1. PICK a \in report.toRead :
        LET found == {row \in rows : row.acct = a /\ InMonth(row, report.month)}
            incomes == {row \in found : row.amount > 0}
        IN  report' = [report EXCEPT !.toRead = @ \ {a},
                                     !.income = @ + Total(incomes),
                                     !.expense = @ + Total(found \ incomes)]
  BY DEF ReadTransactions
<1>2. /\ clock' = clock /\ opened' = opened /\ rows' = rows /\ writer' = writer
      /\ before' = before /\ quiet' = quiet /\ report.stage = "transactions"
  BY DEF ReadTransactions, bookVars
<1>f. PICK found \in SUBSET rows :
        found = {row \in rows : row.acct = a /\ InMonth(row, report.month)}
  OBVIOUS
<1>3. PICK counted \in SUBSET rows : Covers(counted) /\ AddsUp(counted)
  BY <1>2 DEF MonthInv, CountedOK
<1>4. /\ found \subseteq rows /\ found \cap counted = {}
      /\ \A row \in found : row.acct = a /\ InMonth(row, report.month)
      /\ \A row \in before : row.acct = a /\ InMonth(row, report.month) => row \in found
  BY <1>3, <1>f DEF Covers, MonthInv, MonthTypeOK
<1>5. report' = [report EXCEPT !.toRead = @ \ {a},
                               !.income = @ + Total(Incomes(found)),
                               !.expense = @ + Total(found \ Incomes(found))]
  BY <1>1, <1>f DEF Incomes
<1>6. /\ \A row \in rows : row.amount \in Int
      /\ IsFiniteSet(rows)
      /\ report \in [stage : {"new", "accounts", "transactions", "done", "failed"},
                     month : Nat, toRead : SUBSET UserAccounts, income : Int, expense : Int]
  BY DEF MonthInv, MonthTypeOK, Row
<1>7. ASSUME NEW some \in SUBSET rows
      PROVE  Total(some) \in Int
  <2>1. IsFiniteSet(some)
    BY <1>6, FS_Subset
  <2>2. \A row \in some : row.amount \in Int
    BY <1>6
  <2> QED
    BY <2>1, <2>2, TotalType
<1>8. Incomes(found) \in SUBSET rows /\ found \ Incomes(found) \in SUBSET rows
  BY <1>4 DEF Incomes
<1>9. /\ Total(Incomes(found)) \in Int
      /\ Total(found \ Incomes(found)) \in Int
  BY <1>7, <1>8
<1>10. /\ report'.stage = "transactions" /\ report'.month = report.month
       /\ report'.toRead = report.toRead \ {a}
       /\ report'.income = report.income + Total(Incomes(found))
       /\ report'.expense = report.expense + Total(found \ Incomes(found))
  BY <1>2, <1>5, <1>6
<1>11. MonthTypeOK' /\ RowsOnOpened'
  <2>1. /\ report.income + Total(Incomes(found)) \in Int
        /\ report.expense + Total(found \ Incomes(found)) \in Int
        /\ report.toRead \ {a} \in SUBSET UserAccounts
    BY <1>6, <1>9
  <2>2. report' \in [stage : {"new", "accounts", "transactions", "done", "failed"},
                     month : Nat, toRead : SUBSET UserAccounts, income : Int,
                     expense : Int]
    BY <1>5, <1>6, <2>1
  <2> QED
    BY <1>2, <2>2 DEF MonthInv, MonthTypeOK, RowsOnOpened
<1>12. CountedOK'
  <2>1. Covers(counted \cup found)'
    BY <1>2, <1>3, <1>4, <1>10 DEF Covers, InMonth
  <2>2. /\ Incomes(counted \cup found) = Incomes(counted) \cup Incomes(found)
        /\ Incomes(counted) \cap Incomes(found) = {}
        /\ (counted \cup found) \ Incomes(counted \cup found)
             = (counted \ Incomes(counted)) \cup (found \ Incomes(found))
        /\ (counted \ Incomes(counted)) \cap (found \ Incomes(found)) = {}
        /\ Incomes(counted) \in SUBSET rows /\ counted \ Incomes(counted) \in SUBSET rows
    BY <1>4 DEF Incomes
  <2>3. ASSUME NEW some \in SUBSET rows, NEW more \in SUBSET rows, some \cap more = {}
        PROVE  Total(some \cup more) = Total(some) + Total(more)
    <3>1. IsFiniteSet(some) /\ IsFiniteSet(more)
      BY <1>6, FS_Subset
    <3>2. \A row \in some \cup more : row.amount \in Int
      BY <1>6
    <3> QED
      BY <2>3, <3>1, <3>2, TotalOfUnion
  <2>4. Total(Incomes(counted \cup found)) = Total(Incomes(counted)) + Total(Incomes(found))
    BY <1>8, <2>2, <2>3
  <2>5. Total((counted \cup found) \ Incomes(counted \cup found))
          = Total(counted \ Incomes(counted)) + Total(found \ Incomes(found))
    BY <1>8, <2>2, <2>3
  <2>6. AddsUp(counted \cup found)'
    BY <1>2, <1>3, <1>10, <2>4, <2>5 DEF AddsUp
  <2> QED
    BY <1>2, <1>4, <1>10, <2>1, <2>6 DEF CountedOK
<1>13. QuietOK'
  BY <1>2, <1>10 DEF MonthInv, QuietOK
<1> QED
  BY <1>11, <1>12, <1>13 DEF MonthInv

(* All accounts are read, and the expenses change their sign. *)
LEMMA AnswerInv == MonthInv /\ Answer => MonthInv'
<1> SUFFICES ASSUME MonthInv, Answer PROVE MonthInv'
  OBVIOUS
<1>1. /\ clock' = clock /\ opened' = opened /\ rows' = rows /\ writer' = writer
      /\ before' = before /\ quiet' = quiet
      /\ report.stage = "transactions" /\ report.toRead = {}
      /\ report' = [report EXCEPT !.stage = "done", !.expense = -@]
  BY DEF Answer, bookVars
<1>2. /\ report'.stage = "done" /\ report'.toRead = {} /\ report'.month = report.month
      /\ report'.income = report.income /\ report'.expense = -report.expense
  BY <1>1 DEF MonthInv, MonthTypeOK
<1>3. MonthTypeOK' /\ RowsOnOpened'
  <2>1. /\ report \in [stage : {"new", "accounts", "transactions", "done", "failed"},
                       month : Nat, toRead : SUBSET UserAccounts, income : Int,
                       expense : Int]
        /\ -report.expense \in Int
    BY DEF MonthInv, MonthTypeOK
  <2>2. report' \in [stage : {"new", "accounts", "transactions", "done", "failed"},
                     month : Nat, toRead : SUBSET UserAccounts, income : Int,
                     expense : Int]
    BY <1>1, <2>1
  <2> QED
    BY <1>1, <2>2 DEF MonthInv, MonthTypeOK, RowsOnOpened
<1>4. CountedOK'
  <2>1. PICK counted \in SUBSET rows : Covers(counted) /\ AddsUp(counted)
    BY <1>1 DEF MonthInv, CountedOK
  <2>2. Covers(counted)'
    BY <1>1, <1>2, <2>1 DEF Covers, InMonth
  <2>3. AddsUp(counted)'
    BY <1>1, <1>2, <2>1 DEF AddsUp
  <2> QED
    BY <1>1, <1>2, <2>2, <2>3 DEF CountedOK
<1>5. QuietOK'
  BY <1>1, <1>2 DEF MonthInv, QuietOK
<1> QED
  BY <1>3, <1>4, <1>5 DEF MonthInv

(* A statement of the report fails. *)
LEMMA FailReportInv == MonthInv /\ FailReport => MonthInv'
<1> SUFFICES ASSUME MonthInv, FailReport PROVE MonthInv'
  OBVIOUS
<1>1. /\ clock' = clock /\ opened' = opened /\ rows' = rows /\ writer' = writer
      /\ before' = before /\ quiet' = quiet
      /\ report' = [stage |-> "failed", month |-> 0, toRead |-> {}, income |-> 0,
                    expense |-> 0]
  BY DEF FailReport, NoReport, bookVars
<1>2. MonthTypeOK' /\ RowsOnOpened'
  BY <1>1 DEF MonthInv, MonthTypeOK, RowsOnOpened
<1> QED
  BY <1>1, <1>2 DEF MonthInv, CountedOK, QuietOK

(* Every step keeps the invariant. *)
LEMMA MonthNextInv == MonthInv /\ [MonthNext]_monthVars => MonthInv'
<1> SUFFICES ASSUME MonthInv, [MonthNext]_monthVars PROVE MonthInv'
  OBVIOUS
<1>1. CASE UNCHANGED monthVars
  <2>1. /\ clock' = clock /\ opened' = opened /\ rows' = rows /\ writer' = writer
        /\ report' = report /\ before' = before /\ quiet' = quiet
    BY <1>1 DEF monthVars, bookVars, reportVars
  <2>2. MonthTypeOK' /\ RowsOnOpened'
    BY <2>1 DEF MonthInv, MonthTypeOK, RowsOnOpened
  <2>3. CountedOK' /\ QuietOK'
    BY <2>1, CountedStays DEF MonthInv, QuietOK
  <2> QED
    BY <2>2, <2>3 DEF MonthInv
<1> QED
  BY <1>1, TickInv, OpenAccountInv, BeginInv, BuildInv, CreateInv, AbandonInv, AskInv,
     GetAccountsInv, ReadInv, AnswerInv, FailReportInv DEF MonthNext, Write

(* Nothing is booked and nothing asked. *)
LEMMA MonthInitInv == MonthInit => MonthInv
<1> SUFFICES ASSUME MonthInit PROVE MonthInv
  OBVIOUS
<1>1. MonthTypeOK
  BY FS_EmptySet DEF MonthInit, MonthTypeOK, NoReport
<1> QED
  BY <1>1 DEF MonthInit, MonthInv, RowsOnOpened, CountedOK, QuietOK, NoReport

-----------------------------------------------------------------------------
(* Theorems. *)

(* What the properties call the rows of the month is what the code counts. *)
LEMMA CountedRows ==
  ASSUME NEW some \in SUBSET Row, NEW m \in Nat
  PROVE  AfterFirstInstant(RowsOfMonth(some, m)) = {row \in some : InMonth(row, m)}
<1>1. \A row \in some : row.at \in Nat
  BY DEF Row
<1>2. ASSUME NEW row \in some
      PROVE  (row.at \div MonthLength = m /\ row.at % MonthLength # 0) <=> InMonth(row, m)
  BY <1>1, MonthAssumption, MonthArithmetic DEF InMonth, StartOfMonth
<1> QED
  BY <1>2 DEF AfterFirstInstant, RowsOfMonth

(* A finished report has counted a set of rows: all those of the month that *)
(* were there before, and only rows of the month.                           *)
LEMMA ReportCounts ==
  ASSUME MonthInv, Reported
  PROVE  LET was == AfterFirstInstant(RowsOfMonth(before, report.month))
             is == AfterFirstInstant(RowsOfMonth(rows, report.month))
         IN  /\ IsFiniteSet(is) /\ \A row \in is : row.amount \in Int
             /\ \E counted \in SUBSET is :
                  /\ was \subseteq counted
                  /\ quiet => counted = is
                  /\ report.income = Income(counted)
                  /\ report.expense = Expense(counted)
<1> DEFINE m == report.month
           was == {row \in before : InMonth(row, m)}
           is == {row \in rows : InMonth(row, m)}
<1>1. /\ report.stage = "done" /\ m \in Nat /\ report.toRead = {}
      /\ rows \subseteq Row /\ before \subseteq rows /\ IsFiniteSet(rows)
      /\ \A row \in rows : row.amount \in Int /\ row.at \in Nat
  BY DEF MonthInv, MonthTypeOK, CountedOK, Reported, Row
<1>2. /\ AfterFirstInstant(RowsOfMonth(before, m)) = was
      /\ AfterFirstInstant(RowsOfMonth(rows, m)) = is
  BY <1>1, CountedRows
<1>3. PICK counted \in SUBSET rows : Covers(counted) /\ AddsUp(counted)
  BY <1>1 DEF MonthInv, CountedOK
<1>4. counted \subseteq is /\ was \subseteq counted
  BY <1>1, <1>3 DEF Covers
<1>5. ASSUME quiet
      PROVE  counted = is
  <2>1. ASSUME NEW row \in is
        PROVE  row \in before
    <3>1. row \notin before => row.at >= StartOfMonth(m + 1)
      BY <1>1, <1>5, <2>1 DEF MonthInv, QuietOK
    <3>2. row.at < StartOfMonth(m + 1) /\ row.at \in Nat /\ m + 1 \in Nat
      BY <1>1, <2>1 DEF InMonth
    <3> QED
      BY <3>1, <3>2, StartType
  <2> QED
    BY <1>4, <2>1
<1>6. IsFiniteSet(counted) /\ \A row \in counted : row.amount \in Int
  BY <1>1, FS_Subset
<1>7. report.income = Income(counted)
  BY <1>1, <1>3 DEF AddsUp, Income, Incomes
<1>8. report.expense = Expense(counted)
  BY <1>1, <1>3, <1>6, ExpenseOfRest DEF AddsUp
<1>9. IsFiniteSet(is) /\ \A row \in is : row.amount \in Int
  <2>1. is \subseteq rows
    OBVIOUS
  <2> QED
    BY <1>1, <2>1, FS_Subset
<1> HIDE DEF m, was, is
<1> QED
  BY <1>2, <1>4, <1>5, <1>7, <1>8, <1>9 DEF m

(* A report taken while any number of writers move money lies between the  *)
(* month as it was when it was asked for and the month as it is.           *)
THEOREM ReportIsBetweenHolds == MonthSpec => []ReportIsBetween
<1>1. MonthInv => ReportIsBetween
  <2> DEFINE was == AfterFirstInstant(RowsOfMonth(before, report.month))
             is == AfterFirstInstant(RowsOfMonth(rows, report.month))
  <2> SUFFICES ASSUME MonthInv, Reported
               PROVE  /\ Income(was) <= report.income /\ report.income <= Income(is)
                      /\ Expense(was) <= report.expense /\ report.expense <= Expense(is)
    BY DEF ReportIsBetween
  <2>1. /\ IsFiniteSet(is) /\ \A row \in is : row.amount \in Int
        /\ \E counted \in SUBSET is : /\ was \subseteq counted
                                      /\ report.income = Income(counted)
                                      /\ report.expense = Expense(counted)
    BY ReportCounts
  <2> HIDE DEF was, is
  <2>2. PICK counted \in SUBSET is : /\ was \subseteq counted
                                     /\ report.income = Income(counted)
                                     /\ report.expense = Expense(counted)
    BY <2>1
  <2>3. Income(counted) <= Income(is) /\ Expense(counted) <= Expense(is)
    BY <2>1, TotalsGrow
  <2>4. Income(was) <= Income(counted) /\ Expense(was) <= Expense(counted)
    <3>1. IsFiniteSet(counted) /\ \A row \in counted : row.amount \in Int
      BY <2>1, FS_Subset
    <3> QED
      BY <2>2, <3>1, TotalsGrow
  <2> QED
    BY <2>2, <2>3, <2>4
<1> QED
  BY <1>1, MonthInitInv, MonthNextInv, PTL DEF MonthSpec

(* A report of a month that was over, with nothing under way that bore its *)
(* date, is final.                                                         *)
THEOREM ReportIsFinalHolds == MonthSpec => []ReportIsFinal
<1>1. MonthInv => ReportIsFinal
  <2> SUFFICES ASSUME MonthInv, Reported, quiet
               PROVE  LET is == AfterFirstInstant(RowsOfMonth(rows, report.month))
                      IN  report.income = Income(is) /\ report.expense = Expense(is)
    BY DEF ReportIsFinal
  <2> QED
    BY ReportCounts
<1> QED
  BY <1>1, MonthInitInv, MonthNextInv, PTL DEF MonthSpec
-----------------------------------------------------------------------------
(* Card numbers: the loop, unfolded. *)

(* How FoldRight computes: it takes away the first digit. *)
IsLoop(d, g) ==
  g = [s \in SUBSET DOMAIN d |->
         IF s = {} THEN [sum |-> 0, double |-> TRUE]
         ELSE AddDigit(d[Min(s)], g[s \ {Min(s)}])]

(* A digit is doubled if the digits after it are even in number. *)
Doubled(s, i) == Cardinality({j \in s : j > i}) % 2 = 0

(* What the loop has come to once it has passed the digits at s. *)
LoopAt(d, s) ==
  [sum |-> SumFunction([i \in s |-> Addend(d[i], Doubled(s, i))]),
   double |-> Cardinality(s) % 2 = 0]

(* The loop of the code is such a fold. *)
LEMMA LoopIsFold ==
  ASSUME NEW d
  PROVE  FoldRight(AddDigit, d, [sum |-> 0, double |-> TRUE])
           = (CHOOSE g : IsLoop(d, g))[DOMAIN d]
BY DEF FoldRight, MapThenFoldSet, IsLoop, AddDigit

(* A set of positions that is not empty has a first one. *)
LEMMA FirstExists ==
  ASSUME NEW S \in SUBSET Int, IsFiniteSet(S), S # {}
  PROVE  Min(S) \in S /\ \A y \in S : Min(S) <= y
<1> DEFINE F == {T \in SUBSET S : T = {} \/ \E x \in T : \A y \in T : x <= y}
<1>1. \A T \in SUBSET S : T # {} /\ (\A x \in T : T \ {x} \in F) => T \in F
  <2> SUFFICES ASSUME NEW T \in SUBSET S, NEW x \in T, T \ {x} \in F
               PROVE  \E z \in T : \A y \in T : z <= y
    OBVIOUS
  <2>1. CASE T \ {x} = {}
    BY <2>1
  <2>2. CASE T \ {x} # {}
    <3>1. PICK z \in T \ {x} : \A y \in T \ {x} : z <= y
      BY <2>2
    <3>2. CASE z <= x
      BY <3>1, <3>2
    <3>3. CASE x <= z
      BY <3>1, <3>3
    <3> QED
      BY <3>1, <3>2, <3>3
  <2> QED
    BY <2>1, <2>2
<1>2. {} \in F
  OBVIOUS
<1>3. S \in F
  <2> HIDE DEF F
  <2> QED
    BY <1>1, <1>2, SubsetInduction
<1> QED
  BY <1>3 DEF Min

(* A digit adds an integer to the sum. *)
LEMMA AddendType ==
  ASSUME NEW digit \in Digits, NEW double
  PROVE  Addend(digit, double) \in Int
BY DEF Addend, Digits

(* One more digit, in front of the others. *)
LEMMA LoopGoesOn ==
  ASSUME NEW d, NEW s, IsFiniteSet(s), s \subseteq Int, s # {},
         \A i \in s : d[i] \in Digits
  PROVE  LoopAt(d, s) = AddDigit(d[Min(s)], LoopAt(d, s \ {Min(s)}))
<1> DEFINE m == Min(s)
           t == s \ {m}
           e == [i \in t |-> Addend(d[i], Doubled(t, i))]
           f == [i \in s |-> Addend(d[i], Doubled(s, i))]
<1>1. IsFiniteSet(s) /\ s \subseteq Int
  OBVIOUS
<1>2. m \in s /\ \A j \in s : m <= j
  BY <1>1, FirstExists
<1> HIDE DEF m
<1>3. IsFiniteSet(t) /\ Cardinality(s) = Cardinality(t) + 1 /\ Cardinality(t) \in Nat
  <2>1. IsFiniteSet(t) /\ Cardinality(t) = Cardinality(s) - 1
    BY <1>1, <1>2, FS_RemoveElement
  <2>2. Cardinality(s) \in Nat /\ Cardinality(t) \in Nat
    BY <1>1, <2>1, FS_CardinalityType
  <2> QED
    BY <2>1, <2>2
<1>4. \A i \in t : {j \in t : j > i} = {j \in s : j > i}
  BY <1>1, <1>2
<1>5. {j \in s : j > m} = t
  <2>1. m \in Int /\ \A j \in s : j \in Int /\ (j > m <=> j # m)
    BY <1>1, <1>2
  <2> QED
    BY <2>1
<1>6. e \in [t -> Int] /\ f \in [s -> Int]
  BY <1>2, AddendType
<1>7. \A i \in t : f[i] = e[i]
  BY <1>4 DEF Doubled
<1>8. f[m] = Addend(d[m], Cardinality(t) % 2 = 0)
  BY <1>2, <1>5 DEF Doubled
<1>9. SumFunction(f) = f[m] + SumFunction(e)
  <2>1. t = s \ {m}
    OBVIOUS
  <2> HIDE DEF e, f, t
  <2>2. \A i \in t : e[i] = f[i]
    BY <1>7
  <2>3. IsFiniteSet(s) /\ f \in [s -> Int] /\ m \in s /\ e \in [t -> Int]
    BY <1>1, <1>2, <1>6
  <2> QED
    BY ONLY <2>1, <2>2, <2>3, SumTakeAway
<1>10. (Cardinality(s) % 2 = 0) = ~(Cardinality(t) % 2 = 0)
  BY <1>3
<1>11. SumFunction(e) \in Int /\ f[m] \in Int
  <2> HIDE DEF e, f, t
  <2> QED
    BY <1>2, <1>3, <1>6, SumIsInt
<1>12. LoopAt(d, t) = [sum |-> SumFunction(e), double |-> Cardinality(t) % 2 = 0]
  BY DEF LoopAt
<1>13. LoopAt(d, s) = [sum |-> SumFunction(f), double |-> Cardinality(s) % 2 = 0]
  BY DEF LoopAt
<1>14. AddDigit(d[m], LoopAt(d, t))
         = [sum |-> SumFunction(e) + f[m], double |-> ~(Cardinality(t) % 2 = 0)]
  <2> HIDE DEF e, f, t
  <2>1. LoopAt(d, t).sum = SumFunction(e) /\ LoopAt(d, t).double = (Cardinality(t) % 2 = 0)
    BY <1>12
  <2> QED
    BY <1>8, <2>1 DEF AddDigit
<1> HIDE DEF e, f, t
<1>15. LoopAt(d, s) = AddDigit(d[m], LoopAt(d, t))
  BY <1>9, <1>10, <1>11, <1>13, <1>14
<1> QED
  BY <1>15 DEF m, t

(* The check digit, from the sum over all digits. *)
LEMMA ChecksumOfSum ==
  ASSUME NEW n \in Nat, NEW d \in [1 .. n -> Digits]
  PROVE  calculateLuhnChecksum(d)
           = CheckDigit(SumFunction([i \in 1 .. n |-> Addend(d[i], (n - i) % 2 = 0)]))
<1> DEFINE h == [s \in SUBSET (1 .. n) |-> LoopAt(d, s)]
           c == CHOOSE g : IsLoop(d, g)
           F == {s \in SUBSET (1 .. n) : c[s] = h[s]}
<1>1. IsFiniteSet(1 .. n) /\ DOMAIN d = 1 .. n
  BY FS_Interval
<1>2. LoopAt(d, {}) = [sum |-> 0, double |-> TRUE]
  <2> DEFINE z == [i \in {} |-> Addend(d[i], Doubled({}, i))]
  <2>1. z \in [{} -> Int]
    OBVIOUS
  <2>2. SumFunction(z) = 0
    <3> HIDE DEF z
    <3> QED
      BY <2>1, SumOfNone
  <2>3. Cardinality({}) % 2 = 0
    BY FS_EmptySet
  <2> QED
    BY <2>2, <2>3 DEF LoopAt
<1>3. IsLoop(d, h)
  <2>1. ASSUME NEW s \in SUBSET (1 .. n)
        PROVE  h[s] = IF s = {} THEN [sum |-> 0, double |-> TRUE]
                      ELSE AddDigit(d[Min(s)], h[s \ {Min(s)}])
    <3>1. IsFiniteSet(s)
      BY <1>1, FS_Subset
    <3>2. s \subseteq Int /\ \A i \in s : d[i] \in Digits
      OBVIOUS
    <3> QED
      BY <1>2, <3>1, <3>2, LoopGoesOn
  <2>2. h = [s \in SUBSET (1 .. n) |-> h[s]]
    OBVIOUS
  <2> HIDE DEF h
  <2> QED
    BY <1>1, <2>1, <2>2 DEF IsLoop
<1>4. IsLoop(d, c)
  <2> HIDE DEF h
  <2> QED
    BY <1>3
<1> HIDE DEF c
<1>5. {} \in F
  BY <1>1, <1>2, <1>4 DEF IsLoop
<1>6. \A s \in SUBSET (1 .. n) : s # {} /\ (\A x \in s : s \ {x} \in F) => s \in F
  <2> SUFFICES ASSUME NEW s \in SUBSET (1 .. n), s # {}, \A x \in s : s \ {x} \in F
               PROVE  c[s] = h[s]
    OBVIOUS
  <2>1. Min(s) \in s
    <3>1. IsFiniteSet(s)
      BY <1>1, FS_Subset
    <3>2. s \in SUBSET Int
      OBVIOUS
    <3> QED
      BY <3>1, <3>2, FirstExists
  <2>2. c[s] = AddDigit(d[Min(s)], c[s \ {Min(s)}])
    BY <1>1, <1>4 DEF IsLoop
  <2>3. c[s \ {Min(s)}] = LoopAt(d, s \ {Min(s)})
    BY <2>1
  <2> QED
    <3>1. IsFiniteSet(s)
      BY <1>1, FS_Subset
    <3>2. s \subseteq Int /\ \A i \in s : d[i] \in Digits
      OBVIOUS
    <3>3. LoopAt(d, s) = AddDigit(d[Min(s)], LoopAt(d, s \ {Min(s)}))
      BY <3>1, <3>2, LoopGoesOn
    <3> QED
      BY <2>2, <2>3, <3>3
<1>7. 1 .. n \in F
  <2> HIDE DEF F
  <2>1. SUBSET (1 .. n) \subseteq F
    BY <1>1, <1>5, <1>6, SubsetInduction
  <2> QED
    BY <2>1
<1>8. c[1 .. n] = LoopAt(d, 1 .. n)
  BY <1>7
<1>9. \A i \in 1 .. n : Doubled(1 .. n, i) = ((n - i) % 2 = 0)
  <2> SUFFICES ASSUME NEW i \in 1 .. n PROVE Cardinality({j \in 1 .. n : j > i}) = n - i
    BY DEF Doubled
  <2>1. {j \in 1 .. n : j > i} = i + 1 .. n
    OBVIOUS
  <2>2. Cardinality(i + 1 .. n) = n - (i + 1) + 1
    BY FS_Interval
  <2>3. n - (i + 1) + 1 = n - i
    OBVIOUS
  <2>4. Cardinality({j \in 1 .. n : j > i}) = Cardinality(i + 1 .. n)
    BY <2>1
  <2> QED
    BY <2>2, <2>3, <2>4
<1>10. [i \in 1 .. n |-> Addend(d[i], Doubled(1 .. n, i))]
         = [i \in 1 .. n |-> Addend(d[i], (n - i) % 2 = 0)]
  BY <1>9
<1>11. FoldRight(AddDigit, d, [sum |-> 0, double |-> TRUE]) = c[1 .. n]
  BY <1>1, LoopIsFold DEF c
<1> QED
  BY <1>8, <1>10, <1>11 DEF calculateLuhnChecksum, LoopAt

-----------------------------------------------------------------------------
(* Card numbers: the definition of Luhn. *)

(* The digits of a double, added up, are what the loop adds. *)
LEMMA DoubledDigit ==
  ASSUME NEW x \in Digits
  PROVE  DigitSum(2 * x) = Addend(x, TRUE) /\ DigitSum(2 * x) \in Digits
BY DEF DigitSum, Addend, Digits

(* The check digit makes a sum a multiple of ten. *)
LEMMA CheckDigitFits ==
  ASSUME NEW sum \in Int
  PROVE  CheckDigit(sum) \in Digits /\ (CheckDigit(sum) + sum) % 10 = 0
BY DEF CheckDigit, Digits

DrawInv ==
  /\ base \in Bases
  /\ number = <<>> \/ number = Append(base, calculateLuhnChecksum(base))

LEMMA DrawInvHolds == DrawSpec => []DrawInv
<1>1. DrawInit => DrawInv
  BY DEF DrawInit, DrawInv
<1>2. DrawInv /\ [Generate]_<<base, number>> => DrawInv'
  BY DEF DrawInv, Generate, generateLuhnCardNumber
<1> QED
  BY <1>1, <1>2, PTL DEF DrawSpec

(* A sequence of a known length is a table. *)
LEMMA SequenceIsTable ==
  ASSUME NEW k, NEW q, k \in Nat, q \in Seq(Digits), Len(q) = k
  PROVE  q \in [1 .. k -> Digits]
BY DEF Digits

(* SumTakeAway for values that are known by their facts alone. *)
LEMMA SumWithout ==
  ASSUME NEW S, NEW T, NEW x, NEW f, NEW e,
         IsFiniteSet(S), f \in [S -> Int], T = S \ {x}, x \in S,
         e \in [T -> Int], \A y \in T : e[y] = f[y]
  PROVE  SumFunction(f) = f[x] + SumFunction(e)
BY SumTakeAway

(* A generated number is one of digits, which Luhn accepts. *)
LEMMA GeneratedNumber ==
  ASSUME DrawInv, number # <<>>
  PROVE  /\ number \in [1 .. BaseLength + 1 -> Digits] /\ Len(number) = BaseLength + 1
         /\ LuhnValid(number)
<1> DEFINE n == BaseLength
           c == calculateLuhnChecksum(base)
           e == [i \in 1 .. n |-> Addend(base[i], (n - i) % 2 = 0)]
           w == [pos \in 1 .. n + 1 |-> Weight(number, pos)]
<1>1. n \in Nat /\ base \in [1 .. n -> Digits] /\ number = Append(base, c)
  BY LengthAssumption DEF DrawInv, Bases
<1>2. c = CheckDigit(SumFunction(e))
  BY <1>1, ChecksumOfSum
<1>3. e \in [1 .. n -> Int] /\ IsFiniteSet(1 .. n)
  BY <1>1, AddendType, FS_Interval
<1>4. SumFunction(e) \in Int
  <2> HIDE DEF e
  <2> QED
    BY <1>3, SumIsInt
<1>5. c \in Digits /\ (c + SumFunction(e)) % 10 = 0
  <2> HIDE DEF c, e
  <2> QED
    BY <1>2, <1>4, CheckDigitFits
<1>6. base \in Seq(Digits) /\ Len(base) = n
  BY <1>1
<1> HIDE DEF c
<1>7. /\ number \in [1 .. n + 1 -> Digits] /\ Len(number) = n + 1
      /\ number[n + 1] = c /\ \A i \in 1 .. n : number[i] = base[i]
  <2>1. number \in Seq(Digits) /\ Len(number) = n + 1
    BY <1>1, <1>5, <1>6
  <2>2. number[n + 1] = c /\ \A i \in 1 .. n : number[i] = base[i]
    BY <1>1, <1>5, <1>6
  <2>3. n + 1 \in Nat
    BY <1>1
  <2>4. number \in [1 .. n + 1 -> Digits]
    <3> DEFINE k == n + 1
    <3>1. k \in Nat /\ number \in Seq(Digits) /\ Len(number) = k
      BY <2>1, <2>3
    <3> HIDE DEF k
    <3>2. number \in [1 .. k -> Digits]
      BY ONLY <3>1, SequenceIsTable
    <3> QED
      BY ONLY <3>2 DEF k
  <2> QED
    BY <2>1, <2>2, <2>4
<1>8. w[n + 1] = c
  BY <1>1, <1>7 DEF Weight
<1>9. \A i \in 1 .. n : w[i] = e[i]
  <2> SUFFICES ASSUME NEW i \in 1 .. n PROVE w[i] = e[i]
    OBVIOUS
  <2>1. base[i] \in Digits /\ i \in 1 .. n + 1
    BY <1>1
  <2>2. ((n + 1) - i) % 2 = 1 <=> (n - i) % 2 = 0
    BY <1>1
  <2>3. DigitSum(2 * base[i]) = Addend(base[i], TRUE)
    BY <2>1, DoubledDigit
  <2> QED
    BY <1>7, <2>1, <2>2, <2>3 DEF Weight, Addend
<1>10. SumFunction(w) = w[n + 1] + SumFunction(e)
  <2>1. ASSUME NEW pos \in 1 .. n + 1
        PROVE  w[pos] \in Int
    <3>1. pos \in 1 .. n \/ pos = n + 1
      BY <1>1
    <3> QED
      BY <1>3, <1>5, <1>8, <1>9, <3>1 DEF Digits
  <2> DEFINE S == 1 .. n + 1
             T == 1 .. n
             x == n + 1
  <2>2. w \in [S -> Int]
    BY <2>1
  <2>3. T = S \ {x} /\ x \in S
    BY <1>1
  <2>4. IsFiniteSet(S)
    BY <1>1, FS_Interval
  <2>5. e \in [T -> Int] /\ \A y \in T : e[y] = w[y]
    BY <1>3, <1>9
  <2> HIDE DEF w, e, S, T, x
  <2>6. SumFunction(w) = w[x] + SumFunction(e)
    BY ONLY <2>2, <2>3, <2>4, <2>5, SumWithout
  <2> QED
    BY <2>6 DEF x
<1>11. SumFunction([pos \in DOMAIN number |-> Weight(number, pos)]) = SumFunction(w)
  BY <1>7
<1> HIDE DEF e, w
<1>12. SumFunction([pos \in DOMAIN number |-> Weight(number, pos)]) % 10 = 0
  BY <1>5, <1>8, <1>10, <1>11
<1> QED
  BY <1>7, <1>12 DEF LuhnValid

(* For numbers of any length: the loop of the code, which runs from the    *)
(* right and toggles a flag, makes numbers that the Luhn algorithm accepts.*)
THEOREM GeneratedIsValidHolds == DrawSpec => []GeneratedIsValid
<1>1. DrawInv => GeneratedIsValid
  <2> SUFFICES ASSUME DrawInv, number # <<>>
               PROVE  (\A pos \in DOMAIN number : number[pos] \in Digits) /\ LuhnValid(number)
    BY DEF GeneratedIsValid
  <2> QED
    BY GeneratedNumber
<1> QED
  BY <1>1, DrawInvHolds, PTL
=============================================================================
