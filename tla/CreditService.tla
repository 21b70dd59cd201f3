---------------------------- MODULE CreditService ----------------------------
(***************************************************************************)
(* Loans: the tables credits and payment_schedules, the request that       *)
(* grants a loan, and ProcessMonthlyPayment, which collects one            *)
(* installment.                                                            *)
(*                                                                         *)
(* Unlike the requests of AccountService, these operations pass the SQL    *)
(* transaction on to their repositories, so they take effect as a whole,   *)
(* at COMMIT, or not at all.  PostgreSQL runs them READ COMMITTED: the     *)
(* payment reads the balance without locking the row, and the row is       *)
(* locked only from its UPDATE to the end of the transaction.              *)
(*                                                                         *)
(* Money is whole kopecks, in amounts that float64 holds exactly.  A day   *)
(* is the unit of time and, to keep the models small, installments fall    *)
(* due one day apart.                                                      *)
(***************************************************************************)
EXTENDS Integers, Sequences, FiniteSetsExt

CONSTANTS
  Accounts,      \* accounts loans are taken on; they exist from the start
  Owner,         \* the user each account belongs to
  CreditIds,     \* primary keys the table credits can hold
  Applications,  \* what clients apply for
  MaxBalance,    \* bound on the balances of these models
  MaxFines,      \* fines beyond this many on one row are not told apart
  Horizon,       \* the last day of these models
  NoCredit       \* a credit id without a row

Borrowers == {Owner[a] : a \in Accounts}
Statuses == {"active", "overdue", "paid"}

(* interest is what a client pays on top of the loan over its whole term;  *)
(* nobody refuses a negative rate.  residue is the difference between the  *)
(* last installment and the others: the last one is what subtracting the   *)
(* others leaves in float64, which may round to another kopeck, and to     *)
(* many of them where a high rate and a long term amplify the error.       *)
Application ==
  [acct : Accounts, amount : Int, interest : Int, term : Int, residue : Int]

Credit == [owner : Borrowers, acct : Accounts, granted : Nat,
           outstanding : Int, status : Statuses, closed : BOOLEAN, since : Nat]

Installment == [due : Int, paid : Nat, isPaid : BOOLEAN, fines : 0 .. MaxFines]

ASSUME CreditAssumption ==
  /\ MaxBalance \in Nat
  /\ MaxFines \in Nat \ {0}
  /\ Horizon \in Nat
  /\ Applications \subseteq Application
  /\ NoCredit \notin Credit

VARIABLES
  balance,    \* accounts.balance
  credit,     \* the table credits
  schedule,   \* the table payment_schedules: the rows of each credit, by due date
  grants,     \* the credits granted to each borrower, the newest first
  collected,  \* the total of the credit_payment rows each credit has caused
  now,        \* today
  payment     \* ProcessMonthlyPayment: its progress and its result

creditVars == <<balance, credit, schedule, grants, collected, now, payment>>

Stages == {"idle", "read", "debit", "settle", "ok", "insufficient", "failed"}

NoPayment == [stage |-> "idle", credit |-> NoCredit, amount |-> 0, seen |-> 0]

-----------------------------------------------------------------------------
(* Granting a loan.                                                        *)

(* n / d kopecks in a column NUMERIC(18,2): a half goes away from zero. *)
Rounded(n, d) ==
  IF n >= 0 THEN (2 * n + d) \div (2 * d) ELSE -((d - 2 * n) \div (2 * d))

(* The annuity, the n-th part of loan and interest, is the amount of every *)
(* installment but the last.                                               *)
AmountDue(app, i) ==
  Rounded(app.amount + app.interest, app.term)
    + (IF i = app.term THEN app.residue ELSE 0)

Unpaid(due) == [due |-> due, paid |-> 0, isPaid |-> FALSE, fines |-> 0]

(* The handler admits the owner of the account only. *)
Applicant(app) == Owner[app.acct]

CreateCredit(k, row) ==
  /\ credit' = [credit EXCEPT ![k] = row]
  /\ grants' = [grants EXCEPT ![row.owner] = <<k>> \o @]

(* The credit and its whole schedule are one transaction.  The amount is   *)
(* not paid out to the account.                                            *)
ApplyForCredit(k) ==
  /\ credit[k] = NoCredit
  /\ \E app \in Applications :
       /\ app.amount > 0
       /\ app.term > 0
       /\ CreateCredit(k,
            [owner |-> Applicant(app), acct |-> app.acct, granted |-> app.amount,
             outstanding |-> app.amount, status |-> "active", closed |-> FALSE,
             since |-> now])
       /\ schedule' = [schedule EXCEPT ![k] =
                         [i \in 1 .. app.term |-> Unpaid(AmountDue(app, i))]]
  /\ UNCHANGED <<balance, collected, now, payment>>

(* The repositories.  UPDATE credits writes the three columns that change. *)
UpdateCredit(k, row) ==
  credit' = [credit EXCEPT ![k].status = row.status,
                           ![k].outstanding = row.outstanding,
                           ![k].closed = row.closed]

GetCreditByID(k) == credit[k]

GetPaymentSchedulesByCreditID(k) == schedule[k]

UpdatePaymentSchedule(k, i, row) == schedule' = [schedule EXCEPT ![k][i] = row]

GetCreditsByUserID(user) == IF user \in Borrowers THEN grants[user] ELSE <<>>

DueDate(k, i) == credit[k].since + i

-----------------------------------------------------------------------------
(* ProcessMonthlyPayment.                                                  *)

(* Without an amount it is turned down before the transaction begins. *)
BeginPayment(k, amount) ==
  payment' = [stage |-> IF amount > 0 THEN "read" ELSE "failed",
              credit |-> k, amount |-> amount, seen |-> 0]

Paying(stage) == payment.stage = stage

(* Mutant: the balance is not compared with the amount. *)
ReadForPaymentUnchecked ==
  /\ Paying("read")
  /\ payment' = [payment EXCEPT !.stage = "debit",
                               !.seen = balance[credit[payment.credit].acct]]
  /\ UNCHANGED <<balance, credit, schedule, grants, collected, now>>

ReadForPayment ==
  LET c == GetCreditByID(payment.credit)
  IN  /\ Paying("read")
      /\ IF balance[c.acct] < payment.amount
         THEN payment' = [payment EXCEPT !.stage = "insufficient"]
         ELSE payment' = [payment EXCEPT !.stage = "debit", !.seen = balance[c.acct]]
      /\ UNCHANGED <<balance, credit, schedule, grants, collected, now>>

(* UPDATE accounts inside the transaction: the row is locked, the new      *)
(* balance is not visible yet.                                             *)
DebitAccount ==
  /\ Paying("debit")
  /\ payment' = [payment EXCEPT !.stage = "settle"]
  /\ UNCHANGED <<balance, credit, schedule, grants, collected, now>>

Locked(a) == Paying("settle") /\ credit[payment.credit].acct = a

(* Mutant: paid installments are not passed over. *)
PayableAgain(k) == {i \in DOMAIN schedule[k] : DueDate(k, i) <= now + 1}

(* The unpaid installments that are due before this time tomorrow; a due   *)
(* date is the midnight its day begins with.                               *)
Payable(k) ==
  LET rows == GetPaymentSchedulesByCreditID(k)
  IN  {i \in DOMAIN rows : ~rows[i].isPaid /\ DueDate(k, i) <= now + 1}

(* Mutant: the latest payable installment is paid first. *)
TargetLast(k) == Max(Payable(k))

Target(k) == Min(Payable(k))

(* Mutant: the fine survives the payment. *)
PayInstallmentKeepFine(row, amount) ==
  [row EXCEPT !.paid = @ + amount, !.isPaid = row.paid + amount >= row.due]

(* The amount may be that of another installment, and fall short. *)
PayInstallment(row, amount) ==
  [row EXCEPT !.paid = @ + amount, !.isPaid = row.paid + amount >= row.due, !.fines = 0]

(* Mutant: a credit is closed with a kopeck left. *)
ReduceDebtEarly(c, amount) ==
  IF c.outstanding - amount <= 1
  THEN [c EXCEPT !.outstanding = 0, !.status = "paid", !.closed = TRUE]
  ELSE [c EXCEPT !.outstanding = @ - amount]

(* The whole payment, interest included, is taken off the debt. *)
ReduceDebt(c, amount) ==
  IF c.outstanding - amount <= 0
  THEN [c EXCEPT !.outstanding = 0, !.status = "paid", !.closed = TRUE]
  ELSE [c EXCEPT !.outstanding = @ - amount]

(* The statements after the debit touch rows nobody else writes; they take *)
(* effect together with it at COMMIT.  The payment goes to the earliest    *)
(* payable installment, whichever one it was asked for.  A COMMIT that     *)
(* took effect may be reported as failed.                                  *)
SettlePayment ==
  LET k == payment.credit
      c == credit[k]
      amount == payment.amount
  IN  /\ Paying("settle")
      /\ balance' = [balance EXCEPT ![c.acct] = payment.seen - amount]
      /\ UpdateCredit(k, ReduceDebt(c, amount))
      /\ IF Payable(k) = {} THEN UNCHANGED schedule
         ELSE UpdatePaymentSchedule(k, Target(k), PayInstallment(schedule[k][Target(k)], amount))
      /\ collected' = [collected EXCEPT ![k] = @ + amount]
      /\ \E result \in {"ok", "failed"} :
           payment' = [payment EXCEPT !.stage = result, !.seen = 0]
      /\ UNCHANGED <<grants, now>>

(* Mutant: the transactions row is written over the pool and survives the  *)
(* rollback.                                                               *)
FailPaymentBooked ==
  /\ payment.stage \in {"read", "debit", "settle"}
  /\ payment' = [payment EXCEPT !.stage = "failed", !.seen = 0]
  /\ collected' = IF payment.stage = "settle"
                  THEN [collected EXCEPT ![payment.credit] = @ + payment.amount]
                  ELSE collected
  /\ UNCHANGED <<balance, credit, schedule, grants, now>>

(* A statement fails: the deferred Rollback undoes the transaction. *)
FailPayment ==
  /\ payment.stage \in {"read", "debit", "settle"}
  /\ payment' = [payment EXCEPT !.stage = "failed", !.seen = 0]
  /\ UNCHANGED <<balance, credit, schedule, grants, collected, now>>

-----------------------------------------------------------------------------
(* The rest of the bank.                                                   *)

(* Requests of AccountService store any balance, except while the payment  *)
(* holds the row.                                                          *)
UpdateAccount(a) ==
  /\ ~Locked(a)
  /\ \E b \in 0 .. MaxBalance : balance' = [balance EXCEPT ![a] = b]
  /\ UNCHANGED <<credit, schedule, grants, collected, now, payment>>
Day ==
  /\ now < Horizon
  /\ now' = now + 1
  /\ UNCHANGED <<balance, credit, schedule, grants, collected, payment>>

CreditInit ==
  /\ balance \in [Accounts -> 0 .. MaxBalance]
  /\ credit = [k \in CreditIds |-> NoCredit]
  /\ schedule = [k \in CreditIds |-> <<>>]
  /\ grants = [user \in Borrowers |-> <<>>]
  /\ collected = [k \in CreditIds |-> 0]
  /\ now = 0
  /\ payment = NoPayment
-----------------------------------------------------------------------------
Loans == {k \in CreditIds : credit[k] # NoCredit}

(* Every credit is listed once, with its owner. *)
GrantsOK ==
  /\ grants \in [Borrowers -> Seq(Loans)]
  /\ \A user \in Borrowers :
       /\ {grants[user][i] : i \in DOMAIN grants[user]} = {k \in Loans : credit[k].owner = user}
       /\ \A i, j \in DOMAIN grants[user] : grants[user][i] = grants[user][j] => i = j

CreditTypeOK ==
  /\ balance \in [Accounts -> 0 .. MaxBalance]
  /\ credit \in [CreditIds -> Credit \cup {NoCredit}]
  /\ \A k \in Loans : schedule[k] \in Seq(Installment) /\ schedule[k] # <<>>
  /\ GrantsOK
  /\ collected \in [CreditIds -> Nat]
  /\ now \in 0 .. Horizon
  /\ payment \in [stage : Stages, credit : CreditIds \cup {NoCredit},
                 amount : Int, seen : Nat]
=============================================================================
