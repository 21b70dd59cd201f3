# A formal model of GoBank

`src/bank-service` is a bank written in Go: an HTTP server (gorilla/mux) over
PostgreSQL, with accounts, cards, loans, analytics, e-mail notifications and a
scheduler that collects loan installments. The repository has no tests. What
it promises is said in `src/README.md` (in Russian), in comments and in error
messages. This directory holds TLA+ modules translated from the Go code and
the SQL schema, the TLC configurations that check them, and TLAPS proofs.

## 1. The system

| Component | State | Operations | Interacts with |
|---|---|---|---|
| `AccountService` (`account_service.go`, account and transaction repositories) | tables `accounts`, `transactions` | CreateAccount, Deposit, Withdraw, Transfer, lookups | called by one goroutine per HTTP request; e-mails after a commit |
| HTTP handlers (`handler.go`) | none | parse, check the owner, call a service, answer | all services |
| `CreditService` (`credit_service.go`, credit and schedule repositories) | `credits`, `payment_schedules`, also `accounts`, `transactions` | ApplyForCredit, GetCreditSchedule, ProcessMonthlyPayment | called by requests and by the scheduler; the central bank for the rate |
| `SchedulerService` (`scheduler_service.go`) | a ticker, copies of rows during a sweep | Start, Stop, processOverduePayments | CreditService, repositories, notifications |
| `CardService` (`card_service.go`) | `cards` (PGP ciphertext, HMAC, bcrypt hash) | create, list, get, delete, verify the CVV | called by requests |
| `AuthService`, `AuthMiddleware` | `users`, signed tokens | register, login, validate | every protected route |
| `AnalyticsService` | none | monthly income and expense, credit load, balance forecast | reads all tables |
| `NotificationService` | none | SendEmail with a 30 s timeout | SMTP, in goroutines nobody waits for |
| `CentralBankService` | none | GetKeyRate (one SOAP call) | the Bank of Russia |
| repositories, `db.go`, `init.sql` | connection pool | one SQL statement each | PostgreSQL |
| `main.go`, `config.go` | none | wiring, start, shutdown | all |

### What is hard in this code

* **Autocommit.** `main.go:42-47` builds the repositories over the pool.
  Deposit, Withdraw and Transfer call `BeginTx`, and then use these
  repositories: nothing is ever executed on the transaction. Each statement
  commits by itself, `tx.Rollback()` undoes nothing, and requests interleave
  between any two statements. `CreditService` does it differently: it builds
  repositories over its transaction, so a loan or an installment is atomic.
* **Read, compute, overwrite.** `UpdateAccount` stores a number computed from
  an earlier `SELECT` without a lock. So does the installment payment, even
  inside its transaction (READ COMMITTED).
* **Failure half-way.** A transfer is seven statements. Any of them may fail
  (connection, cancelled request context, overflow of `NUMERIC(18,2)`), and the
  process may die between two of them. A statement may have taken effect
  although an error is reported.
* **Stale copies.** A sweep of the scheduler reads all credits at its
  beginning and writes whole rows back from these copies.
* **A payment picks its own target.** `ProcessMonthlyPayment` is asked to pay
  for the installment that is visited and pays the earliest payable one.
* **Rounding and interest.** Installments are rounded to kopecks; the last one
  is computed apart and may differ from the others, so a payment may fall short
  of the row it goes to; the whole installment, interest included, is subtracted
  from a debt that started without interest.
* **Money is float64.** Halves of a kopeck are rounded twice, and large sums
  lose kopecks or whole roubles.
* **Time.** `due_date` is a `DATE`: an installment is overdue from the first
  instant of its day. Sweeps are twelve hours apart.
* **Two writers of one table.** An installment is a transaction that locks the
  account from its UPDATE to its COMMIT, but it has read the balance before.
  The statements of requests go in between.
* **Two connections per request.** The idle transaction of a request keeps one
  connection while each of its statements takes another one.
* **Lifetimes.** `main` does not wait for the scheduler or for notification
  goroutines when it stops. An e-mail is sent by a goroutine that cannot be
  interrupted, while `SendEmail` waits 30 seconds for it.
* **Check, then act.** The owner of a card or an account is looked up by a
  statement of its own, and the row may be deleted before it is used. Tokens
  outlive the requests that obtained them.
* **Reports of several statements.** The monthly report and the forecast read
  table after table, row set after row set, while money moves.

### What makes each component correct

* Accounts: no overdraft; unique numbers; only the owner's requests take money
  out; the answer to a request agrees with what was recorded; a receipt never
  stands without its debit; balances equal the sum of their transactions.
* Loans: money collected = what the rows have been paid; settled in order, and
  never paid again once settled; the debt covers what is not repaid.
* Scheduler: fines only current copies of rows; fines stand only on overdue, unpaid
  rows; what is overdue and funded is collected in the end.
* Cards: they appear and disappear only by requests of the account's owner; of
  two deletions one succeeds; a deletion before the comparison of a CVV is
  noticed; generated numbers satisfy Luhn.
* Auth: one user per name and per e-mail; an accepted registration stands; a
  request is admitted only while a login with the right password is fresh.
* Notifications: a reported success is true, no job waits for ever, no
  goroutine is leaked.
* Process: a signal always ends it.
* Analytics: a report lies between what was there when it was asked for and
  what is there when it is answered; a forecast charges no installment twice
  and misses none that is not being collected.

`PROJECT.json` lists the hazards at their lines with the properties that cover
them, and says of each one that none covers why.

## 2. The modules

```
AccountService -- AccountAudit -- MCAccounts
   |                  |
   |                  +-- Bank (INSTANCE SchedulerService) -- MCBank
   +-- AccountAtomicity (INSTANCE BankLedger) -- MCAtomicity
   +-- ConnectionUse -- MCConnections

CreditService -- SchedulerService (INSTANCE LoanBook) -- MCCredits
                       |
                       +-- BalanceForecast -- MCForecast

NotificationService -- Server -- MCServer

AuthService -- Gateway (INSTANCE CardService) -- MCGateway

Amounts, IncomeExpense, Luhn -- MCFigures
```

A line is EXTENDS, from left to right. `LoanBook` and `BankLedger` are abstract
specifications; all other modules are translated from the code. The proofs are
in modules of their own:

| Proofs | About | Rest on |
|---|---|---|
| `FiniteSums` | sums over finite sets | nothing |
| `AccountServiceProofs` | `AccountService`, `AccountAtomicity`, `ConnectionUse` | `FiniteSums` |
| `SchedulerServiceProofs` | `CreditService`, `SchedulerService` | `FiniteSums` |
| `BankProofs` | `AccountAudit`, `Bank` | `FiniteSums`, `AccountServiceProofs`, and `SchedulerServiceProofs` by INSTANCE |
| `ForecastProofs` | `BalanceForecast` | `SchedulerServiceProofs` |
| `ServerProofs` | `NotificationService`, `Server` | nothing |
| `GatewayProofs` | `AuthService`, `CardService`, `Gateway` | nothing |
| `FiguresProofs` | `Amounts`, `IncomeExpense`, `Luhn` | `FiniteSums` |

### AccountService

One variable per table (`account`, `ledger`) and per local of the goroutines
(`call`: the parsed request, `pc`: the statement it executes next, `seen`: the
balances it has read, `reply`: the answer). An action is one SQL statement
with the code up to the next one:

| Action | Code |
|---|---|
| `CreateAccountHandler`, `CheckNumber`, `InsertAccount` | CreateAccountHandler; the lookup and the INSERT of CreateAccount |
| `MoneyHandler` | parsing and the check of the amount in the Deposit, Withdraw and Transfer handlers |
| `Authorize` | the handler's SELECT of the account, its ownership check; Transfer's check for one and the same account |
| `ReadAccount`, `ReadPeer` | the SELECTs of the service and the checks after them |
| `WriteAccount`, `WritePeer` | the UPDATEs (an overflow of the column is an error) |
| `RecordAccount`, `RecordPeer` | the INSERTs into `transactions` |
| `Commit` | COMMIT of the empty transaction and the answer |
| `Fail` | any error return |
| `Crash` | the process dies |

Choices that need a word:

* `BeginTx` changes nothing anybody can see, so it is part of the step that
  follows; its failure is that step's failure. A statement that took effect
  but is reported as failed is the failure of the *next* statement. Two cases
  have no next statement: `InsertAccount` answers "error" itself, and a COMMIT
  that is reported as failed is `Fail` at label `commit`.
* Amounts are whole kopecks here; fractions are the business of `Amounts`.
* A row of the ledger carries the request that wrote it (`req`) instead of a
  random id and a timestamp. One request writes at most one row per account, so
  the ledger may be a set. `amount` is signed as the code stores it.
* `Opening` is the table before the modelled requests start. Its balances came
  from earlier deposits, which are in the initial ledger.
* Accounts are never deleted: the repository's DeleteAccount has no caller.
  CreateAccount accepts only RUB, hence an opening table of RUB accounts only;
  the check for different currencies in Transfer is in the model and never
  refuses.
* A transfer to an unknown account answers "error", not "not_found": the
  handler looks for the text "destination account not found", and the service's
  error reads "failed to retrieve destination account: account with ID ...".

### AccountAudit

Adds a history variable, `tainted`: the accounts on which a stale write or an
abandoned write (a failure between writing a balance and recording it) has
happened. With it the double-entry property can be stated exactly: it holds
on all other accounts at every moment, requests in flight included.

### BankLedger and AccountAtomicity

`BankLedger` is what a bank promises: money moves in single steps that change
the funds and book the rows that explain the change. `AccountService` does not
implement it, as `accounts_lost_update` shows. `AccountAtomicity` says under
which conditions it does: a request enters its reading phase only when no other
request is engaged on its accounts (`Alone`), a transfer finds room in the
destination's column (`Room`), and whatever fails, fails before the first
UPDATE. The refinement mapping lets an operation take effect at COMMIT: until
then the abstract funds of its accounts are those it has read, and its rows are
not booked.

### Amounts

The fractions `AccountService` leaves out. Amounts are tenths of a kopeck,
columns are kopecks. PostgreSQL rounds the recorded amount and the new balance
separately, half away from zero; a new balance that is a sum of floats may fall
a bit below the half. `halvesIn` and `halvesOut` count the operations on so many
kopecks and a half.

Beyond `Exact` the numbers of float64 are `Unit` apart (`Floats`): the balance is
rounded to one of them when it is read, and so is the sum. Up to some 10^11
roubles float64 gets a fraction of a kopeck right but for a half; up to some 10^13
whole kopecks still add up; beyond, kopecks are lost, and near the limit of the
column, 10^16 roubles, only every second rouble is there. The model has one spacing
for all of these; `coarse` adds up what the writes beyond `Exact` may have lost or
won. The other modules take whole kopecks to add up exactly, and so are about
balances up to some 10^13 roubles.

### CreditService

The tables `credit` and `schedule`, the accounts' `balance`, `collected` (the
sum of the `credit_payment` rows of each credit), `grants` (the credits of each
borrower as `ORDER BY created_at DESC` returns them) and `now`. `payment` is the progress of the
single ProcessMonthlyPayment that can run, as only the scheduler calls it:
`BeginPayment`, `ReadForPayment` (plain SELECT), `DebitAccount` (UPDATE: the
row is locked, the new balance not yet visible), `SettlePayment` (all further
statements, which touch rows nobody else writes, and COMMIT; the COMMIT may be
reported as failed), `FailPayment` (rolls back). `UpdateAccount` stands for
AccountService: it stores any balance at any time, unless the payment holds the
row.

Abstractions: the annuity is loan and interest in equal parts, rounded to kopecks
(`AmountDue`); how the interest follows from the rate is data, and it may
be negative, as no code refuses a negative rate. The last installment is what
subtracting the principals leaves in float64, plus interest
(`credit_service.go:97-100`), and may round to another kopeck: 0.30 over twelve
months at 0% makes eleven rows of 0.03 and one of 0.02. An application carries
this difference as its `residue`, a datum, as the interest is. A month is a
day. A fine is counted, saturating at `MaxFines`, not added up: no
code path compares or collects it.

### SchedulerService and LoanBook

The sweep: `Tick` reads the credits, `SkipCredit`/`VisitCredit` look at the next
copy, `VisitInstallment` starts a payment for an overdue row, `PaymentResult`
logs or goes on to fine, `FineInstallment` and `MarkOverdue` write the copies
back. `FailVisit`, `FailFine`, `FailMarkOverdue` and `FailPayment` are the
error branches, `Crash` the end of the process at any step. All of
them together happen at most `MaxFaults` times.

`LoanBook` is what a loan promises whoever collects it: granted once, with rows
that need not be equal; the amount of one unsettled row is collected at a time
and credited to the earliest unsettled row, in one step, which settles the row if
it is enough; only what is not settled is fined. `SchedulerService` implements it with the schedules and the money
collected as they are: copies, stages, retries and crashes are invisible. The
debt is not part of the book, because the code does not keep it consistent
(below).

### Bank

Requests and scheduler on one table: `AccountAudit`, and an instance of
`SchedulerService` whose `balance` is the column `AccountService` writes. An
UPDATE of a request waits for the row lock of an installment (`Waits`); an
installment writes the column at its COMMIT; the process dies with both.
`tainted` also grows when an installment overwrites a balance that changed
since it was read. `SchedulerKeepsItsPromises` closes the circle: the requests
do to the scheduler nothing that its own environment could not do, so the
invariants of `credits_one` hold inside the bank.

### BalanceForecast

PredictAccountBalance beside the sweep: `ReadBalance`, `ReadCredits`, then
`ReadSchedule` or `PassCredit` for one credit after the other, as its row says
that was read with the list, and `Predict`. `counted` is the set of
installments subtracted; `inBalance` and `known` remember what was paid and
unpaid when the balance was read.

### ConnectionUse

The connections behind `AccountService`. `Slots` is PostgreSQL's
`max_connections`; `NewDB` sets no limit to the pool, so a request that finds none
free fails instead of waiting. `Demand` is two inside the idle transaction: its
own connection and the statement's. Nothing else fails in this module: `Acquire`
is the only caller of `Fail`.

### NotificationService and Server

`NotificationService`: a job (the `go func()` after a commit) looks its users up,
then sends them a letter each; `SendEmail` starts the sender, `Receive` and
`Timeout` are the two branches of its select, `Deliver`, `SendReturns` and
`Offer` are the sender's steps. `Deliver` and `SendReturns` are the library and
the mail server: Send may fail before or after the letter was accepted, or never
return.

`Server`: `main` from serving over Shutdown to the deferred calls in their order
(Stop, cancel, Close), or to Fatalf; requests that are accepted, commit and
answer; the scheduler's ticker and select; jobs and senders, which run as long
as the process does and find users only while the pool is open.

### AuthService, CardService and Gateway

`AuthService`: `CreateUser` is the INSERT the UNIQUE columns arbitrate;
`FindUserByUsername` and `ComparePassword` the two steps of a login, which issues
a token with an expiry; `AuthMiddleware` admits a request for the subject of any
token that has been issued and has not expired. Signatures and bcrypt are taken
to do what they promise.

`CardService`: `GetCardByID`, `CheckOwner`, then one of `CreateCard`,
`GetCardsByAccountID`, `VerifyCVV`, `DeleteCard`. `VerifyCVV` reads the card
again and `CompareCVV` is bcrypt and the answer; other requests run in between. A card is the account it belongs
to and its CVV; `issued` remembers the row of a deleted card. That the
ciphertexts give back what was encrypted is assumed.

`Gateway` composes them: the request the middleware has admitted goes on as a
card request of the token's user.

### Luhn

`calculateLuhnChecksum` as the fold its loop is, and LuhnValid, the textbook
definition (every second digit from the right, digit sum of the double).
`Generate` draws a number.

### IncomeExpense

GetMonthlyIncomeExpense beside the writers. A writer is a request or an
installment reduced to the rows it inserts; each row is dated when it is built
(`BuildTransaction`) and visible when it is inserted (`CreateTransaction`), which
may be in the next month. `quiet` remembers that the month was over and nothing
of its date was still to be inserted when the report was asked for.

## 3. The runs

| Run | Question | Bounds |
|---|---|---|
| `accounts_pairs` | Do two arbitrary requests, valid or not, failing and crashing anywhere, keep the seven invariants of `AccountService` and `AccountAudit`? Yes. | 2 users, 2 open accounts and 2 free ids, 3 numbers, amounts 0-2, column limit 3 |
| `accounts_lost_update` | Do balances equal their transactions when no request failed (`LedgerExplainsBalances`)? **No.** | 2 deposits |
| `accounts_atomic` | Do requests that do not overlap and do not fail half-way implement `BankLedger`? Yes. | 3 open accounts, 1 free id, 2 requests, amounts 1-2, column limit 4 |
| `connections_load` | Does every request give back its connections (`ConnectionsReturned`), and is each one answered, though all hold one and need another (`AnsweredUnderLoad`)? Yes. | 3 requests, 2 connections |
| `connections_split` | Does load alone leave transfers whole (`LoadNeverSplitsATransfer`)? **No.** | a transfer and a deposit, 3 connections |
| `credits_one` | Do one credit and its schedule stay consistent through sweeps, failures, crashes and any change of the account, implement `LoanBook`, and would what is overdue be collected? Yes, if the query returned the credit. | loans that divide evenly, carry interest, leave a remainder, have a negative rate, round to nothing, end with a smaller or a larger row; 4 days, 2 faults |
| `credits_never_swept` | Is it collected, with the users the bank has? **No.** | as above, no fault |
| `credits_two` | With two credits of unequal rows competing for an account, is a forecast taken meanwhile right about every installment? Yes. | 2 credits over 2 and 1 kopecks, 2 days, balances 0-2, no fault |
| `bank_balances` | With requests and scheduler on one table: no overdraft, balances explained where no hazard struck, the scheduler's assumptions kept? Yes. | 2 requests, 1 credit of 2 installments, 2 days, 1 fault, column limit 3 |
| `server_stop` | Does a signal end the process in any case, every job and sender end, every reported success tell the truth? Yes. | a transfer (two letters), an installment (one letter) |
| `gateway` | Do racing registrations, logins, expiring tokens and the card requests they admit keep identities, ownership and deletions right? Yes. | 3 requests, 2 users and a free id, 2 cards and a free id, moments 0-2 |
| `figures` | Is a report right about its month, do fractions of a kopeck and coarse sums stay within the drift they can explain, are card numbers valid? Yes. | 2 accounts, 2 writers, instants 0-4 and months of 2; 6 amounts, 5 operations, balances 0-12, exact up to 5 kopecks and 4 kopecks apart beyond; all numbers of 3 digits and a check digit |

**Why these bounds.** A lost update, a race for a number and a race for funds
need two requests. Balances up to 3 and amounts up to 2 make funds
run out, suffice exactly, and overflow. Two installments are enough for a
payment to hit another row than the visited one; the loan over three
installments leaves a remainder; a last row that is a kopeck smaller than the
others makes a payment fall short. `credits_two` needs no fault: a
fault in a sweep only ends or repeats it, which `credits_one` covers, and a crash ends
the forecast too. The horizons reach beyond the last due date,
so that the sweep also meets schedules entirely overdue. With as many requests
as connections, or fewer, every request could get its second connection in
turn; three on two cannot. Admission needs a login, so three requests are a login
and two card requests that race, or two registrations and a login. A month of two
instants has a first instant and an ordinary one; instants 0 to 4 reach before
and after the month. The amounts round down, up, at a half, and to the same
kopeck. The Luhn loop treats positions alike but for their parity: three digits
have both, and 15 and 3 are both odd. Requests, writers and credits are symmetric
where a run checks no liveness.

`figures` asks its three questions in one run (`question` says which one a
behaviour asks); they share no variable.

**Why credits owned by `Nil`.** The sweep asks for the credits of user
`uuid.Nil` (`scheduler_service.go:63`). `credits.user_id` references
`users.id`, which registration fills with a random UUID, so the query returns
nothing: `credits_never_swept` shows the consequence. The other credit runs
take the rows the query asks for to exist, a user with that id, which is a
legal row of `users`; they show how the sweep's code behaves on the credits it
gets.

**Deadlock** is checked in `accounts_*` and `credits_one`, where an idle or waiting
step is always possible. The other runs end: clients ask a bounded number of
questions, the calendar stops at `Horizon`, the process exits.

### The three violations

1. `accounts_lost_update`: both deposits read 2, both write 3, both are recorded
   and answered with success; the balance lacks one.
2. `connections_split`: a transfer has debited its source; the deposit takes the
   connection the next statement of the transfer needs; the transfer fails and
   the money is gone, although the code defers a
   rollback (`account_service.go:179`).
3. `credits_never_swept`: see above; `src/README.md:19` promises automatic
   collection.

### What the code does that a reader may not expect

Seen while translating; it is in the models, and the properties are stated so
that they hold with it.

* A transfer that fails after its first UPDATE leaves the debit
  (`account_service.go:201`): `AccountAudit` calls the account tainted.
* A transfer to an account that does not exist is answered as an internal error,
  because `handler.go:291` waits for a text no error has.
* A credit that was repaid earlier in a sweep is written back from the sweep's
  copy as overdue, with its old debt (`scheduler_service.go:107`). Hence
  `DebtCoversLoan` bounds the debt from below only, and `LoanBook` has none.
* A loan with interest reaches a debt of zero, and is closed, before its last
  installments are collected (`credit_service.go:177`); they never are.
* An installment overwrites what a request has stored on the account since the
  payment read it, and the reverse (`credit_service.go:172`): `PaysStale`.
* A withdrawal of half a kopeck is recorded as a kopeck and takes nothing; a
  transfer of half a kopeck can create one (`account_service.go:132`).
* An e-mail reported as failed may have been delivered, or be delivered later
  (`notification_service.go:47`).
* After "Server stopped gracefully" the sweep and the e-mails under way are cut
  off (`main.go:74`).
* Any database error at registration is answered as a user that exists, also
  one after the row was inserted (`auth_service.go:42`).
* A payment for a smaller last installment that goes to an earlier row falls
  short of it: the money is taken, the row stays unpaid (`credit_service.go:195`)
  and is collected again, so the client pays too much, by less than one
  installment (`NoRowPaidAgain`). A forecast subtracts such a row as a whole.
* At a balance of 9 * 10^15 roubles a deposit of 0.40 is recorded and leaves the
  balance as it was (`account_service.go:94`; `init.sql:16` has room for 10^16).
* A CVV check of a card deleted meanwhile is answered as a mismatch
  (`handler.go:420`); if the card is deleted during the comparison, the code is
  confirmed for a card that is gone (`card_service.go:149`).
* If an error interrupts ListenAndServe, Fatalf ends the process with requests open
  (`main.go:130`).
* A transaction at the very first instant of a month is in no report
  (`analytics_service.go:56`).
* A forecast misses an installment that is collected between its statements: it
  is neither in the balance read nor unpaid any more (`analytics_service.go:90`).
  `UncountedWasCollected` says that nothing else is missed.

### Fairness

* `credits_one`, `credits_never_swept`: `WF(Sweep)`: the
  scheduler is one goroutine whose ticker goes on ticking, and Go schedules a
  runnable goroutine; every statement it waits for returns (an error is a fault).
  `WF(Day)`: time passes. The faults of a behaviour are finitely many, which is
  the usual meaning of "eventually, once failures stop". No fairness is assumed of
  clients. Funding is the premise `<>[]Funded`: the account eventually always
  holds an installment (of at least a kopeck: one of zero is refused for ever).
  Nothing like it could be expected of the code, since the
  clients may empty the account before each sweep.
* `connections_load`: weak fairness of each request in flight: net/http gives it a
  goroutine, and PostgreSQL answers each statement or refuses the connection.
  The mutant of this run limits the pool: then all wait for each other.
* `server_stop`: weak fairness of `MainStep` (main runs, and the 30 s timer
  fires), of each job (its timer fires too) and of a sender that has a result to
  offer. Nothing is assumed of the mail server, whose Send may never return, nor
  of handlers, nor that a signal ever comes.

The other runs check safety only and assume none.

## 4. The proofs

Every safety property a passing run checks, invariant or action property, is a
theorem, and so are the three refinements: for every value of the constants that
meets the assumptions the modules name. TLC evaluates these assumptions on each
run of the module. Three of them are there for the proofs and are met by any
real system: finitely many requests arrive (`RequestsAssumption`,
`PoolAssumption`), credit ids are finitely many (`LoanAssumption`), and the value
that stands for a missing account is no integer (`NoFundsAssumption`).

### AccountServiceProofs

The first part proves, for every set of users, accounts, numbers and
requests, every set of calls, every opening table and every column limit, that
`Spec` implies always `TypeOK`, `NoOverdraft`, `NumbersUnique`,
`TransferInHasOut`, `ReplyTellsLedger` and `DebitsAreAuthorised`, six of the
invariants of `accounts_pairs`. The assumptions are `ConstantsAssumption`
(distinct sentinels, calls of the right shape, "RUB" is a currency, the
column limit is a natural) and `OpeningAssumption` (the opening table satisfies
the schema).

* **Inv** = `TypeOK`, `NoOverdraft` and for each request `CallOK` (its label
  agrees with what it asks for), `SeenOK` and `RowsOK`. `NoOverdraft`
  alone is not inductive: the UPDATE writes a number that has nothing to do with
  the current balance. `SeenOK` says the number read was in range and, for
  withdrawals and transfers, no smaller than the amount; that is the whole reason
  why stale writes may lose money but never overdraw. `RowsOK` says the rows
  named still exist, without which an UPDATE would give a balance to a missing
  account. A request's part of the invariant mentions only its own
  variables and the existence of rows, so a step of another request keeps it
  (`OthersKept`).
* **NumbersUnique** needs `Inv` and the step lemma `RowsKept`: a step keeps
  every row's owner, number and currency, except that an INSERT adds one with a
  number not taken.
* **LedgerInv** adds `OpeningEntriesOK`, `GrantedOK` (a request that passed its
  checks belongs to the owner, and the destination has the currency of the
  source) and `EntriesOK` (the exact rows a request has written, given its label
  and its answer). The last three theorems are consequences of it.

The second part proves **BankLedgerImplemented** (`ImplementsBankLedger`): any
number of requests that share no account, and fail before their first UPDATE or
not at all, implement `BankLedger`. The invariant, `CarefulInv`, adds to
`LedgerInv` that no two requests are engaged on one account (`Exclusive`) and,
for each request, that what it has read is still what the table holds, and what
it has written is that plus its amount (`CarefulOK`); without it the write at
COMMIT of the mapping could not be the abstract change. `StepKinds` sorts the
steps by what they do to the two tables; one lemma maps each sort to a step of
`BankLedger` or to none (`StepOpens`, `StepCommits`, `CommitBooks`, `StepStutters`).

The third part proves **ConnectionsReturnedHolds**: `PoolInv` says that a request
never holds more than its label demands and that all together hold no more than
there are; only requests that are in flight demand any.

### FiniteSums

What `SumFunction` of the community modules does to integers, for finite sets:
the sum exists and is an integer whatever order it is taken in, an element is
added, taken away or changed, sums over disjoint sets add up, signs are kept. The
induction theorems of the library cannot be used (they take an operator), so
induction is done with sets: `SetInduction` says that a set with 0 and with
successors contains the naturals, `SubsetInduction` the like for finite subsets.
A sum is unfolded from the definition of its fold; that the CHOOSE in it has a
value is `SumsExist`, that the order does not matter is `SumsUnique`.

### SchedulerServiceProofs

Proves, for every set of accounts, credits and applications, every horizon and
any number of faults, all invariants of `credits_one` and
**LoanBookImplemented** (`ImplementsLoanBook`). `Inv` is the conjunction of the
properties and of how far copies may be behind:

* `InstallmentsMatchLedger`, `PaidInOrder` and `NoRowPaidAgain` hold together:
  a payment goes to the earliest row that is not settled, so later rows have been paid
  nothing, and the amount is that of this row or of a later one.
* `CopyOK`: a copy of a credit shows at most more debt than there is, never
  less than what is left to repay. `DebtCoversLoan` needs it, as `MarkOverdue`
  writes that debt back.
* `PlanOK`: of the copy of a schedule, the rows from the visited one on are
  current. Payments settle the earliest payable row, which is the visited
  one or an earlier one (`TargetRow`), so what changes lies behind. Hence
  `CopyIsCurrent`, and hence no fine comes back onto a paid row.
* `PaymentOK`: there is a payment only while the sweep waits for it, for the
  credit it visits, and it has seen a balance that covers it.
* `TablesOK`: ids without a row have no installments.

`PaidInOrder` makes the target of a payment the row the book asks for;
`BookCollect`, `BookFine`, `BookGrant` map the steps that change the book, all
others stutter (`BookStep`).

### BankProofs

First **UntaintedBalancesHolds**. The property is not inductive by itself: nothing
says that the ledger is finite or that an account which is not open has no rows,
and an account that is opened starts with the balance of its books only then.
`AuditInv` is `LedgerInv`, `RowsBooked` and, for each account no hazard has
struck, that its surplus (balance less transactions less what is still to
record) is zero. A step changes the balance, the transactions or what is still
to record by amounts that cancel out.

Then the whole process. `BankInv` is `LedgerInv`, `RowsBooked`, the invariant of
the scheduler for the balances of the bank (`Loan!Inv`), `LoansOpen` (accounts
with loans are open) and that the surplus of an untainted account is minus its
installments collected. From it:

* **BankNoOverdraftHolds**, **UntaintedBankBalancesHolds**: the properties of
  `bank_balances`, for any number of requests and credits.
* **SchedulerKeepsItsPromisesHolds**: the bank implements `SchedulerService` with
  the balances of the bank: a request stores a balance within the column, and
  only while no installment holds the row.
* **LoansInTheBank**: hence what is proved of the scheduler by itself holds
  inside the bank.

`SchedulerServiceProofs` is an instance here (`Loan`), besides the instance in
`Bank` (`Scheduler`); `SameScheduler` shows, action by action, that they are the
same. `LoanAssumption` gives the instance the assumptions of its constants.

### ForecastProofs

**NeverCountedTwiceHolds** and **UncountedWasCollectedHolds**, for every number of
credits. `ForecastInv` says that what was paid when the balance was read is
paid still and not counted (`PaidOK`), and that what was not is counted, paid by
now, or of a credit the forecast has still to look at (`KnownOK`). The second
needs that a credit is in the list of the owner of its account (`OwnersOK`, with
`GrantsOK`). What the scheduler may do between two statements is taken from the
refinement: a step of `LoanBook` never takes an installment away or turns one back
to unpaid (`InstallmentsKept`).

### ServerProofs

**SentMeansDeliveredHolds**: the news that a letter was accepted is true wherever it
is: in the sender, in the channel, in the result (`NewsIsTrue`).
**SenderHasRoomHolds**: a sender that has a result finds its channel
empty, whether or not SendEmail still waits (`RoomInv`: each letter is sent at
most once, and reported at most once). This is the safety half of
`SendersEndWithProcess`, which would be false with the mutant's channel.

### GatewayProofs

`IdentitiesUnique`, `AcceptedRegistrationsStand`, `AdmittedHasLoggedIn`,
`DeletedOnce` and the action properties `CardsChangeByOwner` and `DeletionNoticed`,
for every set of users, cards, accounts, requests and tables. `AuthInv` makes a
token the proof of a login: each was issued for a request that gave the
password of its subject, at the moment its expiry tells (`TokensOK`); a
request that compares passwords has found the user it named
(`AuthRequestOK`). `CardInv` says what a card request has established: it acts for
the user it was admitted for, and, at the label `act`, on an account of this user;
a card it has seen is the card that was issued, though perhaps deleted since
(`CardRequestOK`), also while its CVV is compared.

### FiguresProofs

* **DriftIsBoundedHolds**: for every set of accounts and of positive amounts,
  every `Exact` and `Unit`, and any number of operations, an account is never below
  zero, is short of its transactions by at most a kopeck per credit that ends in
  half a kopeck, and has at most a kopeck too much per such debit, but for what
  `coarse` allows the writes beyond `Exact`. `FloatsNear` bounds a rounding to
  float64, `CreditDrift` and `DebitDrift` what a write can do; the property with the
  types of the columns is inductive because what an operation adds to the balance
  and what it books differ by at most what it adds to the counters.
* **ReportIsBetweenHolds**, **ReportIsFinalHolds**: `MonthInv` says that the sums so far
  are those of a set of rows (`AddsUp`) in which every row lies on an account
  already read, and to which every row of the month that was there at the
  beginning belongs, unless its account is still to be read (`Covers`). No variable
  holds this set; it exists. `QuietOK` says that what is inserted after a quiet
  month belongs to a later one.
* **GeneratedIsValidHolds**: for numbers of any length. The
  loop is a fold from the right; what it has come to, once it has passed a set of
  last digits, is their sum with those doubled after which an even number of
  digits stand (`LoopAt`), by induction over such sets (`LoopIsFold`,
  `LoopGoesOn`, `ChecksumOfSum`).

### Only model-checked

`CollectsWhenFunded`, `AnsweredUnderLoad`, `ExitsAfterSignal`, `JobsEndWithProcess`
and `SendersEndWithProcess`: liveness under fairness is out of the prover's
reach. That the three violations are violations is TLC's to say, too.

## 5. Not modelled

* `CentralBankService`: a stateless call; its result is the interest of an
  application. `config.go`: read once.
* `GetCreditLoadAnalytics`, GetUserAccounts, GetUserCredits and
  GetCreditSchedule: one SELECT each, added up or returned.
* Repository methods nobody calls: deletions of accounts, updates of cards,
  lookups of schedules by status and of transactions by type.
* JSON decoding, status codes, logging, wording of e-mails, the algebra of
  annuities, the ciphers.
* Rate and duration of anything but tokens, months and due dates: a timeout may
  fire at any time after it is armed.

## 6. The plan

Done: everything in the code that keeps state or reads it in several steps is
modelled; every safety property is checked and proved. What is left, most important first:

1. Where liveness rests on safety, prove the safety part, as `SenderHasRoom` does
   for `SendersEndWithProcess`: that an installment which is overdue and funded is
   payable when the sweep visits it, and that the payment then settles it or an
   earlier one (`CollectsWhenFunded`).
2. `IncomeExpense` and `Bank` reduce a writer to what the other side needs. A
   refinement from `AccountService` to the writers of `IncomeExpense` would show
   that the rows a report counts are those requests insert.
3. Shorter proofs: the frame conditions of `BankProofs` (`SameScheduler`,
   `StepStores`) follow one pattern, action by action.
