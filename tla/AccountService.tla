---------------------------- MODULE AccountService ----------------------------
(***************************************************************************)
(* The money-moving requests of the bank: opening an account, deposit,     *)
(* withdrawal and transfer, from the HTTP handler down to the rows of the  *)
(* tables accounts and transactions.                                       *)
(*                                                                         *)
(* Every request is served by a goroutine of its own.  Deposit, Withdraw   *)
(* and Transfer begin an SQL transaction, but the repositories they call   *)
(* were built over the connection pool (main.go), not over that            *)
(* transaction, so each of their statements commits by itself: a step of a *)
(* request below is one such statement together with the code up to the    *)
(* next one, and the steps of different requests interleave freely.        *)
(* Rolling the transaction back, which every early return does, undoes     *)
(* nothing.                                                                *)
(*                                                                         *)
(* Amounts are whole kopecks, which NUMERIC(18,2) stores exactly.          *)
(***************************************************************************)
EXTENDS Integers

CONSTANTS
  Users,       \* primary keys of the table users
  Accounts,    \* primary keys (uuid.New) the table accounts can hold
  Numbers,     \* account numbers generateAccountNumber can return
  Currencies,  \* currency codes clients ask for
  Requests,    \* HTTP requests, one goroutine each
  Calls,       \* what the clients ask for: a subset of Call
  Opening,     \* the table accounts before the first request of Requests
  MaxBalance,  \* the largest balance NUMERIC(18,2) holds
  NoRow,       \* an account id without a row
  None         \* no call, no peer account, no request

Balances == 0 .. MaxBalance

(* A row of the table accounts. *)
Row == [owner : Users, number : Numbers, currency : Currencies, balance : Int]

CreateCall == [op : {"create"}, user : Users, number : Numbers,
               currency : Currencies]

(* A deposit, withdrawal or transfer; peer is the destination of a         *)
(* transfer, and user is the subject of the caller's token.                *)
MoneyCall ==
  [op : {"deposit", "withdraw"}, user : Users, acct : Accounts,
   peer : {None}, amount : Int]
    \cup
  [op : {"transfer"}, user : Users, acct : Accounts, peer : Accounts,
   amount : Int]

Call == CreateCall \cup MoneyCall

ASSUME ConstantsAssumption ==
  /\ MaxBalance \in Nat
  /\ Calls \subseteq Call
  /\ "RUB" \in Currencies
  /\ NoRow \notin Row
  /\ None \notin Accounts \cup Requests \cup Call

(* The accounts that exist before the requests of this model were opened   *)
(* and funded by earlier requests.                                         *)
ASSUME OpeningAssumption ==
  /\ Opening \in [Accounts -> Row \cup {NoRow}]
  /\ \A a \in Accounts : Opening[a] # NoRow => /\ Opening[a].balance \in Balances
                                               /\ Opening[a].currency = "RUB"
  /\ \A a, b \in Accounts :
       /\ Opening[a] # NoRow
       /\ Opening[b] # NoRow
       /\ Opening[a].number = Opening[b].number
       => a = b

VARIABLES
  account,  \* the table accounts
  ledger,   \* the table transactions: a set of rows
  call,     \* what each request asks for
  pc,       \* the statement each request executes next
  seen,     \* the balances a request has read and not yet written back
  reply     \* the answer to each request

vars == <<account, ledger, call, pc, seen, reply>>

Labels == {"new", "check_number", "insert", "authorize", "read", "read_peer",
           "write", "write_peer", "record", "record_peer", "commit", "done"}

(* Answers that tell the client its request was turned down. *)
Refusals == {"invalid_currency", "invalid_amount", "not_found", "forbidden",
             "self_transfer", "currency_mismatch", "insufficient_funds",
             "account_exists"}

Replies == Refusals \cup {"none", "ok", "error"}

Unseen == [acct |-> 0, peer |-> 0]

InFlight(r) == pc[r] \notin {"new", "done"}

-----------------------------------------------------------------------------
(* Control: a request goes on to its next statement, or it is answered and *)
(* its local variables die.                                                *)

Goto(r, label) ==
  /\ pc' = [pc EXCEPT ![r] = label]
  /\ UNCHANGED reply

Finish(r, answer) ==
  /\ pc' = [pc EXCEPT ![r] = "done"]
  /\ reply' = [reply EXCEPT ![r] = answer]
  /\ seen' = [seen EXCEPT ![r] = Unseen]

(* Continue at label, or answer with the verdict that stopped the request. *)
Decide(r, verdict, label) ==
  IF verdict = "proceed"
  THEN Goto(r, label) /\ UNCHANGED seen
  ELSE Finish(r, verdict)

-----------------------------------------------------------------------------
(* Opening an account: look the fresh number up, then insert the row.  The *)
(* two statements are not one: UNIQUE (account_number) has the last word.  *)
(* An INSERT that took effect may still be answered with an error.         *)

NumberTaken(n) ==
  \E a \in Accounts : account[a] # NoRow /\ account[a].number = n

CreateAccountHandler(r) ==
  /\ pc[r] = "new"
  /\ \E c \in Calls :
       /\ c.op = "create"
       /\ call' = [call EXCEPT ![r] = c]
       /\ Decide(r, IF c.currency = "RUB" THEN "proceed" ELSE "invalid_currency",
                 "check_number")
  /\ UNCHANGED <<account, ledger>>

CheckNumber(r) ==
  /\ pc[r] = "check_number"
  /\ Decide(r, IF NumberTaken(call[r].number) THEN "account_exists" ELSE "proceed",
            "insert")
  /\ UNCHANGED <<account, ledger, call>>

(* Mutant: a table without UNIQUE (account_number). *)
InsertAccountUnchecked(r) ==
  /\ pc[r] = "insert"
  /\ \E a \in Accounts :
       /\ account[a] = NoRow
       /\ account' = [account EXCEPT ![a] =
            [owner |-> call[r].user, number |-> call[r].number,
             currency |-> call[r].currency, balance |-> 0]]
  /\ Finish(r, "ok")
  /\ UNCHANGED <<ledger, call>>

InsertAccount(r) ==
  /\ pc[r] = "insert"
  /\ IF NumberTaken(call[r].number)
     THEN Finish(r, "error") /\ UNCHANGED account
     ELSE /\ \E a \in Accounts :
               /\ account[a] = NoRow
               /\ account' = [account EXCEPT ![a] =
                    [owner |-> call[r].user, number |-> call[r].number,
                     currency |-> call[r].currency, balance |-> 0]]
          /\ \E answer \in {"ok", "error"} : Finish(r, answer)
  /\ UNCHANGED <<ledger, call>>

-----------------------------------------------------------------------------
(* Deposit, withdrawal and transfer.                                       *)

(* The handler parses the request and turns down amounts that are not      *)
(* positive.                                                               *)
MoneyHandler(r) ==
  /\ pc[r] = "new"
  /\ \E c \in Calls :
       /\ c.op # "create"
       /\ call' = [call EXCEPT ![r] = c]
       /\ Decide(r, IF c.amount <= 0 THEN "invalid_amount" ELSE "proceed",
                 "authorize")
  /\ UNCHANGED <<account, ledger>>

(* Mutant: the ownership check of the handlers is missing. *)
AccessVerdictAnyUser(c) ==
  IF account[c.acct] = NoRow THEN "not_found"
  ELSE IF c.op = "transfer" /\ c.acct = c.peer THEN "self_transfer"
  ELSE "proceed"

(* The handler's lookup of the account, its ownership check, and the check *)
(* of Transfer that comes before any statement of its own.                 *)
AccessVerdict(c) ==
  IF account[c.acct] = NoRow THEN "not_found"
  ELSE IF account[c.acct].owner # c.user THEN "forbidden"
  ELSE IF c.op = "transfer" /\ c.acct = c.peer THEN "self_transfer"
  ELSE "proceed"

Authorize(r) ==
  /\ pc[r] = "authorize"
  /\ Decide(r, AccessVerdict(call[r]), "read")
  /\ UNCHANGED <<account, ledger, call>>

GetAccountByID(a) == account[a]

(* UPDATE accounts SET balance: overwrites whatever the row holds by now,  *)
(* unless the value overflows the column, which fails the statement.       *)
UpdateAccount(r, a, v, label) ==
  IF v <= MaxBalance
  THEN /\ account' = [account EXCEPT ![a].balance = v]
       /\ Goto(r, label)
       /\ UNCHANGED seen
  ELSE Finish(r, "error") /\ UNCHANGED account

(* Withdraw compares the balance at once; Transfer reads the destination   *)
(* first.                                                                  *)
ReadAccount(r) ==
  LET c == call[r]
      b == GetAccountByID(c.acct).balance
  IN  /\ pc[r] = "read"
      /\ IF c.op = "withdraw" /\ b < c.amount
         THEN Finish(r, "insufficient_funds")
         ELSE /\ seen' = [seen EXCEPT ![r].acct = b]
              /\ Goto(r, IF c.op = "transfer" THEN "read_peer" ELSE "write")
      /\ UNCHANGED <<account, ledger, call>>

(* Mutant: Transfer forgets to compare the balance with the amount. *)
TransferVerdictNoFunds(c, from) ==
  IF account[c.peer] = NoRow THEN "error"
  ELSE IF account[c.peer].currency # account[c.acct].currency THEN "currency_mismatch"
  ELSE "proceed"

(* A destination without a row is answered with an internal error.         *)
TransferVerdict(c, from) ==
  IF account[c.peer] = NoRow THEN "error"
  ELSE IF account[c.peer].currency # account[c.acct].currency THEN "currency_mismatch"
  ELSE IF from < c.amount THEN "insufficient_funds"
  ELSE "proceed"

ReadPeer(r) ==
  LET c == call[r]
      verdict == TransferVerdict(c, seen[r].acct)
  IN  /\ pc[r] = "read_peer"
      /\ IF verdict = "proceed"
         THEN /\ seen' = [seen EXCEPT ![r].peer = GetAccountByID(c.peer).balance]
              /\ Goto(r, "write")
         ELSE Finish(r, verdict)
      /\ UNCHANGED <<account, ledger, call>>

(* What the request adds to the balance of its own account. *)
Delta(c) == IF c.op = "deposit" THEN c.amount ELSE -c.amount

WriteAccount(r) ==
  LET c == call[r]
  IN  /\ pc[r] = "write"
      /\ UpdateAccount(r, c.acct, seen[r].acct + Delta(c),
                       IF c.op = "transfer" THEN "write_peer" ELSE "record")
      /\ UNCHANGED <<ledger, call>>

(* Mutant: the new balance of the destination is computed from the source. *)
WritePeerFromSource(r) ==
  /\ pc[r] = "write_peer"
  /\ UpdateAccount(r, call[r].peer, seen[r].acct + call[r].amount, "record")
  /\ UNCHANGED <<ledger, call>>

WritePeer(r) ==
  /\ pc[r] = "write_peer"
  /\ UpdateAccount(r, call[r].peer, seen[r].peer + call[r].amount, "record")
  /\ UNCHANGED <<ledger, call>>

(* Mutant: a withdrawal is recorded under the name of its operation. *)
TransactionTypeOfOp(op) == IF op = "transfer" THEN "transfer_out" ELSE op

TransactionType(op) ==
  IF op = "deposit" THEN "deposit"
  ELSE IF op = "withdraw" THEN "withdrawal"
  ELSE "transfer_out"

(* The rows a request writes into the table transactions. *)
AccountEntry(r, c) ==
  [req |-> r, acct |-> c.acct, type |-> TransactionType(c.op),
   amount |-> Delta(c), related |-> c.peer]

PeerEntry(r, c) ==
  [req |-> r, acct |-> c.peer, type |-> "transfer_in",
   amount |-> c.amount, related |-> c.acct]

CreateTransaction(row) == ledger' = ledger \cup {row}

(* Mutants: the two rows of a transfer in the other order; only one row. *)
RecordAccountSwapped(r) ==
  /\ pc[r] = "record"
  /\ CreateTransaction(IF call[r].op = "transfer" THEN PeerEntry(r, call[r])
                       ELSE AccountEntry(r, call[r]))
  /\ Goto(r, IF call[r].op = "transfer" THEN "record_peer" ELSE "commit")
  /\ UNCHANGED <<account, call, seen>>

RecordAccountOnly(r) ==
  /\ pc[r] = "record"
  /\ CreateTransaction(AccountEntry(r, call[r]))
  /\ Goto(r, "commit")
  /\ UNCHANGED <<account, call, seen>>

RecordAccount(r) ==
  /\ pc[r] = "record"
  /\ CreateTransaction(AccountEntry(r, call[r]))
  /\ Goto(r, IF call[r].op = "transfer" THEN "record_peer" ELSE "commit")
  /\ UNCHANGED <<account, call, seen>>

RecordPeer(r) ==
  /\ pc[r] = "record_peer"
  /\ CreateTransaction(PeerEntry(r, call[r]))
  /\ Goto(r, "commit")
  /\ UNCHANGED <<account, call, seen>>

(* COMMIT of a transaction on which nothing was executed. *)
Commit(r) ==
  /\ pc[r] = "commit"
  /\ Finish(r, "ok")
  /\ UNCHANGED <<account, ledger, call>>

-----------------------------------------------------------------------------
(* Any statement of a request may fail: a broken connection, a server      *)
(* without a free connection slot, the request's context cancelled because *)
(* the client went away.  The error may be reported for a statement that   *)
(* took effect, which is the failure of the statement after it.  The       *)
(* deferred Rollback has nothing to undo.                                  *)
Fail(r) ==
  /\ InFlight(r)
  /\ Finish(r, "error")
  /\ UNCHANGED <<account, ledger, call>>

(* The process dies, or main returns before the requests are done: the     *)
(* tables stay as they are and no request in flight is ever answered.      *)
Crash ==
  /\ \E r \in Requests : InFlight(r)
  /\ pc' = [r \in Requests |-> IF InFlight(r) THEN "done" ELSE pc[r]]
  /\ reply' = [r \in Requests |-> IF InFlight(r) THEN "error" ELSE reply[r]]
  /\ seen' = [r \in Requests |-> Unseen]
  /\ UNCHANGED <<account, ledger, call>>

(* All requests answered: the server waits for more. *)
Idle ==
  /\ \A r \in Requests : pc[r] = "done"
  /\ UNCHANGED vars

Step(r) ==
  \/ CreateAccountHandler(r) \/ CheckNumber(r) \/ InsertAccount(r)
  \/ MoneyHandler(r) \/ Authorize(r)
  \/ ReadAccount(r) \/ ReadPeer(r)
  \/ WriteAccount(r) \/ WritePeer(r)
  \/ RecordAccount(r) \/ RecordPeer(r)
  \/ Commit(r)

Init ==
  /\ account = Opening
  /\ ledger = {[req |-> None, acct |-> a, type |-> "deposit",
                amount |-> Opening[a].balance, related |-> None] :
                 a \in {b \in Accounts : Opening[b] # NoRow
                                             /\ Opening[b].balance > 0}}
  /\ call = [r \in Requests |-> None]
  /\ pc = [r \in Requests |-> "new"]
  /\ seen = [r \in Requests |-> Unseen]
  /\ reply = [r \in Requests |-> "none"]

Next ==
  \/ \E r \in Requests : Step(r) \/ Fail(r)
  \/ Crash
  \/ Idle

Spec == Init /\ [][Next]_vars
-----------------------------------------------------------------------------
(* Properties.                                                             *)

(* The state holds rows, calls, labels and answers of the right kind.      *)
TypeOK ==
  /\ account \in [Accounts -> Row \cup {NoRow}]
  /\ ledger \subseteq [req : Requests \cup {None}, acct : Accounts,
                       type : {"deposit", "withdrawal", "transfer_out", "transfer_in"},
                       amount : Int, related : Accounts \cup {None}]
  /\ call \in [Requests -> Calls \cup {None}]
  /\ pc \in [Requests -> Labels]
  /\ seen \in [Requests -> [acct : Int, peer : Int]]
  /\ reply \in [Requests -> Replies]

(* No account is ever overdrawn and no balance leaves its column: although *)
(* Withdraw and Transfer compare the amount with a balance they read       *)
(* earlier, they write back the difference of that same balance, so no     *)
(* interleaving, failure or crash stores a negative one.                   *)
NoOverdraft ==
  \A a \in Accounts : account[a] # NoRow => account[a].balance \in Balances

(* No two accounts have the same number, although CreateAccount checks the *)
(* number in one statement and inserts the row in a later one.             *)
NumbersUnique ==
  \A a, b \in Accounts :
    /\ account[a] # NoRow
    /\ account[b] # NoRow
    /\ account[a].number = account[b].number
    => a = b

(* Money booked as received from a transfer is booked as sent on the       *)
(* account it names: however a transfer is cut short, the transactions     *)
(* table never shows its second row without its first.                     *)
TransferInHasOut ==
  \A row \in ledger : row.type = "transfer_in" =>
    \E out \in ledger : /\ out.type = "transfer_out"
                        /\ out.req = row.req
                        /\ out.amount = -row.amount
                        /\ out.acct = row.related
                        /\ out.related = row.acct

EntriesOf(r) == {row \in ledger : row.req = r}

ExpectedEntries(r) ==
  LET c == call[r]
  IN  IF c = None \/ c.op = "create" THEN {}
      ELSE {AccountEntry(r, c)} \cup
             (IF c.op = "transfer" THEN {PeerEntry(r, c)} ELSE {})

(* What the client is told agrees with the transactions table: a success   *)
(* has exactly the rows of its operation, a refusal has none, and an       *)
(* internal error has at most rows of the operation that was asked for.    *)
ReplyTellsLedger ==
  \A r \in Requests :
    /\ reply[r] = "ok" => EntriesOf(r) = ExpectedEntries(r)
    /\ reply[r] \in Refusals => EntriesOf(r) = {}
    /\ EntriesOf(r) \subseteq ExpectedEntries(r)

(* Money is booked out of an account only by a request of its owner, and a *)
(* transfer stays within one currency.                                     *)
DebitsAreAuthorised ==
  \A row \in ledger : row.amount < 0 =>
    /\ row.req \in Requests
    /\ account[row.acct] # NoRow
    /\ account[row.acct].owner = call[row.req].user
    /\ row.related # None =>
         /\ account[row.related] # NoRow
         /\ account[row.related].currency = account[row.acct].currency
=============================================================================
